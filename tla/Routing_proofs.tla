--------------------------- MODULE Routing_proofs ----------------------------
(***************************************************************************)
(* Proofs about the routing interface.  First the timer of a secure group  *)
(* (SecureGroup), for any group, any clocks of its hosts and any latency   *)
(* tolerances with SyncLatency < Latency; then the flow control (Routing), *)
(* for any set of senders and any times that satisfy RoutingAssumption.    *)
(***************************************************************************)
EXTENDS SecureGroup, Routing, TLAPS

Wrappers == {f \in net : f.kind = "wrapper"}

Typed ==
    /\ now \in Nat /\ wrappers \in 0..MaxWrappers
    /\ diff \in [Members -> Int] /\ DOMAIN notify = Members
    /\ phase \in [Members -> {"down", "sync", "connected"}]
    /\ DOMAIN open = Members /\ DOMAIN auth = Members /\ DOMAIN interrupted = Members
    /\ waiter \in [Members -> [st : {"none", "pending", "answered", "timeout", "cancelled"},
                               value : Int]]
    /\ first \in [Members -> [Ids -> Int]] /\ spread \in [Members -> Int]
    /\ \A f \in net : /\ f.to \in Members /\ f.value \in Int
                      /\ f.kind \in {"notify", "wrapper"}
                      /\ f.kind = "wrapper" => f.id \in 1..wrappers

(* A value that a clock of the group reads now, or read some time ago.     *)
Genuine(value) == \E n \in Members : value <= MonotonicMs(n)

ValuesGenuine ==
    /\ TimersGenuine
    /\ \A f \in net : Genuine(f.value)
    /\ \A m \in Members : waiter[m].st = "answered" => Genuine(waiter[m].value)

(* Before connect() has returned nothing was accepted.                     *)
NothingAccepted ==
    \A m \in Members :
        /\ phase[m] = "sync" => ~auth[m]
        /\ ~auth[m] => \A w \in Ids : first[m][w] = -1
        /\ \A w \in Ids : first[m][w] # -1 => w <= wrappers

(* The copies of a wrapper carry one value, and the timer of a member that *)
(* has accepted it has moved on from there ever since.                     *)
TimerReached ==
    /\ \A f, g \in Wrappers : f.id = g.id => f.value = g.value
    /\ \A f \in Wrappers :
        first[f.to][f.id] # -1 =>
            CurrentTimerValue(f.to) - f.value >= now - first[f.to][f.id]

(* synchronize() is cancelled by the caller or by disconnect() only.       *)
CancelledKnown ==
    \A m \in Members :
        phase[m] = "sync" /\ open[m] /\ ~interrupted[m] => waiter[m].st # "cancelled"

Inv ==
    /\ Typed /\ ValuesGenuine /\ NothingAccepted /\ TimerReached /\ ReplayWindow
    /\ CancelledKnown /\ Listening

-----------------------------------------------------------------------------

LEMMA MaxOfTwo ==
    ASSUME NEW a \in Int, NEW b \in Int
    PROVE  Max({a, b}) = IF a > b THEN a ELSE b
<1> DEFINE m == IF a > b THEN a ELSE b
<1>1. m \in {a, b} /\ \A y \in {a, b} : m >= y
  OBVIOUS
<1>2. \A x \in {a, b} : (\A y \in {a, b} : x >= y) => x = m
  OBVIOUS
<1> QED BY <1>1, <1>2 DEF Max

(* A handle of the notify timer is not the absent one.                     *)
LEMMA Handles == Periodic # NoHandle /\ \A t : <<"update", t>> # NoHandle
BY DEF Periodic, NoHandle

LEMMA InitInv == Init => Inv
<1> SUFFICES ASSUME Init
             PROVE  Inv
  OBVIOUS
<1> USE SecureGroupAssumption
<1>1. Typed
  BY DEF Init, Typed, NoWaiter, Ids
<1>2. ValuesGenuine
  BY DEF Init, ValuesGenuine, TimersGenuine, Genuine, CurrentTimerValue, MonotonicMs, NoWaiter
<1>3. NothingAccepted /\ TimerReached /\ CancelledKnown
  BY DEF Init, NothingAccepted, TimerReached, CancelledKnown, Wrappers, Ids
<1>4. ReplayWindow /\ Listening
  BY DEF Init, ReplayWindow, Listening
<1> QED BY <1>1, <1>2, <1>3, <1>4 DEF Inv

(* follow: the timer is raised to a later value and never set back.        *)
LEMMA FollowRaises ==
    ASSUME Typed, NEW m \in Members, NEW v \in Int, Follow(m, v), UNCHANGED now
    PROVE  /\ diff' \in [Members -> Int]
           /\ CurrentTimerValue(m)' = IF v > CurrentTimerValue(m) THEN v ELSE CurrentTimerValue(m)
           /\ \A n \in Members \ {m} : CurrentTimerValue(n)' = CurrentTimerValue(n)
           /\ \A n \in Members : CurrentTimerValue(n) \in Int /\ MonotonicMs(n) \in Int
BY SecureGroupAssumption DEF Follow, Raise, CurrentTimerValue, MonotonicMs, Typed

LEMMA TimersAreInts ==
    ASSUME Typed
    PROVE  \A n \in Members : MonotonicMs(n) \in Int /\ CurrentTimerValue(n) \in Int
BY SecureGroupAssumption DEF CurrentTimerValue, MonotonicMs, Typed

LEMMA Numbers ==
    /\ MaxWrappers \in Nat
    /\ Typed => /\ wrappers \in Nat /\ Ids \subseteq Nat
                /\ \A m \in Members, w \in Ids : first[m][w] \in Int
<1>1. MaxWrappers \in Nat
  BY SecureGroupAssumption
<1>2. Typed => wrappers \in Nat /\ first \in [Members -> [Ids -> Int]]
  BY <1>1 DEF Typed
<1> QED BY <1>1, <1>2 DEF Ids

LEMMA WrapperTypes ==
    ASSUME Typed
    PROVE  \A f \in Wrappers : /\ f.to \in Members /\ f.id \in Ids /\ f.id <= wrappers
                               /\ f.value \in Int /\ first[f.to][f.id] \in Int
<1> SUFFICES ASSUME NEW f \in Wrappers
             PROVE  /\ f.to \in Members /\ f.id \in Ids /\ f.id <= wrappers
                    /\ f.value \in Int /\ first[f.to][f.id] \in Int
  OBVIOUS
<1>1. f.to \in Members /\ f.value \in Int /\ f.id \in 1..wrappers /\ wrappers \in 0..MaxWrappers
  BY DEF Typed, Wrappers
<1>2. f.id \in Ids /\ f.id <= wrappers
  BY <1>1, Numbers DEF Ids
<1> QED BY <1>1, <1>2, Numbers

(* Time passes for all clocks and timers alike.                            *)
LEMMA TickInv ==
    ASSUME Inv, Tick
    PROVE  Inv'
<1> USE SecureGroupAssumption
<1>0. /\ Typed /\ now' = now + 1
      /\ UNCHANGED <<diff, notify, waiter, net, member, counters, first, spread>>
  BY DEF Inv, Tick
<1>1. Typed'
  BY <1>0 DEF Typed, member, counters
<1>2. \A n \in Members : /\ MonotonicMs(n)' = MonotonicMs(n) + 1
                         /\ CurrentTimerValue(n)' = CurrentTimerValue(n) + 1
                         /\ MonotonicMs(n) \in Int /\ CurrentTimerValue(n) \in Int
  <2>1. /\ now \in Nat /\ now' = now + 1 /\ diff' = diff
        /\ \A n \in Members : diff[n] \in Int /\ HostClock[n] \in Nat
    BY <1>0 DEF Typed
  <2> QED BY <2>1 DEF MonotonicMs, CurrentTimerValue
<1>3. ValuesGenuine'
  <2>1. \A v \in Int : Genuine(v) => Genuine(v)'
    BY <1>2 DEF Genuine
  <2>2. TimersGenuine'
    BY <1>2 DEF Inv, ValuesGenuine, TimersGenuine
  <2> QED BY <1>0, <2>1, <2>2 DEF Inv, ValuesGenuine, Typed
<1>4. NothingAccepted' /\ CancelledKnown' /\ ReplayWindow' /\ Listening'
  BY <1>0 DEF Inv, NothingAccepted, CancelledKnown, ReplayWindow, Listening, member, counters
<1>5. TimerReached'
  BY <1>0, <1>2, WrapperTypes DEF Inv, TimerReached, Wrappers, Typed
<1> QED BY <1>1, <1>3, <1>4, <1>5 DEF Inv

(* The timers and what was accepted stay as they are, while frames with    *)
(* genuine values get under way or get lost.                               *)
Quiet == UNCHANGED <<now, diff, first, spread, auth>>

LEMMA QuietInv ==
    ASSUME Inv, Quiet, Typed',
           wrappers <= wrappers',
           \A f \in net' : f \in net \/ f.kind = "notify",
           \A f \in net' : Genuine(f.value),
           \A m \in Members : phase'[m] = "sync" => phase[m] = "sync",
           \A m \in Members : waiter'[m].st = "answered" => Genuine(waiter'[m].value)
    PROVE  ValuesGenuine' /\ NothingAccepted' /\ TimerReached' /\ ReplayWindow'
<1>1. \A n \in Members : /\ MonotonicMs(n)' = MonotonicMs(n)
                         /\ CurrentTimerValue(n)' = CurrentTimerValue(n)
  BY DEF Quiet, MonotonicMs, CurrentTimerValue
<1>2. ValuesGenuine'
  BY <1>1 DEF Inv, ValuesGenuine, TimersGenuine, Genuine
<1>3. NothingAccepted'
  <2>1. wrappers' \in Nat
    BY Numbers DEF Typed
  <2>2. \A w \in Ids : w <= wrappers => w <= wrappers'
    BY <2>1, Numbers DEF Inv
  <2> QED BY <2>2 DEF Inv, NothingAccepted, Quiet
<1>4. Wrappers' \subseteq Wrappers
  BY DEF Wrappers
<1>5. TimerReached'
  BY <1>1, <1>4 DEF Inv, TimerReached, Quiet, Wrappers, Typed
<1>6. ReplayWindow'
  BY DEF Inv, ReplayWindow, Quiet
<1> QED BY <1>2, <1>3, <1>5, <1>6

LEMMA LoseInv ==
    ASSUME Inv, Lose
    PROVE  Inv'
<1>1. Typed' /\ Quiet /\ net' \subseteq net /\ UNCHANGED <<phase, waiter, wrappers, open,
   interrupted, notify>>
  BY DEF Inv, Typed, Lose, Quiet, member
<1>2. ValuesGenuine' /\ NothingAccepted' /\ TimerReached' /\ ReplayWindow'
  BY <1>1, QuietInv DEF Inv, ValuesGenuine, Typed
<1>3. CancelledKnown' /\ Listening'
  BY <1>1 DEF Inv, CancelledKnown, Listening, Quiet
<1> QED BY <1>1, <1>2, <1>3 DEF Inv

LEMMA WaiterInv ==
    ASSUME Inv, NEW m \in Members, SyncTimeout(m) \/ CancelConnect(m)
    PROVE  Inv'
<1>1. /\ Quiet /\ UNCHANGED <<net, phase, open, notify, wrappers>>
      /\ waiter'[m].st \in {"timeout", "cancelled"}
      /\ \A n \in Members \ {m} : waiter'[n] = waiter[n] /\ interrupted'[n] = interrupted[n]
      /\ waiter'[m].st = "cancelled" => interrupted'[m]
      /\ phase[m] = "sync"
      /\ Typed'
  <2>1. CASE SyncTimeout(m)
    BY <2>1 DEF Inv, Typed, SyncTimeout, Quiet, member, counters
  <2>2. CASE CancelConnect(m)
    BY <2>2 DEF Inv, Typed, CancelConnect, Quiet, member, counters
  <2> QED BY <2>1, <2>2
<1>2. ValuesGenuine' /\ NothingAccepted' /\ TimerReached' /\ ReplayWindow'
  <2>1. wrappers <= wrappers' /\ \A f \in net' : f \in net /\ Genuine(f.value)
    BY <1>1, Numbers DEF Inv, ValuesGenuine
  <2>2. \A n \in Members : waiter'[n].st = "answered" => Genuine(waiter'[n].value)
    BY <1>1 DEF Inv, ValuesGenuine
  <2>3. \A n \in Members : phase'[n] = "sync" => phase[n] = "sync"
    BY <1>1
  <2> QED BY <1>1, <2>1, <2>2, <2>3, QuietInv
<1>3. CancelledKnown' /\ Listening'
  BY <1>1 DEF Inv, CancelledKnown, Listening, Quiet
<1> QED BY <1>1, <1>2, <1>3 DEF Inv

LEMMA NotifyTimerExpiredInv ==
    ASSUME Inv, NEW m \in Members, NotifyTimerExpired(m)
    PROVE  Inv'
<1>1. Quiet /\ UNCHANGED <<phase, open, interrupted, waiter, wrappers>>
  BY DEF NotifyTimerExpired, Quiet, counters
<1>2. Genuine(CurrentTimerValue(m)) /\ CurrentTimerValue(m) \in Int
  BY TimersAreInts DEF Inv, ValuesGenuine, TimersGenuine, Genuine
<1>3. /\ \A f \in net' : f \in net \/ (/\ f.kind = "notify" /\ f.to \in Members
                                       /\ f.value = CurrentTimerValue(m))
      /\ DOMAIN notify' = Members
      /\ \A n \in Members : open[n] /\ notify[n] # NoHandle => notify'[n] # NoHandle
  BY Handles DEF NotifyTimerExpired, SendTimerNotify, Multicast, Frame, Reschedule, Inv, Typed
<1>4. Typed'
  BY <1>1, <1>2, <1>3 DEF Inv, Typed, Quiet
<1>5. ValuesGenuine' /\ NothingAccepted' /\ TimerReached' /\ ReplayWindow'
  BY <1>1, <1>2, <1>3, <1>4, QuietInv DEF Inv, ValuesGenuine, Typed
<1>6. CancelledKnown' /\ Listening'
  BY <1>1, <1>3 DEF Inv, CancelledKnown, Listening, Quiet
<1> QED BY <1>4, <1>5, <1>6 DEF Inv

(* A new connection starts from the clock of its host.                     *)
LEMMA ConnectInv ==
    ASSUME Inv, NEW m \in Members, Connect(m)
    PROVE  Inv'
<1> USE SecureGroupAssumption
<1>1. /\ diff' = [diff EXCEPT ![m] = 0] /\ auth' = [auth EXCEPT ![m] = FALSE]
      /\ phase' = [phase EXCEPT ![m] = "sync"] /\ open' = [open EXCEPT ![m] = TRUE]
      /\ notify' = [notify EXCEPT ![m] = NoHandle]
      /\ waiter' = [waiter EXCEPT ![m] = [st |-> "pending", value |-> 0]]
      /\ interrupted' = [interrupted EXCEPT ![m] = FALSE]
      /\ first' = [first EXCEPT ![m] = [w \in Ids |-> -1]]
      /\ UNCHANGED <<now, wrappers, spread>>
  BY DEF Connect
<1>2. \A f \in net' : f \in net \/ (/\ f.kind = "notify" /\ f.to \in Members
                                    /\ f.value = MonotonicMs(m))
  BY DEF Connect, Frame
<1>3. Typed'
  <2>1. MonotonicMs(m) \in Int
    BY TimersAreInts DEF Inv
  <2>2. first' \in [Members -> [Ids -> Int]]
    BY <1>1 DEF Inv, Typed
  <2>3. \A f \in net' : /\ f.to \in Members /\ f.value \in Int
                        /\ f.kind \in {"notify", "wrapper"}
                        /\ f.kind = "wrapper" => f.id \in 1..wrappers'
    BY <1>1, <1>2, <2>1 DEF Inv, Typed
  <2> QED BY <1>1, <2>2, <2>3 DEF Inv, Typed
<1>4. /\ \A n \in Members : MonotonicMs(n)' = MonotonicMs(n) /\ MonotonicMs(n) \in Int
      /\ \A n \in Members \ {m} : CurrentTimerValue(n)' = CurrentTimerValue(n)
      /\ CurrentTimerValue(m)' = MonotonicMs(m)
  BY <1>1, TimersAreInts DEF Inv, Typed, MonotonicMs, CurrentTimerValue
<1>5. ValuesGenuine'
  <2>1. \A v : Genuine(v) <=> Genuine(v)'
    BY <1>4 DEF Genuine
  <2>2. Genuine(MonotonicMs(m))
    BY <1>4 DEF Genuine
  <2>3. TimersGenuine'
    BY <1>4 DEF Inv, ValuesGenuine, TimersGenuine
  <2> QED BY <1>1, <1>2, <2>1, <2>2, <2>3 DEF Inv, Typed, ValuesGenuine
<1>6. NothingAccepted' /\ ReplayWindow'
  BY <1>1 DEF Inv, Typed, NothingAccepted, ReplayWindow
<1>7. TimerReached'
  <2>1. \A f \in Wrappers' : f \in Wrappers /\ f.to \in Members /\ f.id \in Ids
    BY <1>2 DEF Wrappers, Inv, Typed, Ids
  <2>2. \A f \in Wrappers' : f.to = m => first'[f.to][f.id] = -1
    BY <1>1, <2>1 DEF Inv, Typed
  <2>3. \A f \in Wrappers' : f.to # m => first'[f.to] = first[f.to]
    BY <1>1, <2>1 DEF Inv, Typed
  <2> QED BY <1>1, <1>4, <2>1, <2>2, <2>3 DEF Inv, TimerReached
<1>8. CancelledKnown' /\ Listening'
  BY <1>1 DEF Inv, Typed, CancelledKnown, Listening
<1> QED BY <1>3, <1>5, <1>6, <1>7, <1>8 DEF Inv

(* synchronize() returns: the timer may be set back, but nothing was       *)
(* accepted before.                                                        *)
LEMMA SynchronizedInv ==
    ASSUME Inv, NEW m \in Members, Synchronized(m)
    PROVE  Inv'
<1> USE SecureGroupAssumption
<1>1. /\ phase[m] = "sync" /\ phase' = [phase EXCEPT ![m] = "connected"]
      /\ waiter' = [waiter EXCEPT ![m] = NoWaiter]
      /\ UNCHANGED <<now, open, net, interrupted, wrappers, first, spread>>
  BY DEF Synchronized, counters
<1>2. /\ waiter[m].st = "answered" /\ Genuine(waiter[m].value) /\ Update(m, waiter[m].value)
      \/ UNCHANGED diff
  BY DEF Synchronized, Inv, ValuesGenuine
<1>3. /\ IF waiter[m].st = "cancelled" THEN UNCHANGED <<auth, notify>>
         ELSE auth' = [auth EXCEPT ![m] = TRUE] /\ notify' = [notify EXCEPT ![m] = Periodic]
  BY DEF Synchronized, Reschedule
<1>4. /\ diff' \in [Members -> Int]
      /\ \A n \in Members : MonotonicMs(n)' = MonotonicMs(n) /\ MonotonicMs(n) \in Int
      /\ \A n \in Members \ {m} : CurrentTimerValue(n)' = CurrentTimerValue(n)
      /\ \/ CurrentTimerValue(m)' = CurrentTimerValue(m)
         \/ waiter[m].st = "answered" /\ CurrentTimerValue(m)' = waiter[m].value
  <2>1. /\ diff \in [Members -> Int] /\ waiter[m].value \in Int
        /\ \A n \in Members : MonotonicMs(n) \in Int
    BY TimersAreInts DEF Inv, Typed
  <2>2. \A n \in Members : MonotonicMs(n)' = MonotonicMs(n)
    BY <1>1 DEF MonotonicMs
  <2> QED BY <1>2, <2>1, <2>2 DEF Update, CurrentTimerValue
<1>5. Typed'
  <2>1. DOMAIN auth' = Members /\ DOMAIN notify' = Members
    BY <1>3 DEF Inv, Typed
  <2>2. waiter' \in [Members -> [st : {"none", "pending", "answered", "timeout", "cancelled"},
                                value : Int]]
    BY <1>1 DEF Inv, Typed, NoWaiter
  <2> QED BY <1>1, <1>4, <2>1, <2>2 DEF Inv, Typed
<1>6. ValuesGenuine'
  <2>1. \A v : Genuine(v) <=> Genuine(v)'
    BY <1>4 DEF Genuine
  <2>2. TimersGenuine'
    BY <1>4 DEF Inv, ValuesGenuine, TimersGenuine, Genuine
  <2> QED BY <1>1, <2>1, <2>2 DEF Inv, Typed, ValuesGenuine, NoWaiter
<1>7. \A w \in Ids : first[m][w] = -1
  BY <1>1 DEF Inv, NothingAccepted
<1>8. NothingAccepted' /\ ReplayWindow'
  BY <1>1, <1>3, <1>7 DEF Inv, Typed, NothingAccepted, ReplayWindow
<1>9. TimerReached'
  <2>1. Wrappers' = Wrappers /\ first' = first /\ now' = now
    BY <1>1 DEF Wrappers
  <2>2. \A f \in Wrappers : /\ f.to \in Members
                            /\ f.to = m => first[f.to][f.id] = -1
                            /\ f.to # m => CurrentTimerValue(f.to)' = CurrentTimerValue(f.to)
    BY <1>4, <1>7, WrapperTypes DEF Inv
  <2> QED BY <2>1, <2>2 DEF Inv, TimerReached
<1>10. CancelledKnown'
  BY <1>1 DEF Inv, Typed, CancelledKnown
<1>11. Listening'
  BY <1>1, <1>3, Handles DEF Inv, Typed, CancelledKnown, Listening
<1> QED BY <1>5, <1>6, <1>8, <1>9, <1>10, <1>11 DEF Inv

LEMMA DisconnectInv ==
    ASSUME Inv, NEW m \in Members, Disconnect(m)
    PROVE  Inv'
<1> USE SecureGroupAssumption
<1>1. /\ open' = [open EXCEPT ![m] = FALSE] /\ notify' = [notify EXCEPT ![m] = NoHandle]
      /\ UNCHANGED <<now, net, wrappers, spread>>
  BY DEF Disconnect, counters
<1>2. CASE phase[m] = "connected"
  <2>1. /\ phase' = [phase EXCEPT ![m] = "down"] /\ diff' = [diff EXCEPT ![m] = 0]
        /\ auth' = [auth EXCEPT ![m] = FALSE] /\ interrupted' = [interrupted EXCEPT ![m] = FALSE]
        /\ first' = [first EXCEPT ![m] = [w \in Ids |-> -1]] /\ UNCHANGED waiter
    BY <1>2 DEF Disconnect
  <2>2. first' \in [Members -> [Ids -> Int]] /\ \A w \in Ids : first'[m][w] = -1
    BY <2>1 DEF Inv, Typed
  <2>3. Typed'
    BY <1>1, <2>1, <2>2 DEF Inv, Typed
  <2>4. /\ \A n \in Members : MonotonicMs(n)' = MonotonicMs(n) /\ MonotonicMs(n) \in Int
        /\ \A n \in Members \ {m} : CurrentTimerValue(n)' = CurrentTimerValue(n)
        /\ CurrentTimerValue(m)' = MonotonicMs(m)
    BY <1>1, <2>1, TimersAreInts DEF Inv, Typed, MonotonicMs, CurrentTimerValue
  <2>5. ValuesGenuine'
    <3>1. \A v : Genuine(v) <=> Genuine(v)'
      BY <2>4 DEF Genuine
    <3>2. TimersGenuine'
      BY <2>4 DEF Inv, ValuesGenuine, TimersGenuine
    <3> QED BY <1>1, <2>1, <3>1, <3>2 DEF Inv, ValuesGenuine
  <2>6. NothingAccepted' /\ ReplayWindow'
    BY <1>1, <2>1, <2>2 DEF Inv, Typed, NothingAccepted, ReplayWindow
  <2>7. TimerReached'
    <3>1. Wrappers' = Wrappers /\ now' = now
      BY <1>1 DEF Wrappers
    <3>2. \A f \in Wrappers : /\ f.to \in Members /\ f.id \in Ids
                              /\ f.to = m => first'[f.to][f.id] = -1
                              /\ f.to # m => first'[f.to] = first[f.to]
      BY <2>1, <2>2, WrapperTypes DEF Inv, Typed
    <3> QED BY <2>4, <3>1, <3>2 DEF Inv, TimerReached
  <2>8. CancelledKnown' /\ Listening'
    BY <1>1, <2>1 DEF Inv, Typed, CancelledKnown, Listening
  <2> QED BY <2>3, <2>5, <2>6, <2>7, <2>8 DEF Inv
<1>3. CASE phase[m] = "sync"
  <2>1. /\ Quiet /\ UNCHANGED <<phase, interrupted>>
        /\ \/ waiter' = waiter
           \/ waiter' = [waiter EXCEPT ![m] = [st |-> "cancelled", value |-> 0]]
    BY <1>1, <1>3 DEF Disconnect, Quiet
  <2>2. Typed'
    <3>1. waiter' \in [Members -> [st : {"none", "pending", "answered", "timeout", "cancelled"},
                                  value : Int]]
      <4>1. [st |-> "cancelled", value |-> 0] \in
              [st : {"none", "pending", "answered", "timeout", "cancelled"}, value : Int]
        OBVIOUS
      <4>2. waiter \in [Members -> [st : {"none", "pending", "answered", "timeout", "cancelled"},
                                    value : Int]]
        BY DEF Inv, Typed
      <4> QED BY <2>1, <4>1, <4>2
    <3>2. DOMAIN open' = Members /\ DOMAIN notify' = Members
      BY <1>1 DEF Inv, Typed
    <3> QED BY <1>1, <2>1, <3>1, <3>2 DEF Inv, Typed, Quiet
  <2>3. ValuesGenuine' /\ NothingAccepted' /\ TimerReached' /\ ReplayWindow'
    <3>1. \A n \in Members : waiter'[n].st = "answered" => Genuine(waiter'[n].value)
      <4>1. \A n \in Members : waiter'[n].st = "answered" => waiter'[n] = waiter[n]
        BY <2>1 DEF Inv, Typed
      <4> QED BY <4>1 DEF Inv, ValuesGenuine
    <3>2. wrappers <= wrappers' /\ net' = net
      BY <1>1, Numbers DEF Inv
    <3>3. \A f \in net' : Genuine(f.value)
      BY <3>2 DEF Inv, ValuesGenuine
    <3> QED BY <2>1, <2>2, <3>1, <3>2, <3>3, QuietInv
  <2>4. CancelledKnown' /\ Listening'
    BY <1>1, <2>1 DEF Inv, Typed, CancelledKnown, Listening, Quiet
  <2> QED BY <2>2, <2>3, <2>4 DEF Inv
<1> QED BY <1>2, <1>3 DEF Disconnect

(* A new wrapper has a new id, and the value of its sender's timer.        *)
LEMMA SendInv ==
    ASSUME Inv, NEW m \in Members, Send(m)
    PROVE  Inv'
<1> USE SecureGroupAssumption
<1>1. /\ wrappers' = wrappers + 1 /\ wrappers < MaxWrappers
      /\ notify' = notify \/ notify' = [notify EXCEPT ![m] = Periodic]
      /\ UNCHANGED <<now, diff, waiter, phase, open, auth, interrupted, first, spread>>
  BY DEF Send, Reschedule, member
<1>2. \A f \in net' : f \in net \/ (/\ f.kind = "wrapper" /\ f.to \in Members
                                    /\ f.value = CurrentTimerValue(m) /\ f.id = wrappers')
  BY DEF Send, Multicast, Frame
<1>3. /\ CurrentTimerValue(m) \in Int /\ Genuine(CurrentTimerValue(m))
      /\ \A n \in Members : /\ MonotonicMs(n)' = MonotonicMs(n)
                             /\ CurrentTimerValue(n)' = CurrentTimerValue(n)
  BY <1>1, TimersAreInts DEF Inv, ValuesGenuine, TimersGenuine, Genuine, MonotonicMs,
     CurrentTimerValue
<1>4. wrappers \in Nat /\ wrappers' \in 0..MaxWrappers /\ wrappers' \in Ids
  BY <1>1, Numbers DEF Inv, Ids
<1>5. Typed'
  <2>1. \A f \in net' : /\ f.to \in Members /\ f.value \in Int
                        /\ f.kind \in {"notify", "wrapper"}
                        /\ f.kind = "wrapper" => f.id \in 1..wrappers'
    BY <1>1, <1>2, <1>3, <1>4 DEF Inv, Typed
  <2>2. DOMAIN notify' = Members
    BY <1>1 DEF Inv, Typed
  <2> QED BY <1>1, <1>4, <2>1, <2>2 DEF Inv, Typed
<1>6. ValuesGenuine'
  <2>1. \A v : Genuine(v) <=> Genuine(v)'
    BY <1>3 DEF Genuine
  <2>2. TimersGenuine'
    BY <1>3 DEF Inv, ValuesGenuine, TimersGenuine
  <2> QED BY <1>1, <1>2, <1>3, <2>1, <2>2 DEF Inv, ValuesGenuine
<1>7. NothingAccepted' /\ ReplayWindow'
  <2>1. \A w \in Ids : w <= wrappers => w <= wrappers'
    BY <1>1, <1>4, Numbers DEF Inv
  <2> QED BY <1>1, <2>1 DEF Inv, NothingAccepted, ReplayWindow
<1>8. TimerReached'
  <2>1. \A f \in Wrappers' :
          \/ f \in Wrappers /\ f.id # wrappers' /\ f.to \in Members
          \/ /\ f.value = CurrentTimerValue(m) /\ f.id = wrappers' /\ f.to \in Members
             /\ first[f.to][f.id] = -1
    <3>1. \A f \in Wrappers : f.id # wrappers' /\ f.to \in Members
      BY <1>1, <1>4, WrapperTypes, Numbers DEF Inv
    <3>2. \A n \in Members : first[n][wrappers'] = -1
      BY <1>1, <1>4 DEF Inv, NothingAccepted
    <3> QED BY <1>2, <3>1, <3>2 DEF Wrappers
  <2> QED BY <1>1, <1>3, <2>1 DEF Inv, TimerReached
<1>9. CancelledKnown'
  BY <1>1 DEF Inv, CancelledKnown
<1>10. Listening'
  BY <1>1, Handles DEF Inv, Typed, Listening
<1> QED BY <1>5, <1>6, <1>7, <1>8, <1>9, <1>10 DEF Inv

(* What a verified frame does to a member.  The frame is one of the group, *)
(* and may have been accepted before.                                      *)
LEMMA HandleTimerNotifyInv ==
    ASSUME Inv, NEW m \in Members, NEW f \in net, HandleTimerNotify(m, f), net' \subseteq net,
           UNCHANGED <<now, phase, open, interrupted, counters>>
    PROVE  Inv'
<1> USE SecureGroupAssumption
<1>1. /\ f.value \in Int /\ Genuine(f.value)
      /\ UNCHANGED <<auth, first, spread, now, phase, open, interrupted, wrappers>>
  BY DEF HandleTimerNotify, Inv, Typed, ValuesGenuine, counters
<1>2. /\ \/ waiter' = waiter
         \/ waiter' = [waiter EXCEPT ![m] = [st |-> "answered", value |-> f.value]]
      /\ Follow(m, f.value) \/ UNCHANGED diff
      /\ \/ notify' = notify \/ notify' = [notify EXCEPT ![m] = Periodic]
         \/ notify' = [notify EXCEPT ![m] = <<"update", f.tag>>]
  BY DEF HandleTimerNotify, Reschedule, RescheduleUpdate
<1>3. /\ diff' \in [Members -> Int]
      /\ CurrentTimerValue(m)' = CurrentTimerValue(m) \/ CurrentTimerValue(m)' = f.value
      /\ CurrentTimerValue(m)' >= CurrentTimerValue(m)
      /\ \A n \in Members \ {m} : CurrentTimerValue(n)' = CurrentTimerValue(n)
      /\ \A n \in Members : MonotonicMs(n)' = MonotonicMs(n) /\ CurrentTimerValue(n) \in Int
  <2>1. \A n \in Members : MonotonicMs(n)' = MonotonicMs(n) /\ CurrentTimerValue(n) \in Int
    BY <1>1, TimersAreInts DEF Inv, MonotonicMs
  <2>2. CASE Follow(m, f.value)
    BY <1>1, <2>1, <2>2, FollowRaises DEF Inv
  <2>3. CASE UNCHANGED diff
    BY <2>1, <2>3 DEF Inv, Typed, CurrentTimerValue
  <2> QED BY <1>2, <2>2, <2>3
<1>4. Typed'
  <2>1. waiter' \in [Members -> [st : {"none", "pending", "answered", "timeout", "cancelled"},
                                value : Int]]
    <3>1. [st |-> "answered", value |-> f.value] \in
            [st : {"none", "pending", "answered", "timeout", "cancelled"}, value : Int]
      BY <1>1
    <3> QED BY <1>2, <3>1 DEF Inv, Typed
  <2>2. DOMAIN notify' = Members
    BY <1>2 DEF Inv, Typed
  <2> QED BY <1>1, <1>3, <2>1, <2>2 DEF Inv, Typed
<1>5. ValuesGenuine'
  <2>1. \A v : Genuine(v) <=> Genuine(v)'
    BY <1>3 DEF Genuine
  <2>2. TimersGenuine'
    BY <1>1, <1>3 DEF Inv, ValuesGenuine, TimersGenuine, Genuine
  <2>3. \A n \in Members : waiter'[n].st = "answered" => Genuine(waiter'[n].value)
    BY <1>1, <1>2 DEF Inv, Typed, ValuesGenuine
  <2> QED BY <2>1, <2>2, <2>3 DEF Inv, ValuesGenuine
<1>6. NothingAccepted' /\ ReplayWindow'
  BY <1>1 DEF Inv, NothingAccepted, ReplayWindow
<1>7. TimerReached'
  <2>1. Wrappers' \subseteq Wrappers
    BY DEF Wrappers
  <2>2. \A g \in Wrappers : CurrentTimerValue(g.to)' >= CurrentTimerValue(g.to)
    BY <1>3, WrapperTypes DEF Inv
  <2>3. \A g \in Wrappers : /\ CurrentTimerValue(g.to)' \in Int /\ CurrentTimerValue(g.to) \in Int
                            /\ g.value \in Int /\ first[g.to][g.id] \in Int
    BY <1>1, <1>3, WrapperTypes DEF Inv
  <2>4. now \in Nat
    BY DEF Inv, Typed
  <2> QED BY <1>1, <2>1, <2>2, <2>3, <2>4 DEF Inv, TimerReached
<1>8. CancelledKnown'
  <2>1. DOMAIN waiter = Members
    BY DEF Inv, Typed
  <2>2. \A n \in Members : waiter'[n].st = "cancelled" => waiter[n].st = "cancelled"
    BY <1>2, <2>1
  <2> QED BY <1>1, <2>2 DEF Inv, CancelledKnown
<1>9. Listening'
  BY <1>1, <1>2, Handles DEF Inv, Typed, Listening
<1> QED BY <1>4, <1>5, <1>6, <1>7, <1>8, <1>9 DEF Inv

LEMMA HandleSecureWrapperInv ==
    ASSUME Inv, NEW m \in Members, NEW f \in Wrappers, f.to = m,
           HandleSecureWrapper(m, f), net' \subseteq net,
           UNCHANGED <<now, phase, open, interrupted, counters>>
    PROVE  Inv'
<1> USE SecureGroupAssumption
<1> DEFINE T == CurrentTimerValue(m)
           w == f.id
<1>1. /\ f.value \in Int /\ w \in Ids /\ w <= wrappers /\ Genuine(f.value)
      /\ first \in [Members -> [Ids -> Int]] /\ first[m][w] \in Int /\ now \in Nat
      /\ spread \in [Members -> Int]
      /\ auth[m] /\ UNCHANGED <<waiter, auth, now, phase, open, interrupted, wrappers>>
  BY WrapperTypes DEF HandleSecureWrapper, Inv, Typed, ValuesGenuine, Wrappers, counters
<1>2. /\ diff' \in [Members -> Int]
      /\ CurrentTimerValue(m)' = (IF f.value > T THEN f.value ELSE T) /\ T \in Int
      /\ \A n \in Members \ {m} : CurrentTimerValue(n)' = CurrentTimerValue(n)
      /\ \A n \in Members : MonotonicMs(n)' = MonotonicMs(n) /\ CurrentTimerValue(n) \in Int
  <2>1. Follow(m, f.value) /\ \A n \in Members : MonotonicMs(n)' = MonotonicMs(n)
    BY <1>1 DEF HandleSecureWrapper, MonotonicMs
  <2> QED BY <1>1, <2>1, FollowRaises DEF Inv
<1>3. /\ DOMAIN notify' = Members
      /\ \A n \in Members : notify[n] # NoHandle => notify'[n] # NoHandle
  <2>1. \/ notify' = notify \/ notify' = [notify EXCEPT ![m] = Periodic]
        \/ notify' = [notify EXCEPT ![m] = <<"update", f.tag>>]
    BY DEF HandleSecureWrapper
  <2> QED BY <2>1, Handles DEF Inv, Typed
<1>4. /\ first' \in [Members -> [Ids -> Int]] /\ spread' \in [Members -> Int] /\ ReplayWindow'
      /\ \A n \in Members : \A v \in Ids :
            \/ first'[n][v] = first[n][v]
            \/ n = m /\ v = w /\ first'[n][v] = now
  <2>1. CASE ~Valid(m, f.value)
    BY <1>1, <2>1 DEF HandleSecureWrapper, Inv, ReplayWindow
  <2>2. CASE Valid(m, f.value)
    <3> DEFINE t == IF first[m][w] = -1 THEN now ELSE first[m][w]
    <3>1. /\ first' = [first EXCEPT ![m][w] = t]
          /\ spread' = [spread EXCEPT ![m] = Max({spread[m], now - first'[m][w]})]
      BY <2>2 DEF HandleSecureWrapper
    <3>2. t \in Int /\ first' \in [Members -> [Ids -> Int]] /\ first'[m][w] = t
      BY <1>1, <3>1
    <3>3. now - t < Latency
      <4>1. CASE first[m][w] = -1
        BY <1>1, <4>1
      <4>2. CASE first[m][w] # -1
        <5>1. T - f.value >= now - first[m][w]
          BY <1>1, <4>2 DEF Inv, TimerReached
        <5>2. f.value > T - Latency
          BY <2>2 DEF Valid
        <5> QED BY <1>1, <1>2, <4>2, <5>1, <5>2
      <4> QED BY <4>1, <4>2
    <3>4. Max({spread[m], now - t}) \in Int /\ Max({spread[m], now - t}) < Latency
      <4>1. spread[m] \in Int /\ spread[m] < Latency /\ now - t \in Int
        BY <1>1, <3>2 DEF Inv, ReplayWindow
      <4> QED BY <3>3, <4>1, MaxOfTwo
    <3>5. spread' = [spread EXCEPT ![m] = Max({spread[m], now - t})]
      BY <3>1, <3>2
    <3>6. spread' \in [Members -> Int] /\ ReplayWindow'
      BY <1>1, <3>4, <3>5 DEF Inv, ReplayWindow
    <3>7. \A n \in Members : \A v \in Ids :
            first'[n][v] = IF n = m /\ v = w THEN t ELSE first[n][v]
      BY <1>1, <3>1
    <3> QED BY <3>2, <3>6, <3>7
  <2> QED BY <2>1, <2>2
<1>5. Typed'
  BY <1>1, <1>2, <1>3, <1>4 DEF Inv, Typed
<1>6. ValuesGenuine'
  <2>1. \A v : Genuine(v) <=> Genuine(v)'
    BY <1>2 DEF Genuine
  <2>2. TimersGenuine'
    <3>1. \A n \in Members \ {m} : Genuine(CurrentTimerValue(n)')
      BY <1>2 DEF Inv, ValuesGenuine, TimersGenuine, Genuine
    <3>2. Genuine(CurrentTimerValue(m)')
      BY <1>1, <1>2 DEF Inv, ValuesGenuine, TimersGenuine, Genuine
    <3> QED BY <1>2, <3>1, <3>2 DEF TimersGenuine, Genuine
  <2> QED BY <1>1, <2>1, <2>2 DEF Inv, ValuesGenuine
<1>7. NothingAccepted'
  <2>1. auth[m] /\ w <= wrappers /\ w \in Ids
    BY WrapperTypes DEF Inv, HandleSecureWrapper
  <2>2. ASSUME NEW n \in Members
        PROVE  /\ phase'[n] = "sync" => ~auth'[n]
               /\ ~auth'[n] => \A v \in Ids : first'[n][v] = -1
               /\ \A v \in Ids : first'[n][v] # -1 => v <= wrappers'
    <3>1. CASE n = m
      BY <1>1, <1>4, <2>1, <3>1 DEF Inv, NothingAccepted
    <3>2. CASE n # m
      BY <1>1, <1>4, <3>2 DEF Inv, NothingAccepted
    <3> QED BY <3>1, <3>2
  <2> QED BY <2>2 DEF NothingAccepted
<1>8. TimerReached'
  <2>1. Wrappers' \subseteq Wrappers
    BY DEF Wrappers
  <2>2. ASSUME NEW g \in Wrappers, first'[g.to][g.id] # -1
        PROVE  CurrentTimerValue(g.to)' - g.value >= now - first'[g.to][g.id]
    <3>1. /\ g.to \in Members /\ g.id \in Ids /\ g.value \in Int /\ first[g.to][g.id] \in Int
          /\ CurrentTimerValue(g.to)' >= CurrentTimerValue(g.to)
          /\ CurrentTimerValue(g.to)' \in Int /\ CurrentTimerValue(g.to) \in Int
      BY <1>1, <1>2, WrapperTypes DEF Inv
    <3>2. CASE first'[g.to][g.id] = first[g.to][g.id]
      BY <1>1, <2>2, <3>1, <3>2 DEF Inv, TimerReached
    <3>3. CASE g.to = m /\ g.id = w /\ first'[g.to][g.id] = now
      <4>1. g.value = f.value
        BY <3>3 DEF Inv, TimerReached
      <4> QED BY <1>1, <1>2, <3>1, <3>3, <4>1
    <3> QED BY <1>4, <3>1, <3>2, <3>3
  <2> QED BY <1>1, <2>1, <2>2 DEF Inv, TimerReached
<1>9. CancelledKnown' /\ Listening'
  BY <1>1, <1>3 DEF Inv, CancelledKnown, Listening
<1> QED BY <1>4, <1>5, <1>6, <1>7, <1>8, <1>9 DEF Inv

(* A frame that is not taken changes nothing but the network.              *)
LEMMA DiscardInv ==
    ASSUME Inv, Discard, net' \subseteq net,
           UNCHANGED <<now, phase, open, interrupted, counters>>
    PROVE  Inv'
<1>1. Typed' /\ Quiet /\ UNCHANGED <<phase, waiter, wrappers, open, interrupted, notify>>
  BY DEF Inv, Typed, Discard, Quiet, counters
<1>2. ValuesGenuine' /\ NothingAccepted' /\ TimerReached' /\ ReplayWindow'
  BY <1>1, QuietInv, Numbers DEF Inv, ValuesGenuine
<1>3. CancelledKnown' /\ Listening'
  BY <1>1 DEF Inv, CancelledKnown, Listening, Quiet
<1> QED BY <1>1, <1>2, <1>3 DEF Inv

LEMMA ReceiveInv ==
    ASSUME Inv, NEW m \in Members,
           \/ Receive(m) \/ ReceiveDuplicate(m)
           \/ ReceiveForeign(m, "notify") \/ ReceiveForeign(m, "wrapper")
    PROVE  Inv'
<1>1. ASSUME NEW f \in net, f.to = m, Handle(m, f), net' \subseteq net,
             UNCHANGED <<now, phase, open, interrupted, counters>>
      PROVE  Inv'
  <2>1. CASE f.kind = "notify" /\ HandleTimerNotify(m, f)
    BY <1>1, <2>1, HandleTimerNotifyInv
  <2>2. CASE f.kind = "wrapper" /\ HandleSecureWrapper(m, f)
    BY <1>1, <2>2, HandleSecureWrapperInv DEF Wrappers
  <2>3. CASE Discard
    BY <1>1, <2>3, DiscardInv
  <2>4. f.kind \in {"notify", "wrapper"}
    BY DEF Inv, Typed
  <2> QED BY <1>1, <2>1, <2>2, <2>3, <2>4 DEF Handle
<1>2. CASE Receive(m) \/ ReceiveDuplicate(m)
  BY <1>1, <1>2 DEF Receive, ReceiveDuplicate
<1>3. ASSUME NEW kind, ReceiveForeign(m, kind)
      PROVE  Inv'
  BY <1>3, DiscardInv DEF ReceiveForeign, Handle, Verified, Frame
<1> QED BY <1>2, <1>3

LEMMA UnchangedInv ==
    ASSUME Inv, UNCHANGED vars
    PROVE  Inv'
BY DiscardInv DEF vars, member, Discard

LEMMA NextInv == Inv /\ [Next]_vars => Inv'
BY TickInv, LoseInv, ConnectInv, WaiterInv, SynchronizedInv, DisconnectInv,
   NotifyTimerExpiredInv, SendInv, ReceiveInv, UnchangedInv DEF Next

LEMMA Invariance == Spec => []Inv
BY InitInv, NextInv, PTL DEF Spec

(* validate_secure_wrapper: a wrapper that was accepted is accepted again  *)
(* at most for the latency tolerance.                                      *)
THEOREM ReplayBounded == Spec => []ReplayWindow
<1>1. Inv => ReplayWindow
  BY DEF Inv
<1> QED BY <1>1, Invariance, PTL

(* No timer of the group runs ahead of its fastest clock.                  *)
THEOREM TimersAreGenuine == Spec => []TimersGenuine
<1>1. Inv => TimersGenuine
  BY DEF Inv, ValuesGenuine
<1> QED BY <1>1, Invariance, PTL

(* A member whose connect() has returned accepts wrappers and keeps its    *)
(* notify timer running, unless its caller had cancelled it.               *)
THEOREM ConnectedListens == Spec => []Listening
<1>1. Inv => Listening
  BY DEF Inv
<1> QED BY <1>1, Invariance, PTL

-----------------------------------------------------------------------------
(* The flow control.                                                        *)


W == ROUTING_INDICATION_WAIT_TIME

FlowTyped ==
    /\ pc \in [Senders -> {"idle", "sleep", "wait", "woken"}]
    /\ left \in [Senders -> Nat] /\ own \in [Senders -> 0..W]
    /\ sends \in [Senders -> Nat]
    /\ sinceSent \in 0..W
    /\ remaining \in Int /\ remaining >= -1
    /\ received \in Nat /\ owed \in Nat
    /\ timer \in [phase : {"none", "pause", "slow", "count"}, left : Nat, slow : Nat]
    /\ timer.phase = "count" => received > 0

(* The pause that is running covers all wait times that were asked for,    *)
(* and its timer does not end before it.                                   *)
PauseCovers ==
    /\ ready <=> ~pausing
    /\ ~pausing => owed = 0
    /\ pausing => owed = 0 \/ owed <= remaining
    /\ timer.phase = "pause" => pausing /\ timer.left >= remaining

(* Waiters were let go when nothing was owed.                              *)
WokenInTime == \A s \in Senders : pc[s] = "woken" /\ s \notin overtaken => owed = 0

BusyInv == FlowTyped /\ PauseCovers /\ WokenInTime

(* A sender sleeps for what its own distance still lacks; the frames of    *)
(* the others make it longer only.                                         *)
Distance ==
    \A s \in Senders :
        /\ own[s] >= sinceSent
        /\ pc[s] = "sleep" => own[s] + left[s] >= W
        /\ pc[s] \in {"wait", "woken"} => own[s] = W

LEMMA ProductIsNat == \A a, b \in Nat : a * b \in Nat
OBVIOUS

LEMMA FlowTypedStep ==
    FlowTyped /\ [FlowNext]_flowVars => FlowTyped'
<1> SUFFICES ASSUME FlowTyped, [FlowNext]_flowVars
             PROVE  FlowTyped'
  OBVIOUS
<1> USE RoutingAssumption DEF W
<1>1. CASE FlowTick
  BY <1>1 DEF FlowTick, FlowTyped, Less, Older
<1>2. CASE RoutingConnect \/ Connected \/ ConnectFails \/ RoutingDisconnect
  BY <1>2 DEF RoutingConnect, Connected, ConnectFails, RoutingDisconnect, FlowTyped,
     unsent, flow, observed, NoTimer
<1>3. ASSUME NEW s \in Senders, SendCemi(s) \/ Slept(s) \/ Woken(s)
      PROVE  FlowTyped'
  BY <1>3 DEF SendCemi, Slept, Woken, Throttle, AwaitReady,
     Transmit, FlowTyped, flow
<1>4. ASSUME NEW w \in WaitTimes, HandleRoutingBusy(w)
      PROVE  FlowTyped'
  <2>1. w \in Nat /\ owed' \in Nat
    BY <1>4, MaxOfTwo DEF HandleRoutingBusy, CountBusyFrame, FlowTyped
  <2>2. received' \in Nat /\ received' >= received
    BY <1>4 DEF HandleRoutingBusy, CountBusyFrame, FlowTyped
  <2>3. UNCHANGED <<pc, left, sends, sinceSent, own>>
    BY <1>4 DEF HandleRoutingBusy, CountBusyFrame
  <2>4. CASE KeepPause
    BY <2>1, <2>2, <2>3, <2>4 DEF KeepPause, FlowTyped
  <2>5. CASE NewPause(w)
    <3>1. PICK e \in 0..(received' * BUSY_RANDOM_TIME_FACTOR) :
            timer' = [phase |-> "pause", left |-> w + e,
                      slow |-> received' * BUSY_SLOWDURATION_TIME_FACTOR]
      BY <2>5 DEF NewPause, StartTimer
    <3>2. received' * BUSY_SLOWDURATION_TIME_FACTOR \in Nat
      BY <2>2, ProductIsNat
    <3>3. timer' \in [phase : {"none", "pause", "slow", "count"}, left : Nat, slow : Nat]
      BY <2>1, <3>1, <3>2
    <3>4. timer'.phase # "count"
      BY <3>1
    <3> QED BY <2>1, <2>2, <2>3, <2>5, <3>3, <3>4 DEF NewPause, FlowTyped
  <2> QED BY <1>4, <2>4, <2>5 DEF HandleRoutingBusy
<1>5. CASE ResumeSending
  BY <1>5 DEF ResumeSending, FlowTyped, observed
<1>6. CASE SlowdurationOver \/ Decrement
  BY <1>6 DEF SlowdurationOver, Decrement, NextDecrement, NoTimer,
     FlowTyped, unsent, observed
<1>7. CASE UNCHANGED flowVars
  BY <1>7 DEF flowVars, flow, observed, FlowTyped
<1> QED BY <1>1, <1>2, <1>3, <1>4, <1>5, <1>6, <1>7 DEF FlowNext

LEMMA BusyStep ==
    BusyInv /\ [FlowNext]_flowVars => BusyInv'
<1> SUFFICES ASSUME BusyInv, [FlowNext]_flowVars
             PROVE  BusyInv'
  OBVIOUS
<1> USE RoutingAssumption DEF W
<1>0. FlowTyped /\ FlowTyped' /\ PauseCovers /\ WokenInTime
  BY FlowTypedStep DEF BusyInv
<1>1. CASE FlowTick
  BY <1>0, <1>1 DEF FlowTick, FlowTyped, Less, BusyInv, PauseCovers, WokenInTime
<1>2. CASE RoutingConnect \/ Connected \/ ConnectFails \/ RoutingDisconnect
  BY <1>0, <1>2 DEF RoutingConnect, Connected, ConnectFails, RoutingDisconnect, BusyInv,
     PauseCovers,
     WokenInTime, unsent, flow, observed, NoTimer
<1>3. ASSUME NEW s \in Senders, SendCemi(s) \/ Slept(s) \/ Woken(s)
      PROVE  BusyInv'
  <2>1. UNCHANGED <<ready, pausing, owed, remaining, timer>>
    BY <1>3 DEF SendCemi, Slept, Woken, flow
  <2>2. \A r \in Senders : /\ pc'[r] = "woken" => pc[r] = "woken"
                           /\ r \notin overtaken' => r \notin overtaken \/ pc'[r] # "woken"
    BY <1>0, <1>3 DEF SendCemi, Slept, Woken, Throttle, AwaitReady,
       Transmit, FlowTyped
  <2> QED BY <1>0, <2>1, <2>2 DEF BusyInv, PauseCovers, WokenInTime
<1>4. ASSUME NEW w \in WaitTimes, HandleRoutingBusy(w)
      PROVE  BusyInv'
  <2>1. w \in Nat /\ owed' = (IF owed > w THEN owed ELSE w) /\ ready' = FALSE
    BY <1>0, <1>4, MaxOfTwo DEF HandleRoutingBusy, CountBusyFrame, FlowTyped
  <2>2. WokenInTime'
    BY <1>4 DEF HandleRoutingBusy, CountBusyFrame, WokenInTime
  <2>3. CASE pausing /\ remaining >= w /\ KeepPause
    BY <1>0, <2>1, <2>2, <2>3 DEF KeepPause, BusyInv, PauseCovers, FlowTyped
  <2>4. CASE ~(pausing /\ remaining >= w) /\ NewPause(w)
    <3>1. PICK e \in 0..(received' * BUSY_RANDOM_TIME_FACTOR) :
            timer' = [phase |-> "pause", left |-> w + e,
                      slow |-> received' * BUSY_SLOWDURATION_TIME_FACTOR]
      BY <2>4 DEF NewPause, StartTimer
    <3>2. owed' = w
      BY <1>0, <2>1, <2>4 DEF PauseCovers, FlowTyped
    <3>3. timer'.phase = "pause" /\ timer'.left >= w
      BY <2>1, <3>1, <1>0 DEF FlowTyped
    <3> QED BY <1>0, <2>1, <2>2, <2>4, <3>2, <3>3 DEF NewPause, BusyInv, PauseCovers
  <2> QED BY <1>4, <2>3, <2>4 DEF HandleRoutingBusy
<1>5. CASE ResumeSending
  <2>1. owed = 0
    BY <1>0, <1>5 DEF ResumeSending, PauseCovers, FlowTyped
  <2> QED BY <1>0, <1>5, <2>1 DEF ResumeSending, BusyInv, PauseCovers, WokenInTime,
     FlowTyped, observed
<1>6. CASE SlowdurationOver \/ Decrement
  BY <1>0, <1>6 DEF SlowdurationOver, Decrement, NextDecrement, NoTimer,
     BusyInv, PauseCovers,
     WokenInTime, unsent, observed
<1>7. CASE UNCHANGED flowVars
  BY <1>0, <1>7 DEF flowVars, flow, observed, BusyInv, PauseCovers, WokenInTime
<1> QED BY <1>1, <1>2, <1>3, <1>4, <1>5, <1>6, <1>7 DEF FlowNext

LEMMA FlowStarts ==
    FlowInit => BusyInv /\ Distance
BY RoutingAssumption DEF FlowInit, BusyInv, FlowTyped, PauseCovers, WokenInTime,
   Distance, NoTimer, W

LEMMA BusyInvariance ==
    FlowSpec => []BusyInv
BY FlowStarts, BusyStep, PTL DEF FlowSpec

(* No sender is let through before the wait time of every ROUTING_BUSY     *)
(* frame is over, unless it had been woken before the last one arrived.    *)
THEOREM BusyIsRespected ==
    FlowSpec => []BusyRespected
<1>1. BusyInv => BusyRespected
  BY DEF BusyInv, PauseCovers, WokenInTime, BusyRespected
<1> QED BY <1>1, BusyInvariance, PTL

(* Only Transmit moves a sender's counter, at its full distance.           *)
LEMMA DistanceStep ==
    FlowTyped /\ Distance /\ [FlowNext]_flowVars =>
               /\ Distance'
               /\ \A s \in Senders : sends'[s] > sends[s] => own[s] = W
<1> SUFFICES ASSUME FlowTyped, Distance, [FlowNext]_flowVars
             PROVE  /\ Distance'
                    /\ \A s \in Senders : sends'[s] > sends[s] => own[s] = W
  OBVIOUS
<1> USE RoutingAssumption DEF W
<1>0. FlowTyped'
  BY FlowTypedStep
<1>1. CASE FlowTick
  BY <1>0, <1>1 DEF FlowTick, FlowTyped, Less, Older, Distance
<1>2. CASE RoutingConnect \/ Connected \/ ConnectFails \/ RoutingDisconnect
  BY <1>2 DEF RoutingConnect, Connected, ConnectFails, RoutingDisconnect, Distance,
     FlowTyped, unsent, observed
<1>3. ASSUME NEW s \in Senders, SendCemi(s) \/ Slept(s) \/ Woken(s)
      PROVE  Distance' /\ \A r \in Senders : sends'[r] > sends[r] => own[r] = W
  <2>1. CASE Transmit(s) /\ own[s] = W
    BY <1>0, <2>1 DEF Transmit, FlowTyped, Distance
  <2>2. CASE /\ pc' = [pc EXCEPT ![s] = "wait"] /\ own[s] = W
             /\ UNCHANGED <<left, sends, sinceSent, own>>
    BY <1>0, <2>2 DEF FlowTyped, Distance
  <2>3. CASE /\ pc' = [pc EXCEPT ![s] = "sleep"]
             /\ left' = [left EXCEPT ![s] = W - sinceSent]
             /\ UNCHANGED <<sends, sinceSent, own>>
    BY <1>0, <2>3 DEF FlowTyped, Distance
  <2> QED BY <1>3, <2>1, <2>2, <2>3 DEF SendCemi, Slept, Woken, Throttle,
     AwaitReady, FlowTyped, Distance
<1>4. ASSUME NEW w \in WaitTimes, HandleRoutingBusy(w)
      PROVE  Distance' /\ \A r \in Senders : sends'[r] > sends[r] => own[r] = W
  BY <1>4 DEF HandleRoutingBusy, CountBusyFrame, Distance, FlowTyped
<1>5. CASE ResumeSending
  BY <1>5 DEF ResumeSending, Distance, FlowTyped, observed
<1>6. CASE SlowdurationOver \/ Decrement
  BY <1>6 DEF SlowdurationOver, Decrement, Distance, FlowTyped, unsent,
     observed
<1>7. CASE UNCHANGED flowVars
  BY <1>7 DEF flowVars, observed, Distance, FlowTyped
<1> QED BY <1>1, <1>2, <1>3, <1>4, <1>5, <1>6, <1>7 DEF FlowNext

(* The frames of one sender keep their distance.                           *)
THEOREM OwnRateKept ==
    FlowSpec => OwnRate
<1>1. BusyInv => FlowTyped
  BY DEF BusyInv
<1>2. FlowTyped /\ Distance /\ [FlowNext]_flowVars =>
        [\A s \in Senders :
            sends'[s] > sends[s] => own[s] = ROUTING_INDICATION_WAIT_TIME]_flowVars
  BY DistanceStep DEF W
<1>3. FlowTyped /\ Distance /\ [FlowNext]_flowVars => Distance'
  BY DistanceStep
<1> QED BY <1>1, <1>2, <1>3, FlowStarts, BusyInvariance, PTL DEF FlowSpec, OwnRate

---------------------------------------------------------------------------
(* The types.                                                               *)

(* What FlowTyped leaves out.  A sender that is suspended has a frame left  *)
(* to send, and no more frames are counted than were received.              *)
FlowBounds ==
    /\ conn \in {"new", "connecting", "connected", "failed", "stopped"}
    /\ transport \in BOOLEAN /\ ready \in BOOLEAN /\ pausing \in BOOLEAN
    /\ left \in [Senders -> 0..W]
    /\ sends \in [Senders -> 0..MaxSend]
    /\ \A s \in Senders : pc[s] # "idle" => sends[s] < MaxSend
    /\ sinceBusy \in 0..(BUSY_INCREMENT_COOLDOWN + 1)
    /\ overtaken \subseteq Senders
    /\ busy \in 0..MaxBusy /\ received <= busy

LEMMA FlowBoundsStep ==
    FlowTyped /\ FlowBounds /\ [FlowNext]_flowVars => FlowBounds'
<1> SUFFICES ASSUME FlowTyped, FlowBounds, [FlowNext]_flowVars
             PROVE  FlowBounds'
  OBVIOUS
<1> USE RoutingAssumption DEF W
<1>1. CASE FlowTick
  <2>1. sinceBusy' \in 0..(BUSY_INCREMENT_COOLDOWN + 1)
    BY <1>1 DEF FlowTick, FlowBounds, Older
  <2>2. left' \in [Senders -> 0..W]
    BY <1>1 DEF FlowTick, FlowBounds, Less
  <2> QED BY <1>1, <2>1, <2>2 DEF FlowTick, FlowBounds
<1>2. CASE RoutingConnect \/ Connected \/ ConnectFails \/ RoutingDisconnect
  BY <1>2 DEF RoutingConnect, Connected, ConnectFails, RoutingDisconnect, FlowBounds,
     unsent, flow, observed
<1>3. ASSUME NEW s \in Senders, SendCemi(s) \/ Slept(s) \/ Woken(s)
      PROVE  FlowBounds'
  <2>1. sends[s] < MaxSend
    BY <1>3 DEF SendCemi, Slept, Woken, FlowBounds
  <2>2. Transmit(s) \/ Throttle(s) \/ AwaitReady(s)
    BY <1>3 DEF SendCemi, Slept, Woken
  <2>3. UNCHANGED <<conn, transport, busy, flow, owed>>
    BY <1>3 DEF SendCemi, Slept, Woken
  <2>4. CASE Transmit(s)
    BY <2>1, <2>3, <2>4 DEF Transmit, FlowTyped, FlowBounds, flow
  <2>5. CASE /\ pc' = [pc EXCEPT ![s] = "wait"]
             /\ UNCHANGED <<left, sends, sinceSent, own, overtaken>>
    BY <2>1, <2>3, <2>5 DEF FlowTyped, FlowBounds, flow
  <2>6. CASE /\ sinceSent < W
             /\ pc' = [pc EXCEPT ![s] = "sleep"]
             /\ left' = [left EXCEPT ![s] = W - sinceSent]
             /\ UNCHANGED <<sends, sinceSent, own, overtaken>>
    <3>1. W - sinceSent \in 0..W
      BY DEF FlowTyped
    <3> QED BY <2>1, <2>3, <2>6, <3>1 DEF FlowTyped, FlowBounds, flow
  <2> QED BY <2>2, <2>4, <2>5, <2>6 DEF Throttle, AwaitReady
<1>4. ASSUME NEW w \in WaitTimes, HandleRoutingBusy(w)
      PROVE  FlowBounds'
  <2>1. CountBusyFrame(w) /\ (KeepPause \/ NewPause(w))
    BY <1>4 DEF HandleRoutingBusy
  <2>2. received' \in {received, received + 1} /\ busy' = busy + 1 /\ busy < MaxBusy
    BY <2>1 DEF CountBusyFrame
  <2>3. busy' \in 0..MaxBusy /\ received' <= busy'
    BY <2>2 DEF FlowTyped, FlowBounds
  <2>4. pausing' \in BOOLEAN
    BY <2>1 DEF KeepPause, NewPause, FlowBounds
  <2>5. 0 \in 0..(BUSY_INCREMENT_COOLDOWN + 1)
    OBVIOUS
  <2>6. /\ ready' = FALSE /\ sinceBusy' = 0 /\ overtaken' \subseteq Senders
        /\ UNCHANGED <<conn, transport, pc, left, sends>>
    BY <2>1 DEF CountBusyFrame
  <2> QED BY <2>3, <2>4, <2>5, <2>6 DEF FlowBounds
<1>5. CASE ResumeSending
  BY <1>5 DEF ResumeSending, FlowTyped, FlowBounds, observed
<1>6. CASE SlowdurationOver \/ Decrement
  <2>1. received' <= busy
    BY <1>6 DEF SlowdurationOver, Decrement, FlowTyped, FlowBounds
  <2> QED BY <1>6, <2>1 DEF SlowdurationOver, Decrement, FlowBounds, unsent, observed
<1>7. CASE UNCHANGED flowVars
  BY <1>7 DEF flowVars, flow, observed, FlowBounds
<1> QED BY <1>1, <1>2, <1>3, <1>4, <1>5, <1>6, <1>7 DEF FlowNext

(* Every variable keeps its type; in particular the counter of busy frames  *)
(* never falls below zero or exceeds the frames that were received.         *)
THEOREM FlowTypeCorrect == FlowSpec => []TypeOK
<1>1. FlowInit => FlowBounds
  <2>1. BUSY_INCREMENT_COOLDOWN + 1 \in 0..(BUSY_INCREMENT_COOLDOWN + 1)
    BY RoutingAssumption
  <2>2. 0 \in 0..W /\ 0 \in 0..MaxSend /\ 0 \in 0..MaxBusy
    BY RoutingAssumption DEF W
  <2>3. FlowInit => left \in [Senders -> 0..W] /\ sends \in [Senders -> 0..MaxSend]
    BY <2>2 DEF FlowInit
  <2>4. FlowInit => /\ sinceBusy \in 0..(BUSY_INCREMENT_COOLDOWN + 1)
                    /\ busy \in 0..MaxBusy /\ received <= busy
    BY <2>1, <2>2 DEF FlowInit
  <2>5. FlowInit => \A s \in Senders : pc[s] = "idle"
    BY DEF FlowInit
  <2> QED BY <2>3, <2>4, <2>5 DEF FlowInit, FlowBounds
<1>2. FlowTyped /\ FlowBounds => TypeOK
  BY DEF FlowTyped, FlowBounds, TypeOK, W
<1>3. BusyInv => FlowTyped
  BY DEF BusyInv
<1> QED BY <1>1, <1>2, <1>3, FlowBoundsStep, BusyInvariance, PTL DEF FlowSpec

=============================================================================
