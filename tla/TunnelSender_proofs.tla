------------------------ MODULE TunnelSender_proofs -------------------------
(***************************************************************************)
(* Proofs about TunnelSender for any number of frames, channels and        *)
(* faults, and any sequence counters modulo SeqMod >= 4.                   *)
(*                                                                         *)
(* The counters wrap around, so they tell about the frames only modulo     *)
(* SeqMod.  The argument follows the frame numbers instead: on the channel *)
(* of the gateway all counters are off by one and the same constant, and   *)
(* the gateway's counter stands for the last frame that it has accepted.   *)
(***************************************************************************)
EXTENDS TunnelSender, Integers, SequenceTheorems, TLAPS

(* The number of the frame that seq is the counter of.                     *)
Index == IF pc = "idle" THEN current + 1 ELSE current

Multiple(x) == \E k \in Int : x = k * SeqMod

Typed ==
    /\ pc \in {"idle", "ready", "first", "second", "lost", "third"}
    /\ current \in Nat /\ (pc # "idle" => current > 0)
    /\ seq \in 0..(SeqMod - 1)
    /\ opened \in Nat /\ opened > 0 /\ channel \in {0, opened}
    /\ gateway \in [channel : Nat, expected : 0..(SeqMod - 1)]
    /\ bus \in Seq([channel : Nat, cemi : Nat])
    /\ result \in Seq({"ok", "failed", "dropped"})

Datagrams ==
    /\ IsABag(acks) /\ IsABag(requests)
    /\ \A r \in BagToSet(requests) :
        r.channel \in Nat /\ r.channel > 0 /\ r.seq \in 0..(SeqMod - 1) /\ r.cemi \in Nat
    /\ \A k \in BagToSet(acks) : k.seq \in 0..(SeqMod - 1) /\ k.cemi \in Nat

Channels ==
    /\ gateway.channel # 0 => gateway.channel = channel
    /\ reconnect = "opening" => gateway.channel = 0 /\ acks = EmptyBag
    /\ user = "up" => reconnect # "cancelled"

(* A request under way is not from the time before the counter wrapped, it *)
(* belongs to the frames sent so far, and its counter to its frame.        *)
RequestsKnown ==
    \A r \in BagToSet(requests) :
        /\ r.channel <= opened /\ r.cemi <= current /\ current - r.cemi <= SeqMod - 4
        /\ r.channel = gateway.channel => Multiple((r.seq - r.cemi) - (seq - Index))
        /\ \A i \in 1..Len(bus) : bus[i].channel < r.channel => bus[i].cemi <= r.cemi

(* So is an ACK under way, and the frame that it confirms is on the bus.   *)
AcksKnown ==
    \A k \in BagToSet(acks) :
        /\ k.cemi <= current /\ current - k.cemi <= SeqMod - 4
        /\ Multiple((k.seq - k.cemi) - (seq - Index))
        /\ OnBus(k.cemi)

BusKnown == \A i \in 1..Len(bus) : bus[i].cemi <= current /\ bus[i].channel <= opened

(* How far failed frames can put the sender ahead of the gateway: a failed *)
(* third try and a cancelled reconnect leave a gap of one each, and the    *)
(* next frame that nothing confirms ends the channel.                      *)
Gap ==
    IF pc = "third" \/ (pc = "lost" /\ reconnect = "None") THEN 1
    ELSE IF user # "up" /\ reconnect # "cancelled" THEN 3 ELSE 2

(* ACKs of other requests can put it further ahead, but none of them is    *)
(* for a frame that the gateway has not accepted, or too old.  So the      *)
(* gateway is always less than a cycle of the counter behind.              *)
Ahead(a) == Index - a <= (SeqMod - 4) + Gap

AcksUpTo(a) == \A k \in BagToSet(acks) : k.cemi <= a

(* a is the last frame that the gateway has accepted on its channel, or    *)
(* the frame before the first one.                                         *)
LastAccepted(a) ==
    /\ \A i \in 1..Len(bus) : bus[i].channel = gateway.channel => bus[i].cemi <= a
    /\ \/ OnBus(a)
       \/ /\ a < Index
          /\ \A r \in BagToSet(requests) : r.channel = gateway.channel => r.cemi > a
    /\ Multiple((gateway.expected - (a + 1)) - (seq - Index))
    /\ Ahead(a) /\ AcksUpTo(a)

GatewayKnown ==
    gateway.channel # 0 => \E a \in Nat : a <= current /\ LastAccepted(a)

Results == Len(result) = Index - 1

Inv ==
    /\ Typed /\ Datagrams /\ Channels /\ RequestsKnown /\ AcksKnown /\ BusKnown
    /\ GatewayKnown /\ Results /\ ConfirmedOnBus /\ BusInOrder

-----------------------------------------------------------------------------
(* Counters modulo SeqMod.                                                 *)

LEMMA MultipleSum ==
    ASSUME NEW x \in Int, NEW y \in Int, Multiple(x), Multiple(y)
    PROVE  Multiple(x + y) /\ Multiple(x - y)
<1>1. SeqMod \in Int
  BY ConstantsAssumption
<1>2. PICK k \in Int : x = k * SeqMod
  BY DEF Multiple
<1>3. PICK l \in Int : y = l * SeqMod
  BY DEF Multiple
<1>4. x + y = (k + l) * SeqMod /\ x - y = (k - l) * SeqMod
  BY <1>1, <1>2, <1>3
<1>5. k + l \in Int /\ k - l \in Int
  OBVIOUS
<1> QED BY <1>4, <1>5 DEF Multiple

LEMMA MultipleZero == Multiple(0)
<1>1. 0 = 0 * SeqMod /\ 0 \in Int
  BY ConstantsAssumption
<1> QED BY <1>1 DEF Multiple

LEMMA MultipleSmall ==
    ASSUME NEW x \in Int, Multiple(x), -SeqMod < x, x < SeqMod
    PROVE  x = 0
<1>1. SeqMod \in Int /\ SeqMod > 0
  BY ConstantsAssumption
<1>2. PICK k \in Int : x = k * SeqMod
  BY DEF Multiple
<1>3. CASE k >= 1
  <2>1. k * SeqMod >= SeqMod
    BY <1>1, <1>3
  <2> QED BY <1>1, <1>2, <2>1
<1>4. CASE k <= -1
  <2>1. k * SeqMod <= -SeqMod
    BY <1>1, <1>4
  <2> QED BY <1>1, <1>2, <2>1
<1>5. CASE k = 0
  BY <1>1, <1>2, <1>5
<1> QED BY <1>3, <1>4, <1>5

LEMMA MultipleShift ==
    ASSUME NEW x \in Int, NEW y \in Int, NEW z \in Int, Multiple(x - y), Multiple(z - y)
    PROVE  Multiple(x - z)
<1>1. x - z = (x - y) - (z - y) /\ x - y \in Int /\ z - y \in Int
  OBVIOUS
<1> QED BY <1>1, MultipleSum

LEMMA MultipleSelf ==
    ASSUME NEW x \in Int
    PROVE  Multiple(x - x)
<1>1. x - x = 0
  OBVIOUS
<1> QED BY <1>1, MultipleZero

LEMMA MultipleNext ==
    ASSUME NEW e \in Int, NEW q \in Int, NEW c \in Int, NEW d \in Int,
           Multiple(e - (q + 1)), Multiple((q - c) - d)
    PROVE  Multiple((e - (c + 1)) - d)
<1>1. /\ (e - (c + 1)) - d = (e - (q + 1)) + ((q - c) - d)
      /\ e - (q + 1) \in Int /\ (q - c) - d \in Int
  OBVIOUS
<1> QED BY <1>1, MultipleSum

LEMMA Difference == ASSUME NEW x \in Int, NEW y \in Int PROVE x - y \in Int
OBVIOUS

LEMMA Below ==
    ASSUME NEW x \in Int, NEW y \in Int, NEW z \in Int, x <= y, y <= z
    PROVE  x <= z
OBVIOUS

LEMMA NoDistance == ASSUME NEW n \in Nat PROVE n <= n /\ n - n <= SeqMod - 4
BY ConstantsAssumption

LEMMA NextNumber == ASSUME NEW n \in Nat PROVE n + 1 \in Nat /\ n \in Int
OBVIOUS

LEMMA Successor ==
    ASSUME NEW s \in 0..(SeqMod - 1)
    PROVE  /\ (s + 1) % SeqMod \in 0..(SeqMod - 1)
           /\ Multiple(((s + 1) % SeqMod) - (s + 1))
<1>1. SeqMod \in Nat /\ SeqMod >= 4
  BY ConstantsAssumption
<1>2. CASE s = SeqMod - 1
  <2>1. (s + 1) % SeqMod = 0
    BY <1>1, <1>2
  <2>2. 0 - (s + 1) = (-1) * SeqMod
    BY <1>1, <1>2
  <2> QED BY <1>1, <2>1, <2>2 DEF Multiple
<1>3. CASE s # SeqMod - 1
  <2>1. s + 1 \in 0..(SeqMod - 1)
    BY <1>1, <1>3
  <2>2. (s + 1) % SeqMod = s + 1
    BY <1>1, <2>1
  <2>3. ((s + 1) % SeqMod) - (s + 1) = 0
    BY <2>1, <2>2
  <2> QED BY <2>1, <2>2, <2>3, MultipleZero
<1> QED BY <1>2, <1>3

-----------------------------------------------------------------------------
(* Bags of datagrams.                                                      *)

LEMMA BagAdd ==
    ASSUME NEW B, IsABag(B), NEW x
    PROVE  LET C == B (+) SetToBag({x})
           IN  /\ IsABag(C) /\ BagToSet(C) = BagToSet(B) \cup {x}
               /\ C # EmptyBag
               /\ \A y \in BagToSet(B) : y # x => C[y] = B[y]
               /\ x \notin BagToSet(B) => C[x] = 1
<1> DEFINE C == B (+) SetToBag({x})
<1>1. DOMAIN C = DOMAIN B \cup {x}
  BY DEF (+), SetToBag
<1>2. \A y \in DOMAIN B : y # x => C[y] = B[y]
  BY DEF (+), SetToBag, IsABag
<1>3. x \notin DOMAIN B => C[x] = 1
  BY DEF (+), SetToBag
<1>4. x \in DOMAIN B => C[x] = B[x] + 1
  BY DEF (+), SetToBag
<1>5. C = [y \in DOMAIN C |-> C[y]]
  BY DEF (+), SetToBag
<1>6. \A y \in DOMAIN C : C[y] \in Nat /\ C[y] > 0
  <2>1. \A y \in DOMAIN B : B[y] \in Nat /\ B[y] > 0
    BY DEF IsABag
  <2> HIDE DEF C
  <2> QED BY <1>1, <1>2, <1>3, <1>4, <2>1
<1>7. IsABag(C)
  BY <1>5, <1>6 DEF IsABag
<1>8. C # EmptyBag
  BY <1>1 DEF EmptyBag, SetToBag
<1> QED BY <1>1, <1>2, <1>3, <1>7, <1>8 DEF BagToSet

LEMMA BagRemove ==
    ASSUME NEW B, IsABag(B), NEW x \in BagToSet(B)
    PROVE  LET C == B (-) SetToBag({x})
           IN  /\ IsABag(C) /\ BagToSet(C) \subseteq BagToSet(B)
               /\ \A y \in BagToSet(C) : y # x => C[y] = B[y]
               /\ B[x] = 1 => x \notin BagToSet(C)
<1> DEFINE C == B (-) SetToBag({x})
           D == [e \in DOMAIN B |-> IF e \in DOMAIN SetToBag({x})
                                    THEN B[e] - SetToBag({x})[e] ELSE B[e]]
<1>1. C = [e \in {d \in DOMAIN D : D[d] > 0} |-> D[e]]
  BY DEF (-)
<1>2. /\ DOMAIN D = DOMAIN B /\ D[x] = B[x] - 1
      /\ \A y \in DOMAIN B : B[y] \in Nat /\ (y # x => D[y] = B[y])
  BY DEF SetToBag, BagToSet, IsABag
<1>3. \A y \in DOMAIN B : D[y] \in Int
  BY <1>2 DEF BagToSet
<1> HIDE DEF D
<1>4. /\ DOMAIN C \subseteq DOMAIN B
      /\ \A y \in DOMAIN C : C[y] = D[y] /\ D[y] > 0
  BY <1>1, <1>2
<1>5. IsABag(C)
  <2>1. \A y \in DOMAIN C : C[y] \in Nat /\ C[y] > 0
    BY <1>3, <1>4
  <2>2. C = [y \in DOMAIN C |-> C[y]]
    BY <1>1
  <2> QED BY <2>1, <2>2 DEF IsABag
<1>6. B[x] = 1 => x \notin DOMAIN C
  BY <1>2, <1>4
<1> QED BY <1>2, <1>4, <1>5, <1>6 DEF BagToSet

LEMMA BagEmpty == IsABag(EmptyBag) /\ BagToSet(EmptyBag) = {}
BY DEF IsABag, EmptyBag, SetToBag, BagToSet

(* A bag without elements is the empty one.                                *)
LEMMA BagNotEmpty ==
    ASSUME NEW B, IsABag(B), B # EmptyBag
    PROVE  \E x : x \in BagToSet(B)
<1>1. CASE DOMAIN B = {}
  <2>1. B = [e \in {} |-> 1]
    BY <1>1 DEF IsABag
  <2> QED BY <2>1 DEF EmptyBag, SetToBag
<1> QED BY <1>1 DEF BagToSet

-----------------------------------------------------------------------------

LEMMA InitInv == Init => Inv
<1> SUFFICES ASSUME Init
             PROVE  Inv
  OBVIOUS
<1> USE ConstantsAssumption
<1>1. Typed /\ Datagrams /\ Channels
  BY BagEmpty DEF Init, Typed, Datagrams, Channels
<1>2. RequestsKnown /\ AcksKnown /\ BusKnown /\ BusInOrder
  BY BagEmpty DEF Init, RequestsKnown, AcksKnown, BusKnown, BusInOrder
<1>3. Index = 1 /\ Results /\ ConfirmedOnBus
  BY DEF Init, Index, Results, ConfirmedOnBus
<1>4. GatewayKnown
  <2>1. LastAccepted(0)
    BY <1>3, BagEmpty, MultipleZero DEF Init, LastAccepted, Ahead, AcksUpTo, Gap
  <2> QED BY <2>1 DEF GatewayKnown, Init
<1> QED BY <1>1, <1>2, <1>3, <1>4 DEF Inv

LEMMA Ranges ==
    ASSUME Inv
    PROVE  /\ SeqMod \in Nat /\ SeqMod >= 4
           /\ current \in Nat /\ opened \in Nat /\ opened > 0
           /\ seq \in Int /\ Index \in Nat /\ Len(bus) \in Nat
           /\ gateway.channel \in Nat /\ gateway.expected \in 0..(SeqMod - 1)
           /\ \A i \in 1..Len(bus) : bus[i].channel \in Nat /\ bus[i].cemi \in Nat
           /\ \A r \in BagToSet(requests) :
                /\ r.channel \in Nat /\ r.channel > 0 /\ r.cemi \in Nat
                /\ r.seq \in 0..(SeqMod - 1)
           /\ \A k \in BagToSet(acks) : k.cemi \in Nat /\ k.seq \in Int
<1>1. SeqMod \in Nat /\ SeqMod >= 4
  BY ConstantsAssumption
<1>2. current \in Nat /\ opened \in Nat /\ opened > 0 /\ seq \in Int /\ Index \in Nat
  BY <1>1 DEF Inv, Typed, Index
<1>3. gateway.channel \in Nat /\ gateway.expected \in 0..(SeqMod - 1)
  BY DEF Inv, Typed
<1>4. /\ Len(bus) \in Nat
      /\ \A i \in 1..Len(bus) : bus[i].channel \in Nat /\ bus[i].cemi \in Nat
  <2>1. bus \in Seq([channel : Nat, cemi : Nat])
    BY DEF Inv, Typed
  <2>2. \A i \in 1..Len(bus) : bus[i] \in [channel : Nat, cemi : Nat]
    BY <2>1, ElementOfSeq
  <2> QED BY <2>1, <2>2
<1>5. \A k \in BagToSet(acks) : k.cemi \in Nat /\ k.seq \in Int
  BY <1>1 DEF Inv, Datagrams
<1> QED BY <1>1, <1>2, <1>3, <1>4, <1>5 DEF Inv, Datagrams

(* A step that leaves the bus and the gateway's counter alone: the sender  *)
(* counts a frame, posts a request, or a channel ends.                     *)
Counts ==
    /\ UNCHANGED <<bus, opened>>
    /\ current' \in {current, current + 1} /\ Index' >= Index
    /\ Multiple((seq' - Index') - (seq - Index))

GatewayKeeps == gateway' = gateway \/ gateway'.channel = 0

Posts ==
    /\ \A r \in BagToSet(requests') :
        \/ r \in BagToSet(requests) /\ current' - r.cemi <= SeqMod - 4
        \/ r.channel = opened /\ r.seq = seq' /\ r.cemi = current' /\ Index' = current'
    /\ \A k \in BagToSet(acks') : k \in BagToSet(acks) /\ current' - k.cemi <= SeqMod - 4

(* The gap stays within its bound.                                         *)
GapKept ==
    gateway'.channel # 0 => \A a \in Nat : Ahead(a) /\ AcksUpTo(a) => Ahead(a)'

LEMMA SenderStep ==
    ASSUME Inv, Typed', Datagrams', Counts, GatewayKeeps, Posts, GapKept
    PROVE  RequestsKnown' /\ AcksKnown' /\ BusKnown' /\ GatewayKnown' /\ BusInOrder'
<1>1. /\ current' \in Nat /\ current' >= current /\ seq' \in Int
      /\ bus' = bus /\ opened' = opened
      /\ Index' \in Nat /\ Index' >= Index
  <2>1. current' \in Nat /\ seq' \in Int
    BY Ranges DEF Typed
  <2>2. current' >= current /\ bus' = bus /\ opened' = opened
    BY Ranges DEF Counts
  <2>3. Index' \in Nat
    BY <2>1, NextNumber DEF Index
  <2>4. Index' >= Index
    BY DEF Counts
  <2> QED BY <2>1, <2>2, <2>3, <2>4
<1>2. BusKnown' /\ BusInOrder'
  <2>1. \A i \in 1..Len(bus) : /\ bus[i].cemi \in Nat /\ bus[i].cemi <= current
                               /\ bus[i].channel <= opened
    BY Ranges DEF Inv, BusKnown
  <2>2. BusKnown'
    BY <1>1, <2>1, Ranges DEF BusKnown
  <2> QED BY <1>1, <2>2 DEF Inv, BusInOrder
<1>3. RequestsKnown'
  <2> SUFFICES ASSUME NEW r \in BagToSet(requests')
               PROVE  /\ r.channel <= opened' /\ r.cemi <= current'
                      /\ current' - r.cemi <= SeqMod - 4
                      /\ r.channel = gateway'.channel =>
                            Multiple((r.seq - r.cemi) - (seq' - Index'))
                      /\ \A i \in 1..Len(bus) : bus[i].channel < r.channel => bus[i].cemi <= r.cemi
    BY <1>1 DEF RequestsKnown
  <2>1. r.channel \in Nat /\ r.channel > 0 /\ r.cemi \in Nat /\ r.seq \in Int
    BY Ranges DEF Datagrams
  <2>2. CASE r \in BagToSet(requests) /\ current' - r.cemi <= SeqMod - 4
    <3>1. r.channel = gateway'.channel => Multiple((r.seq - r.cemi) - (seq' - Index'))
      <4> SUFFICES ASSUME r.channel = gateway'.channel
                   PROVE  Multiple((r.seq - r.cemi) - (seq' - Index'))
        OBVIOUS
      <4>0. Multiple((seq' - Index') - (seq - Index))
        BY DEF Counts
      <4>1. Multiple((r.seq - r.cemi) - (seq - Index))
        BY <2>1, <2>2 DEF Inv, RequestsKnown, GatewayKeeps
      <4>2. /\ r.seq - r.cemi \in Int /\ seq - Index \in Int
            /\ seq' - Index' \in Int
        <5>1. /\ r.seq \in Int /\ r.cemi \in Int /\ seq \in Int /\ Index \in Int
          BY <2>1, Ranges
        <5>2. seq' \in Int /\ Index' \in Int
          BY <1>1, NextNumber
        <5> QED BY <5>1, <5>2, Difference
      <4> QED BY <4>0, <4>1, <4>2, MultipleShift
    <3>2. r.channel <= opened /\ r.cemi <= current
      BY <2>2 DEF Inv, RequestsKnown
    <3>3. \A i \in 1..Len(bus) : bus[i].channel < r.channel => bus[i].cemi <= r.cemi
      BY <2>2 DEF Inv, RequestsKnown
    <3> QED BY <1>1, <2>1, <2>2, <3>1, <3>2, <3>3, Ranges
  <2>3. CASE r.channel = opened /\ r.seq = seq' /\ r.cemi = current' /\ Index' = current'
    <3>1. Multiple((r.seq - r.cemi) - (seq' - Index'))
      <4>1. r.seq - r.cemi = seq' - Index' /\ seq' - Index' \in Int
        BY <1>1, <2>3, Difference, NextNumber
      <4> QED BY <4>1, MultipleSelf
    <3>2. \A i \in 1..Len(bus) : bus[i].cemi <= current
      BY DEF Inv, BusKnown
    <3>3. \A i \in 1..Len(bus) : bus[i].cemi <= r.cemi
      <4>1. /\ current \in Int /\ r.cemi \in Int /\ current <= r.cemi
            /\ \A i \in 1..Len(bus) : bus[i].cemi \in Int
        BY <1>1, <2>1, <2>3, Ranges, NextNumber
      <4> QED BY <3>2, <4>1, Below
    <3>4. r.cemi <= current' /\ current' - r.cemi <= SeqMod - 4
      <4>1. r.cemi <= r.cemi /\ r.cemi - r.cemi <= SeqMod - 4
        BY <2>1, NoDistance
      <4> QED BY <2>3, <4>1, Zenon
    <3>5. r.channel <= opened'
      BY <1>1, <2>3, Ranges
    <3> QED BY <3>1, <3>3, <3>4, <3>5, Zenon
  <2> QED BY <2>2, <2>3 DEF Posts
<1>4. GatewayKnown'
  <2> SUFFICES ASSUME gateway'.channel # 0
               PROVE  \E a \in Nat : a <= current' /\ LastAccepted(a)'
    BY DEF GatewayKnown
  <2>1. gateway' = gateway /\ gateway.channel # 0
    BY DEF GatewayKeeps
  <2>2. PICK a \in Nat : a <= current /\ LastAccepted(a)
    BY <2>1 DEF Inv, GatewayKnown
  <2>3. Multiple((gateway.expected - (a + 1)) - (seq' - Index'))
    <3>0. Multiple((seq' - Index') - (seq - Index))
      BY DEF Counts
    <3>1. Multiple((gateway.expected - (a + 1)) - (seq - Index))
      BY <2>2 DEF LastAccepted
    <3>2. /\ gateway.expected - (a + 1) \in Int /\ seq - Index \in Int
          /\ seq' - Index' \in Int
      <4>1. /\ gateway.expected \in Int /\ a + 1 \in Int /\ seq \in Int /\ Index \in Int
        BY Ranges
      <4>2. seq' \in Int /\ Index' \in Int
        BY <1>1, NextNumber
      <4> QED BY <4>1, <4>2, Difference
    <3> QED BY <3>0, <3>1, <3>2, MultipleShift
  <2>4. \/ OnBus(a)'
        \/ /\ a < Index'
           /\ \A r \in BagToSet(requests') : r.channel = gateway'.channel => r.cemi > a
    <3>1. CASE OnBus(a)
      BY <1>1, <3>1 DEF OnBus
    <3>2. CASE /\ a < Index
               /\ \A r \in BagToSet(requests) : r.channel = gateway.channel => r.cemi > a
      <4>1. a < Index'
        BY <1>1, <3>2, Ranges
      <4>2. \A r \in BagToSet(requests') :
              r \in BagToSet(requests) \/ (r.cemi = current' /\ Index' = current')
        BY DEF Posts
      <4> QED BY <2>1, <3>2, <4>1, <4>2
    <3> QED BY <2>2, <3>1, <3>2 DEF LastAccepted
  <2>5. Ahead(a)' /\ AcksUpTo(a)'
    <3>1. Ahead(a)'
      BY <2>1, <2>2 DEF LastAccepted, GapKept
    <3>2. AcksUpTo(a)'
      BY <2>2 DEF LastAccepted, AcksUpTo, Posts
    <3> QED BY <3>1, <3>2
  <2>6. \A i \in 1..Len(bus) : bus[i].channel = gateway.channel => bus[i].cemi <= a
    BY <2>2 DEF LastAccepted
  <2>7. a <= current'
    BY <1>1, <2>2, Ranges
  <2>8. LastAccepted(a)'
    BY <1>1, <2>1, <2>3, <2>4, <2>5, <2>6 DEF LastAccepted
  <2> QED BY <2>7, <2>8
<1>5. AcksKnown'
  <2> SUFFICES ASSUME NEW k \in BagToSet(acks')
               PROVE  /\ k.cemi <= current' /\ current' - k.cemi <= SeqMod - 4
                      /\ Multiple((k.seq - k.cemi) - (seq' - Index')) /\ OnBus(k.cemi)'
    BY DEF AcksKnown
  <2>1. /\ k \in BagToSet(acks) /\ current' - k.cemi <= SeqMod - 4
        /\ k.cemi \in Nat /\ k.seq \in Int
    BY Ranges DEF Posts
  <2>2. /\ k.cemi <= current /\ OnBus(k.cemi)
        /\ Multiple((k.seq - k.cemi) - (seq - Index))
    BY <2>1 DEF Inv, AcksKnown
  <2>3. Multiple((k.seq - k.cemi) - (seq' - Index'))
    <3>1. Multiple((seq' - Index') - (seq - Index))
      BY DEF Counts
    <3>2. k.seq - k.cemi \in Int /\ seq - Index \in Int /\ seq' - Index' \in Int
      <4>1. k.seq \in Int /\ k.cemi \in Int /\ seq \in Int /\ Index \in Int
        BY <2>1, Ranges
      <4>2. seq' \in Int /\ Index' \in Int
        BY <1>1, NextNumber
      <4> QED BY <4>1, <4>2, Difference
    <3> QED BY <2>2, <3>1, <3>2, MultipleShift
  <2>4. OnBus(k.cemi)'
    BY <1>1, <2>2 DEF OnBus
  <2>5. k.cemi <= current'
    BY <1>1, <2>1, <2>2, Ranges
  <2> QED BY <2>1, <2>3, <2>4, <2>5
<1> QED BY <1>2, <1>3, <1>4, <1>5

(* How send_cemi ended is recorded once for each frame.                    *)
LEMMA ResultStep ==
    ASSUME Inv, NEW how \in {"ok", "failed", "dropped"},
           \A n \in Nat : OnBus(n) => OnBus(n)', foreign \subseteq foreign',
           \/ result' = result /\ Index' = Index
           \/ /\ result' = Append(result, how) /\ Index' = Index + 1
              /\ how = "ok" => OnBus(Index) \/ Index \in foreign'
    PROVE  Results' /\ ConfirmedOnBus'
<1>1. result \in Seq({"ok", "failed", "dropped"}) /\ Len(result) \in Nat
  BY DEF Inv, Typed
<1>2. Len(result) = Index - 1 /\ Index \in Nat
  BY Ranges DEF Inv, Results
<1>3. \A n \in 1..Len(result) : result[n] = "ok" => OnBus(n) \/ n \in foreign
  BY DEF Inv, ConfirmedOnBus
<1>4. CASE result' = result /\ Index' = Index
  BY <1>1, <1>2, <1>3, <1>4 DEF Results, ConfirmedOnBus
<1>5. CASE /\ result' = Append(result, how) /\ Index' = Index + 1
           /\ how = "ok" => OnBus(Index) \/ Index \in foreign'
  <2>1. /\ Len(result') = Len(result) + 1 /\ result'[Len(result) + 1] = how
        /\ \A n \in 1..Len(result) : result'[n] = result[n]
    BY <1>1, <1>5
  <2>2. \A n \in 1..Len(result') : n \in 1..Len(result) \/ n = Len(result) + 1
    BY <1>1, <2>1
  <2>3. Len(result) + 1 = Index
    BY <1>1, <1>2 DEF Index
  <2>4. Results'
    BY <1>1, <1>2, <1>5, <2>1 DEF Results
  <2>5. ASSUME NEW n \in 1..Len(result'), result'[n] = "ok"
        PROVE  OnBus(n)' \/ n \in foreign'
    <3>1. CASE n \in 1..Len(result)
      BY <1>1, <1>3, <2>1, <2>5, <3>1
    <3>2. CASE n = Len(result) + 1
      <4>1. (OnBus(n) \/ n \in foreign') /\ n \in Nat
        BY <1>1, <1>5, <2>1, <2>3, <2>5, <3>2
      <4> QED BY <4>1
    <3> QED BY <2>2, <3>1, <3>2
  <2> QED BY <2>4, <2>5 DEF ConfirmedOnBus
<1> QED BY <1>4, <1>5

-----------------------------------------------------------------------------
(* The steps of the sender.                                                *)

(* End counts the frame, from any place but idle.                          *)
LEMMA EndCounts ==
    ASSUME Inv, NEW how \in {"ok", "failed", "dropped"}, End(how),
           \/ pc # "idle" /\ current' = current
           \/ pc = "idle" /\ current' = current + 1
    PROVE  /\ pc' = "idle" /\ result' = Append(result, how)
           /\ result' \in Seq({"ok", "failed", "dropped"})
           /\ current' \in Nat /\ Index' = Index + 1
           /\ seq' \in 0..(SeqMod - 1) /\ Multiple((seq' - Index') - (seq - Index))
<1>1. pc' = "idle" /\ result' = Append(result, how) /\ seq' = (seq + 1) % SeqMod
  BY DEF End
<1>2. current \in Nat /\ seq \in 0..(SeqMod - 1) /\ seq \in Int /\ Index \in Nat
  BY Ranges DEF Inv, Typed
<1>3. Index' = Index + 1 /\ current' \in Nat
  BY <1>1, <1>2 DEF Index
<1>4. result' \in Seq({"ok", "failed", "dropped"})
  BY <1>1 DEF Inv, Typed
<1>5. seq' \in 0..(SeqMod - 1) /\ Multiple(seq' - (seq + 1))
  BY <1>1, <1>2, Successor
<1>6. Multiple((seq' - Index') - (seq - Index))
  <2>1. \A s \in Int : (s - (Index + 1)) - (seq - Index) = s - (seq + 1)
    BY <1>2
  <2>2. seq' \in Int
    BY <1>5, Ranges
  <2> QED BY <1>3, <1>5, <2>1, <2>2
<1> QED BY <1>1, <1>3, <1>4, <1>5, <1>6

(* Where a request may come from: pc is not a wait that could be answered. *)
Asks(next) ==
    /\ \/ pc \in {"ready", "first", "lost"} /\ current' = current
       \/ pc = "idle" /\ current' = current + 1
    /\ pc = "lost" <=> next = "third"
    /\ next = "third" => reconnect = "None"
    /\ \A r \in BagToSet(requests) : current' - r.cemi <= SeqMod - 4
    /\ \A k \in BagToSet(acks) : current' - k.cemi <= SeqMod - 4

LEMMA RequestInv ==
    ASSUME Inv, NEW next \in {"first", "second", "third"}, Request(Index, next),
           UNCHANGED <<connVars, acks, gateway, bus, foreign>>, Asks(next)
    PROVE  Inv'
<1>1. /\ UNCHANGED <<channel, opened, reconnect, user, acks, gateway, bus, foreign>>
      /\ \A n \in Nat : OnBus(n) => OnBus(n)'
  BY DEF connVars, OnBus
<1>2. /\ current' = Index /\ current' \in Nat /\ current' > 0
      /\ \/ pc # "idle" /\ current' = current
         \/ pc = "idle" /\ current' = current + 1
  BY Ranges DEF Asks, Index, Inv, Typed
<1>3. current' \in {current, current + 1} /\ Index \in Int
  BY <1>2, Ranges
<1>4. GatewayKeeps
  BY <1>1 DEF GatewayKeeps
<1>5. CASE channel = 0
  <2>1. PICK how \in {"failed", "dropped"} : End(how)
    BY <1>5 DEF Request
  <2>2. UNCHANGED requests
    BY <1>5 DEF Request
  <2>3. /\ pc' = "idle" /\ result' = Append(result, how)
        /\ result' \in Seq({"ok", "failed", "dropped"}) /\ Index' = Index + 1
        /\ seq' \in 0..(SeqMod - 1) /\ Multiple((seq' - Index') - (seq - Index))
    BY <1>2, <2>1, EndCounts
  <2>4. gateway.channel = 0
    BY <1>5 DEF Inv, Channels
  <2>5. Typed' /\ Datagrams' /\ Channels'
    <3>1. Typed'
      BY <1>1, <1>2, <2>3 DEF Inv, Typed
    <3> QED BY <1>1, <2>2, <3>1 DEF Inv, Datagrams, Channels
  <2>6. Counts
    BY <1>1, <1>3, <2>3, Ranges DEF Counts
  <2>7. Posts /\ GapKept
    BY <1>1, <2>2, <2>4 DEF Asks, Posts, GapKept
  <2>8. RequestsKnown' /\ AcksKnown' /\ BusKnown' /\ GatewayKnown' /\ BusInOrder'
    BY <1>4, <2>5, <2>6, <2>7, SenderStep
  <2>9. Results' /\ ConfirmedOnBus'
    BY <1>1, <2>1, <2>3, ResultStep
  <2> QED BY <2>5, <2>8, <2>9 DEF Inv
<1>6. CASE channel # 0
  <2> DEFINE q == [channel |-> channel, seq |-> seq, cemi |-> Index]
  <2>1. /\ pc' = next /\ UNCHANGED <<seq, result>>
        /\ requests' = requests \/ requests' = requests (+) SetToBag({q})
    BY <1>6 DEF Request
  <2>2. channel = opened /\ Index' = Index
    BY <1>2, <1>6, <2>1 DEF Inv, Typed, Index
  <2>3. Multiple((seq' - Index') - (seq - Index))
    BY <2>1, <2>2, Ranges, Difference, NextNumber, MultipleSelf
  <2>4. Gap' = Gap
    BY <1>1, <2>1 DEF Gap, Asks
  <2>5. /\ IsABag(requests') /\ BagToSet(requests') \subseteq BagToSet(requests) \cup {q}
    <3>1. IsABag(requests)
      BY DEF Inv, Datagrams
    <3>2. CASE requests' = requests
      BY <3>1, <3>2
    <3>3. CASE requests' = requests (+) SetToBag({q})
      BY <3>1, <3>3, BagAdd
    <3> QED BY <2>1, <3>2, <3>3
  <2>6. Typed' /\ Channels'
    BY <1>1, <1>2, <2>1 DEF Inv, Typed, Channels
  <2>7. Datagrams'
    <3>1. \A r \in BagToSet(requests) :
            r.channel \in Nat /\ r.channel > 0 /\ r.seq \in 0..(SeqMod - 1) /\ r.cemi \in Nat
      BY DEF Inv, Datagrams
    <3>2. q.channel \in Nat /\ q.channel > 0 /\ q.seq \in 0..(SeqMod - 1) /\ q.cemi \in Nat
      BY <2>2, Ranges DEF Inv, Typed
    <3>3. IsABag(acks') /\ \A k \in BagToSet(acks') : k.seq \in 0..(SeqMod - 1) /\ k.cemi \in Nat
      BY <1>1 DEF Inv, Datagrams
    <3> HIDE DEF q
    <3> QED BY <2>5, <3>1, <3>2, <3>3 DEF Datagrams
  <2>8. Counts
    BY <1>1, <1>3, <2>2, <2>3, Ranges DEF Counts
  <2>9. Posts
    <3>1. \A r \in BagToSet(requests) : current' - r.cemi <= SeqMod - 4
      BY DEF Asks
    <3>2. q.channel = opened /\ q.seq = seq' /\ q.cemi = current' /\ Index' = current'
      BY <1>2, <2>1, <2>2
    <3> HIDE DEF q
    <3>3. \A k \in BagToSet(acks') : k \in BagToSet(acks) /\ current' - k.cemi <= SeqMod - 4
      BY <1>1 DEF Asks
    <3> QED BY <2>5, <3>1, <3>2, <3>3 DEF Posts
  <2>10. GapKept
    BY <2>2, <2>4 DEF GapKept, Ahead
  <2>11. RequestsKnown' /\ AcksKnown' /\ BusKnown' /\ GatewayKnown' /\ BusInOrder'
    BY <1>4, <2>6, <2>7, <2>8, <2>9, <2>10, SenderStep
  <2>12. Results' /\ ConfirmedOnBus'
    <3>1. "failed" \in {"ok", "failed", "dropped"}
      OBVIOUS
    <3> QED BY <1>1, <2>1, <2>2, <3>1, ResultStep
  <2> QED BY <2>6, <2>7, <2>11, <2>12 DEF Inv
<1> QED BY <1>5, <1>6

Fewer(C, B) ==
    IsABag(C) /\ BagToSet(C) \subseteq BagToSet(B)

LEMMA FewerBags ==
    ASSUME NEW B, IsABag(B)
    PROVE  /\ Fewer(B, B) /\ Fewer(EmptyBag, B)
           /\ \A x \in BagToSet(B) : Fewer(B (-) SetToBag({x}), B)
           /\ \A C : Fewer(C, B) /\ B = EmptyBag => C = EmptyBag
<1>1. Fewer(B, B) /\ Fewer(EmptyBag, B)
  BY BagEmpty DEF Fewer
<1>2. ASSUME NEW x \in BagToSet(B)
      PROVE  Fewer(B (-) SetToBag({x}), B)
  BY BagRemove DEF Fewer
<1>3. ASSUME NEW C, Fewer(C, B), B = EmptyBag
      PROVE  C = EmptyBag
  BY <1>3, BagEmpty, BagNotEmpty DEF Fewer
<1> QED BY <1>1, <1>2, <1>3

(* The sender stays where it is, datagrams and channels may get lost.      *)
LEMMA PassiveInv ==
    ASSUME Inv, UNCHANGED <<sendVars, bus, opened, foreign>>, channel' \in {0, channel},
           GatewayKeeps, gateway' \in [channel : Nat, expected : 0..(SeqMod - 1)],
           Fewer(requests', requests), Fewer(acks', acks), Channels',
           gateway'.channel # 0 => Gap' >= Gap
    PROVE  Inv'
<1>1. /\ UNCHANGED <<pc, current, seq, result, bus, opened, foreign>>
      /\ Index' = Index /\ \A n : OnBus(n)' = OnBus(n)
  BY DEF sendVars, Index, OnBus
<1>2. BagToSet(requests') \subseteq BagToSet(requests) /\ BagToSet(acks') \subseteq BagToSet(acks)
  BY DEF Fewer
<1>3. acks = EmptyBag => acks' = EmptyBag
  BY FewerBags DEF Inv, Datagrams
<1>4. Typed'
  BY <1>1 DEF Inv, Typed
<1>5. Datagrams'
  BY <1>2 DEF Inv, Datagrams, Fewer
<1>6. Counts
  BY <1>1, Ranges, Difference, NextNumber, MultipleSelf DEF Counts
<1>7. Posts
  BY <1>1, <1>2 DEF Posts, Inv, RequestsKnown, AcksKnown
<1>8. GapKept
  <2>1. Gap \in {1, 2, 3} /\ Gap' \in {1, 2, 3}
    BY DEF Gap
  <2>2. \A a \in Nat, g \in {1, 2, 3}, h \in {1, 2, 3} :
          Index - a <= (SeqMod - 4) + g /\ h >= g => Index - a <= (SeqMod - 4) + h
    BY Ranges
  <2> QED BY <1>1, <2>1, <2>2 DEF GapKept, Ahead
<1>9. RequestsKnown' /\ AcksKnown' /\ BusKnown' /\ GatewayKnown' /\ BusInOrder'
  BY <1>4, <1>5, <1>6, <1>7, <1>8, SenderStep
<1>10. Results' /\ ConfirmedOnBus'
  <2>1. "failed" \in {"ok", "failed", "dropped"}
    OBVIOUS
  <2> QED BY <1>1, <2>1, ResultStep
<1> QED BY <1>4, <1>5, <1>9, <1>10 DEF Inv

(* send_cemi ends.                                                         *)
LEMMA EndInv ==
    ASSUME Inv, NEW how \in {"ok", "failed", "dropped"}, End(how), pc # "idle",
           UNCHANGED <<current, bus, opened, channel, requests>>, foreign \subseteq foreign',
           GatewayKeeps, gateway' \in [channel : Nat, expected : 0..(SeqMod - 1)],
           Fewer(acks', acks), Channels', GapKept,
           how = "ok" => OnBus(current) \/ current \in foreign'
    PROVE  Inv'
<1>1. /\ pc' = "idle" /\ result' = Append(result, how)
      /\ result' \in Seq({"ok", "failed", "dropped"}) /\ Index' = Index + 1
      /\ seq' \in 0..(SeqMod - 1) /\ Multiple((seq' - Index') - (seq - Index))
  BY EndCounts
<1>2. Index = current
  BY DEF Index
<1>3. Typed'
  BY <1>1 DEF Inv, Typed
<1>4. Datagrams'
  BY DEF Inv, Datagrams, Fewer
<1>5. Counts
  BY <1>1, Ranges DEF Counts
<1>6. Posts
  BY DEF Posts, Inv, RequestsKnown, AcksKnown, Fewer
<1>7. RequestsKnown' /\ AcksKnown' /\ BusKnown' /\ GatewayKnown' /\ BusInOrder'
  BY <1>3, <1>4, <1>5, <1>6, SenderStep
<1>8. Results' /\ ConfirmedOnBus'
  <2>1. \A n \in Nat : OnBus(n) => OnBus(n)'
    BY DEF OnBus
  <2> QED BY <1>1, <1>2, <2>1, ResultStep
<1> QED BY <1>3, <1>4, <1>7, <1>8 DEF Inv

LEMMA GatewayTyped ==
    ASSUME Inv
    PROVE  /\ gateway \in [channel : Nat, expected : 0..(SeqMod - 1)]
           /\ [gateway EXCEPT !.channel = 0] \in [channel : Nat, expected : 0..(SeqMod - 1)]
           /\ [gateway EXCEPT !.channel = 0].channel = 0
           /\ IsABag(requests) /\ IsABag(acks)
BY DEF Inv, Typed, Datagrams

LEMMA SendBeginInv ==
    ASSUME Inv, SendBegin
    PROVE  Inv'
<1>1. /\ pc = "idle" /\ current' = current + 1 /\ Index = current + 1
      /\ UNCHANGED <<connVars, acks, gateway, bus, foreign>>
  BY DEF SendBegin, Index
<1>2. \A d \in BagToSet(requests) \cup BagToSet(acks) : current' - d.cemi <= SeqMod - 4
  <2>1. NoOldDatagram
    BY DEF SendBegin
  <2>2. current' = current + 1
    BY <1>1
  <2>3. current \in Nat /\ \A d \in BagToSet(requests) \cup BagToSet(acks) : d.cemi \in Nat
    BY Ranges
  <2>4. \A d \in BagToSet(requests) \cup BagToSet(acks) : current + 1 - d.cemi <= SeqMod - 4
    BY <2>1 DEF NoOldDatagram
  <2> QED BY <2>2, <2>3, <2>4
<1>3. CASE reconnect = "None"
  <2>1. Request(Index, "first")
    BY <1>1, <1>3 DEF SendBegin
  <2>2. Asks("first")
    BY <1>1, <1>2 DEF Asks
  <2> QED BY <1>1, <2>1, <2>2, RequestInv
<1>4. CASE reconnect # "None"
  <2>1. /\ pc' = "ready" /\ UNCHANGED <<seq, requests, result>>
        /\ UNCHANGED <<channel, opened, reconnect, user, acks, gateway, bus, foreign>>
    BY <1>1, <1>4 DEF SendBegin, connVars
  <2>2. Index' = Index /\ Gap' = Gap
    BY <1>1, <2>1 DEF Index, Gap
  <2>3. Typed' /\ Datagrams' /\ Channels'
    <3>1. current' \in Nat /\ current' > 0
      BY <1>1, Ranges
    <3> QED BY <2>1, <3>1 DEF Inv, Typed, Datagrams, Channels
  <2>4. Counts /\ GatewayKeeps
    <3>1. Multiple((seq' - Index') - (seq - Index))
      BY <2>1, <2>2, Ranges, Difference, NextNumber, MultipleSelf
    <3> QED BY <1>1, <2>1, <2>2, <3>1, Ranges DEF Counts, GatewayKeeps
  <2>5. Posts /\ GapKept
    BY <1>2, <2>1, <2>2 DEF Posts, GapKept, Ahead
  <2>6. RequestsKnown' /\ AcksKnown' /\ BusKnown' /\ GatewayKnown' /\ BusInOrder'
    BY <2>3, <2>4, <2>5, SenderStep
  <2>7. Results' /\ ConfirmedOnBus'
    <3>1. "failed" \in {"ok", "failed", "dropped"} /\ \A n \in Nat : OnBus(n) => OnBus(n)'
      BY <2>1 DEF OnBus
    <3> QED BY <2>1, <2>2, <3>1, ResultStep
  <2> QED BY <2>3, <2>6, <2>7 DEF Inv
<1> QED BY <1>3, <1>4

LEMMA SendAgainInv ==
    ASSUME Inv, SendReady \/ SendSecond \/ SendThird
    PROVE  Inv'
<1>1. /\ \A r \in BagToSet(requests) : current - r.cemi <= SeqMod - 4
      /\ \A k \in BagToSet(acks) : current - k.cemi <= SeqMod - 4
  BY DEF Inv, RequestsKnown, AcksKnown
<1>2. CASE SendReady
  <2>1. /\ Request(Index, "first") /\ pc = "ready" /\ current' = current
        /\ UNCHANGED <<connVars, acks, gateway, bus, foreign>>
    BY <1>2 DEF SendReady, Index
  <2>2. Asks("first")
    BY <1>1, <2>1 DEF Asks
  <2> QED BY <2>1, <2>2, RequestInv
<1>3. CASE SendSecond
  <2>1. /\ Request(Index, "second") /\ pc = "first" /\ current' = current
        /\ UNCHANGED <<connVars, acks, gateway, bus, foreign>>
    BY <1>3 DEF SendSecond, Index
  <2>2. Asks("second")
    BY <1>1, <2>1 DEF Asks
  <2> QED BY <2>1, <2>2, RequestInv
<1>4. CASE SendThird
  <2>1. /\ Request(Index, "third") /\ pc = "lost" /\ current' = current /\ reconnect = "None"
        /\ UNCHANGED <<connVars, acks, gateway, bus, foreign>>
    BY <1>4 DEF SendThird, Index
  <2>2. Asks("third")
    BY <1>1, <2>1 DEF Asks
  <2> QED BY <2>1, <2>2, RequestInv
<1> QED BY <1>2, <1>3, <1>4

LEMMA SendFailsInv ==
    ASSUME Inv, SendFails
    PROVE  Inv'
<1>1. /\ pc = "third" /\ End("failed") /\ pc' = "idle"
      /\ UNCHANGED <<current, channel, opened, reconnect, user>>
      /\ UNCHANGED <<requests, acks, gateway, bus, foreign>>
  BY DEF SendFails, End, connVars, netVars
<1>2. GapKept
  <2>1. Index = current /\ Index' = current + 1 /\ Gap = 1 /\ Gap' \in {2, 3}
    BY <1>1 DEF Index, Gap
  <2>2. \A a \in Nat, g \in {2, 3} :
          current - a <= (SeqMod - 4) + 1 => (current + 1) - a <= (SeqMod - 4) + g
    BY Ranges
  <2> QED BY <2>1, <2>2 DEF GapKept, Ahead
<1>3. GatewayKeeps /\ Channels'
  BY <1>1 DEF GatewayKeeps, Inv, Channels
<1>4. Fewer(acks', acks)
  BY <1>1, FewerBags, GatewayTyped
<1> QED BY <1>1, <1>2, <1>3, <1>4, GatewayTyped, EndInv

(* An ACK with the counter of the request is an ACK of the frame: there is *)
(* none left from the time before the counter wrapped.                     *)
LEMMA SendConfirmedInv ==
    ASSUME Inv, NEW k \in BagToSet(acks), SendConfirmed(k)
    PROVE  Inv'
<1>1. /\ Waiting /\ End("ok") /\ pc' = "idle" /\ pc # "idle"
      /\ acks' = acks (-) SetToBag({k})
      /\ foreign' = IF k.seq = seq THEN foreign ELSE foreign \cup {current}
      /\ UNCHANGED <<current, channel, opened, reconnect, user, requests, gateway, bus>>
  BY DEF SendConfirmed, End, connVars, Waiting
<1>2. Fewer(acks', acks)
  BY <1>1, FewerBags, GatewayTyped
<1>3. Index = current /\ Index' = current + 1 /\ Gap' \in {2, 3}
  BY <1>1 DEF Index, Gap
<1>4. /\ k.cemi \in Nat /\ k.cemi <= current /\ current - k.cemi <= SeqMod - 4
      /\ Multiple((k.seq - k.cemi) - (seq - Index)) /\ OnBus(k.cemi)
  BY Ranges DEF Inv, AcksKnown
<1>5. k.seq = seq => OnBus(current)
  <2> SUFFICES ASSUME k.seq = seq
               PROVE  OnBus(current)
    OBVIOUS
  <2>1. (k.seq - k.cemi) - (seq - Index) = current - k.cemi
    BY <1>3, <1>4, Ranges
  <2>2. current - k.cemi \in Int /\ -SeqMod < current - k.cemi /\ current - k.cemi < SeqMod
    BY <1>4, Ranges
  <2>3. current - k.cemi = 0
    BY <1>4, <2>1, <2>2, MultipleSmall
  <2>4. current = k.cemi
    BY <1>4, <2>3, Ranges
  <2> QED BY <1>4, <2>4
<1>6. GapKept
  <2>1. \A a \in Nat, g \in {2, 3} : k.cemi <= a => (current + 1) - a <= (SeqMod - 4) + g
    BY <1>4, Ranges
  <2> QED BY <1>3, <2>1 DEF GapKept, Ahead, AcksUpTo
<1>7. GatewayKeeps /\ Channels'
  BY <1>1, <1>2, FewerBags, GatewayTyped DEF GatewayKeeps, Inv, Channels
<1>8. foreign \subseteq foreign' /\ (OnBus(current) \/ current \in foreign')
  BY <1>1, <1>5
<1> QED BY <1>1, <1>2, <1>6, <1>7, <1>8, GatewayTyped, EndInv

LEMMA SendLostInv ==
    ASSUME Inv, SendLost
    PROVE  Inv'
<1>1. /\ pc = "second" /\ Lost
      /\ UNCHANGED <<current, channel, opened, user, requests, bus, foreign>>
  BY DEF SendLost
<1>2. CASE auto_reconnect
  <2>1. /\ pc' = "lost" /\ reconnect' = IF reconnect = "None" THEN "closing" ELSE reconnect
        /\ UNCHANGED <<seq, result, acks, gateway>>
    BY <1>1, <1>2 DEF SendLost, Lost
  <2>2. Index' = Index /\ Gap' = Gap
    BY <1>1, <2>1 DEF Index, Gap
  <2>3. Typed' /\ Datagrams' /\ Channels'
    BY <1>1, <2>1 DEF Inv, Typed, Datagrams, Channels
  <2>4. Counts /\ GatewayKeeps
    <3>1. Multiple((seq' - Index') - (seq - Index))
      BY <2>1, <2>2, Ranges, Difference, NextNumber, MultipleSelf
    <3> QED BY <1>1, <2>1, <2>2, <3>1, Ranges DEF Counts, GatewayKeeps
  <2>5. Posts /\ GapKept
    BY <1>1, <2>1, <2>2 DEF Posts, GapKept, Ahead, Inv, RequestsKnown, AcksKnown
  <2>6. RequestsKnown' /\ AcksKnown' /\ BusKnown' /\ GatewayKnown' /\ BusInOrder'
    BY <2>3, <2>4, <2>5, SenderStep
  <2>7. Results' /\ ConfirmedOnBus'
    <3>1. "failed" \in {"ok", "failed", "dropped"} /\ \A n \in Nat : OnBus(n) => OnBus(n)'
      BY <1>1 DEF OnBus
    <3> QED BY <1>1, <2>1, <2>2, <3>1, ResultStep
  <2> QED BY <2>3, <2>6, <2>7 DEF Inv
<1>3. CASE ~auto_reconnect
  <2>1. /\ End("failed") /\ acks' = EmptyBag /\ gateway' = [gateway EXCEPT !.channel = 0]
        /\ UNCHANGED reconnect
    BY <1>1, <1>3 DEF SendLost, Lost
  <2>2. gateway'.channel = 0 /\ gateway' \in [channel : Nat, expected : 0..(SeqMod - 1)]
    BY <2>1, GatewayTyped
  <2>3. GatewayKeeps /\ GapKept /\ Channels'
    BY <1>1, <2>1, <2>2 DEF GatewayKeeps, GapKept, Inv, Channels
  <2>4. Fewer(acks', acks)
    BY <2>1, FewerBags, GatewayTyped
  <2> QED BY <1>1, <2>1, <2>2, <2>3, <2>4, EndInv
<1> QED BY <1>2, <1>3

LEMMA DatagramsInv ==
    ASSUME Inv,
           \/ \E a \in BagToSet(acks) : AckUnhandled(a) \/ AckLost(a)
           \/ \E r \in BagToSet(requests) : RequestLost(r)
    PROVE  Inv'
<1>1. /\ UNCHANGED <<sendVars, connVars, bus, foreign, gateway>>
      /\ Fewer(requests', requests) /\ Fewer(acks', acks)
  BY FewerBags, GatewayTyped DEF AckUnhandled, AckLost, RequestLost
<1>2. UNCHANGED <<pc, channel, opened, reconnect, user>> /\ GatewayKeeps
  BY <1>1 DEF sendVars, connVars, GatewayKeeps
<1>3. Channels'
  BY <1>1, <1>2, FewerBags, GatewayTyped DEF Inv, Channels
<1>4. Gap' = Gap /\ Gap \in {1, 2, 3}
  BY <1>2 DEF Gap
<1>5. Gap' >= Gap
  BY <1>4
<1> QED BY <1>1, <1>2, <1>3, <1>5, GatewayTyped, PassiveInv

(* The channel ends on the side of the gateway.                            *)
LEMMA ChannelGone ==
    ASSUME Inv, UNCHANGED <<sendVars, bus, opened, foreign, requests>>, channel' \in {0, channel},
           gateway' = [gateway EXCEPT !.channel = 0], acks' \in {acks, EmptyBag},
           reconnect' = "opening" => acks' = EmptyBag,
           user' = "up" => reconnect' # "cancelled"
    PROVE  Inv'
<1>1. gateway'.channel = 0 /\ gateway' \in [channel : Nat, expected : 0..(SeqMod - 1)]
  BY GatewayTyped
<1>2. GatewayKeeps /\ Channels'
  BY <1>1 DEF GatewayKeeps, Channels
<1>3. Fewer(requests', requests) /\ Fewer(acks', acks)
  BY FewerBags, GatewayTyped
<1> QED BY <1>1, <1>2, <1>3, PassiveInv

LEMMA TunnelLostInv ==
    ASSUME Inv, TunnelLost
    PROVE  Inv'
<1>1. /\ reconnect = "None" /\ Lost
      /\ UNCHANGED <<sendVars, pc, channel, opened, user, requests, bus, foreign>>
  BY DEF TunnelLost, sendVars
<1>2. CASE auto_reconnect
  <2>1. reconnect' = "closing" /\ UNCHANGED <<acks, gateway>>
    BY <1>1, <1>2 DEF Lost
  <2>2. Gap' >= Gap
    BY <1>1, <2>1 DEF Gap
  <2>3. GatewayKeeps /\ Channels'
    BY <1>1, <2>1 DEF GatewayKeeps, Channels, Inv
  <2>4. Fewer(requests', requests) /\ Fewer(acks', acks)
    BY <1>1, <2>1, FewerBags, GatewayTyped
  <2> QED BY <1>1, <2>1, <2>2, <2>3, <2>4, GatewayTyped, PassiveInv
<1>3. CASE ~auto_reconnect
  BY <1>1, <1>3, ChannelGone DEF Lost
<1> QED BY <1>2, <1>3

LEMMA ClosingInv ==
    ASSUME Inv, GatewayDisconnects \/ ReconnectClosed \/ Disconnected
    PROVE  Inv'
<1>1. CASE GatewayDisconnects
  <2>1. /\ gateway.channel # 0 /\ channel' = 0 /\ gateway' = [gateway EXCEPT !.channel = 0]
        /\ reconnect' \in {reconnect, "closing"} /\ acks' \in {acks, EmptyBag}
        /\ UNCHANGED <<sendVars, opened, user, requests, bus, foreign>>
    BY <1>1 DEF GatewayDisconnects
  <2>2. reconnect' # "opening" /\ (user' = "up" => reconnect' # "cancelled")
    BY <2>1 DEF Inv, Channels
  <2> QED BY <2>1, <2>2, ChannelGone
<1>2. CASE ReconnectClosed
  BY <1>2, ChannelGone DEF ReconnectClosed
<1>3. CASE Disconnected
  BY <1>3, ChannelGone DEF Disconnected, Closed
<1> QED BY <1>1, <1>2, <1>3

LEMMA DisconnectInv ==
    ASSUME Inv, Disconnect
    PROVE  Inv'
<1>1. /\ user = "up" /\ user' # "up"
      /\ reconnect' = IF reconnect = "None" THEN "None" ELSE "cancelled"
      /\ UNCHANGED <<sendVars, pc, opened, requests, bus, foreign>>
  BY DEF Disconnect, Closed, sendVars
<1>2. CASE channel = 0 \/ ~open
  BY <1>1, <1>2, ChannelGone DEF Disconnect, Closed
<1>3. CASE ~(channel = 0 \/ ~open)
  <2>1. UNCHANGED <<channel, acks, gateway>>
    BY <1>3 DEF Disconnect
  <2>2. Gap' >= Gap
    BY <1>1 DEF Gap
  <2>3. GatewayKeeps /\ Channels'
    BY <1>1, <2>1 DEF GatewayKeeps, Channels, Inv
  <2>4. Fewer(requests', requests) /\ Fewer(acks', acks)
    BY <1>1, <2>1, FewerBags, GatewayTyped
  <2> QED BY <1>1, <2>1, <2>2, <2>3, <2>4, GatewayTyped, PassiveInv
<1> QED BY <1>2, <1>3

LEMMA ReconnectCancelledInv ==
    ASSUME Inv, ReconnectCancelled
    PROVE  Inv'
<1>1. /\ reconnect = "cancelled" /\ reconnect' = "None" /\ user # "up"
      /\ UNCHANGED <<current, channel, opened, user, requests, acks, gateway, bus, foreign>>
  BY DEF ReconnectCancelled, netVars, Inv, Channels
<1>2. /\ GatewayKeeps /\ Channels'
      /\ Fewer(requests', requests) /\ Fewer(acks', acks)
  BY <1>1, FewerBags, GatewayTyped DEF GatewayKeeps, Channels, Inv
<1>3. CASE pc = "lost"
  <2>1. End("failed") /\ pc' = "idle"
    BY <1>3 DEF ReconnectCancelled, End
  <2>2. GapKept
    <3>1. Index = current /\ Index' = current + 1 /\ Gap = 2 /\ Gap' = 3
      BY <1>1, <1>3, <2>1 DEF Index, Gap
    <3>2. \A a \in Nat : current - a <= (SeqMod - 4) + 2 => (current + 1) - a <= (SeqMod - 4) + 3
      BY Ranges
    <3> QED BY <3>1, <3>2 DEF GapKept, Ahead
  <2> QED BY <1>1, <1>2, <1>3, <2>1, <2>2, GatewayTyped, EndInv
<1>4. CASE pc # "lost"
  <2>1. UNCHANGED sendVars /\ UNCHANGED pc
    BY <1>1, <1>4 DEF ReconnectCancelled, sendVars
  <2>2. Gap' >= Gap
    BY <1>1, <1>4, <2>1 DEF Gap
  <2> QED BY <1>1, <1>2, <2>1, <2>2, GatewayTyped, PassiveInv
<1> QED BY <1>3, <1>4

(* A new channel starts with both counters at 0.                           *)
LEMMA ReconnectedInv ==
    ASSUME Inv, Reconnected
    PROVE  Inv'
<1>1. /\ reconnect = "opening" /\ reconnect' = "None" /\ opened' = opened + 1
      /\ channel' = opened + 1 /\ seq' = 0
      /\ gateway' = [channel |-> opened + 1, expected |-> 0]
      /\ UNCHANGED <<pc, current, result, user, requests, acks, bus, foreign>>
  BY DEF Reconnected
<1>2. /\ gateway'.channel = opened + 1 /\ gateway'.expected = 0 /\ acks = EmptyBag
      /\ Index' = Index /\ \A n : OnBus(n)' = OnBus(n)
  BY <1>1 DEF Inv, Channels, Index, OnBus
<1>3. Typed'
  <2>1. /\ opened + 1 \in Nat /\ opened + 1 > 0 /\ 0 \in 0..(SeqMod - 1)
    BY Ranges
  <2> QED BY <1>1, <2>1 DEF Inv, Typed
<1>4. Datagrams' /\ Channels'
  BY <1>1, <1>2 DEF Inv, Datagrams, Channels
<1>5. BusKnown' /\ BusInOrder'
  <2>1. \A i \in 1..Len(bus) : bus[i].cemi <= current /\ bus[i].channel <= opened + 1
    BY Ranges DEF Inv, BusKnown
  <2> QED BY <1>1, <2>1 DEF BusKnown, Inv, BusInOrder
<1>6. \A r \in BagToSet(requests) : r.channel <= opened + 1 /\ r.channel # opened + 1
  BY Ranges DEF Inv, RequestsKnown
<1>7. RequestsKnown' /\ AcksKnown'
  BY <1>1, <1>2, <1>6, BagEmpty DEF Inv, RequestsKnown, AcksKnown
<1>8. GatewayKnown'
  <2>0. Index - 1 \in Nat
    BY DEF Inv, Typed, Index
  <2>a. PICK a \in Nat : a = Index - 1
    BY <2>0
  <2>1. a <= current /\ a < Index /\ Index - a = 1
    BY <2>a DEF Inv, Typed, Index
  <2>2. (0 - (a + 1)) - (0 - Index) = 0
    BY <2>a, Ranges
  <2>3. \A i \in 1..Len(bus) : bus[i].channel # opened + 1
    BY Ranges DEF Inv, BusKnown
  <2>4. Ahead(a)' /\ AcksUpTo(a)'
    <3>1. Gap' \in {1, 2, 3}
      BY DEF Gap
    <3>2. \A g \in {1, 2, 3} : 1 <= (SeqMod - 4) + g
      BY Ranges
    <3>3. Ahead(a)'
      BY <1>2, <2>1, <3>1, <3>2 DEF Ahead
    <3> QED BY <1>1, <1>2, <3>3, BagEmpty DEF AcksUpTo
  <2>5. Multiple((gateway'.expected - (a + 1)) - (seq' - Index'))
    BY <1>1, <1>2, <2>2, MultipleZero
  <2>6. LastAccepted(a)'
    BY <1>1, <1>2, <1>6, <2>1, <2>3, <2>4, <2>5 DEF LastAccepted
  <2> QED BY <1>1, <2>1, <2>6 DEF GatewayKnown
<1>9. Results' /\ ConfirmedOnBus'
  <2>1. "failed" \in {"ok", "failed", "dropped"}
    OBVIOUS
  <2> QED BY <1>1, <1>2, <2>1, ResultStep
<1> QED BY <1>3, <1>4, <1>5, <1>7, <1>8, <1>9 DEF Inv

-----------------------------------------------------------------------------
(* The gateway.                                                            *)

(* How the counters of a request and of the gateway reforeign.                *)
LEMMA Position ==
    ASSUME Inv, NEW r \in BagToSet(requests), r.channel = gateway.channel,
           NEW a \in Nat, LastAccepted(a)
    PROVE  Multiple((r.seq - r.cemi) - (gateway.expected - (a + 1)))
<1>1. Multiple((r.seq - r.cemi) - (seq - Index))
  BY DEF Inv, RequestsKnown
<1>2. Multiple((gateway.expected - (a + 1)) - (seq - Index))
  BY DEF LastAccepted
<1>3. /\ r.seq - r.cemi \in Int /\ gateway.expected - (a + 1) \in Int
      /\ seq - Index \in Int
  BY Ranges
<1> QED BY <1>1, <1>2, <1>3, MultipleShift

(* A request that is not for the open channel, or out of order.            *)
LEMMA DiscardedInv ==
    ASSUME Inv, NEW r \in BagToSet(requests), requests' = requests (-) SetToBag({r}),
           UNCHANGED <<sendVars, connVars, acks, gateway, bus, foreign>>
    PROVE  Inv'
<1>1. Fewer(requests', requests) /\ Fewer(acks', acks)
  BY FewerBags, GatewayTyped
<1>2. UNCHANGED <<pc, channel, opened, reconnect, user>> /\ GatewayKeeps
  BY DEF sendVars, connVars, GatewayKeeps
<1>3. Channels'
  BY <1>2 DEF Inv, Channels
<1>4. Gap' = Gap /\ Gap \in {1, 2, 3}
  BY <1>2 DEF Gap
<1>5. Gap' >= Gap
  BY <1>4
<1> QED BY <1>1, <1>2, <1>3, <1>5, GatewayTyped, PassiveInv

(* What both answers of the gateway have in common: the frame of the       *)
(* request is the last one accepted.                                       *)
LEMMA Answered ==
    ASSUME Inv, NEW r \in BagToSet(requests), r.channel = gateway.channel,
           requests' = requests (-) SetToBag({r}), acks' = acks (+) Ack(r),
           UNCHANGED <<sendVars, connVars, foreign>>, gateway'.channel = gateway.channel,
           OnBus(r.cemi)', \A n \in Nat : OnBus(n) => OnBus(n)'
    PROVE  /\ Datagrams' /\ AcksKnown' /\ BagToSet(requests') \subseteq BagToSet(requests)
           /\ BagToSet(acks') = BagToSet(acks) \cup {r}
<1>1. Fewer(requests', requests) /\ BagToSet(requests') \subseteq BagToSet(requests)
  BY FewerBags, GatewayTyped DEF Fewer
<1>2. IsABag(acks') /\ BagToSet(acks') = BagToSet(acks) \cup {r}
  <2>1. acks' = acks (+) SetToBag({r}) /\ IsABag(acks)
    BY GatewayTyped DEF Ack
  <2> QED BY <2>1, BagAdd
<1>3. Datagrams'
  BY <1>1, <1>2 DEF Fewer, Inv, Datagrams
<1>4. UNCHANGED <<seq, current>> /\ Index' = Index
  BY DEF sendVars, Index
<1>5. AcksKnown'
  <2> SUFFICES ASSUME NEW k \in BagToSet(acks) \cup {r}
               PROVE  /\ k.cemi <= current /\ current - k.cemi <= SeqMod - 4
                      /\ Multiple((k.seq - k.cemi) - (seq - Index)) /\ OnBus(k.cemi)'
    BY <1>2, <1>4 DEF AcksKnown
  <2>1. CASE k \in BagToSet(acks)
    BY <2>1, Ranges DEF Inv, AcksKnown
  <2>2. CASE k = r
    BY <2>2 DEF Inv, RequestsKnown
  <2> QED BY <2>1, <2>2
<1> QED BY <1>1, <1>2, <1>3, <1>5

LEMMA BusAppended ==
    ASSUME Inv, NEW c \in Nat, NEW n \in Nat,
           bus' = Append(bus, [channel |-> c, cemi |-> n])
    PROVE  /\ bus' \in Seq([channel : Nat, cemi : Nat]) /\ Len(bus') = Len(bus) + 1
           /\ \A i \in 1..Len(bus') :
                \/ i \in 1..Len(bus) /\ bus'[i] = bus[i]
                \/ i = Len(bus) + 1 /\ bus'[i].channel = c /\ bus'[i].cemi = n
           /\ \A m : OnBus(m)' <=> OnBus(m) \/ m = n
<1>1. bus \in Seq([channel : Nat, cemi : Nat]) /\ Len(bus) \in Nat
      /\ [channel |-> c, cemi |-> n] \in [channel : Nat, cemi : Nat]
  BY Ranges DEF Inv, Typed
<1>2. /\ bus' \in Seq([channel : Nat, cemi : Nat]) /\ Len(bus') = Len(bus) + 1
      /\ \A i \in 1..Len(bus) : bus'[i] = bus[i]
      /\ bus'[Len(bus) + 1] = [channel |-> c, cemi |-> n]
  BY <1>1, AppendProperties
<1>3. \A i \in 1..Len(bus') : i \in 1..Len(bus) \/ i = Len(bus) + 1
  BY <1>1, <1>2
<1>4. /\ \A i \in 1..Len(bus) : i \in 1..Len(bus')
      /\ Len(bus) + 1 \in 1..Len(bus')
  BY <1>1, <1>2
<1>5. \A i \in 1..Len(bus') :
        \/ i \in 1..Len(bus) /\ bus'[i] = bus[i]
        \/ i = Len(bus) + 1 /\ bus'[i].channel = c /\ bus'[i].cemi = n
  BY <1>2, <1>3
<1>6. \A m : OnBus(m)' <=> OnBus(m) \/ m = n
  <2> SUFFICES ASSUME NEW m
               PROVE  (\E i \in 1..Len(bus') : bus'[i].cemi = m)
                        <=> (\E i \in 1..Len(bus) : bus[i].cemi = m) \/ m = n
    BY DEF OnBus
  <2>1. bus'[Len(bus) + 1].cemi = n
    BY <1>2
  <2> QED BY <1>2, <1>4, <1>5, <2>1
<1> QED BY <1>2, <1>5, <1>6

(* An accepted frame comes after every other one of its channel.           *)
LEMMA AcceptedInv ==
    ASSUME Inv, NEW r \in BagToSet(requests), r.channel = gateway.channel,
           r.seq = gateway.expected, requests' = requests (-) SetToBag({r}),
           bus' = Append(bus, [channel |-> r.channel, cemi |-> r.cemi]),
           gateway' = [gateway EXCEPT !.expected = (@ + 1) % SeqMod],
           acks' = acks (+) Ack(r), UNCHANGED <<sendVars, connVars, foreign>>
    PROVE  Inv'
<1>1. /\ UNCHANGED <<pc, current, seq, result, channel, opened, reconnect, user, foreign>>
      /\ Index' = Index /\ Gap' = Gap
  BY DEF sendVars, connVars, Index, Gap
<1>2. /\ r.channel \in Nat /\ r.channel > 0 /\ r.cemi \in Nat /\ r.cemi <= current
      /\ current - r.cemi <= SeqMod - 4 /\ r.channel = opened
      /\ \A i \in 1..Len(bus) : bus[i].channel < r.channel => bus[i].cemi <= r.cemi
  <2>1. r.channel \in Nat /\ r.channel > 0 /\ r.cemi \in Nat
    BY Ranges
  <2>2. gateway.channel = channel /\ channel \in {0, opened}
    BY <2>1 DEF Inv, Channels, Typed
  <2> QED BY <2>1, <2>2 DEF Inv, RequestsKnown
<1>0. /\ SeqMod \in Int /\ current \in Int /\ seq \in Int /\ Index \in Int
      /\ r.seq \in Int /\ gateway.expected \in Int
  BY Ranges
<1>3. /\ bus' \in Seq([channel : Nat, cemi : Nat]) /\ Len(bus') = Len(bus) + 1
      /\ \A i \in 1..Len(bus') :
           \/ i \in 1..Len(bus) /\ bus'[i] = bus[i]
           \/ i = Len(bus) + 1 /\ bus'[i].channel = r.channel /\ bus'[i].cemi = r.cemi
      /\ \A m : OnBus(m)' <=> OnBus(m) \/ m = r.cemi
  BY <1>2, BusAppended
<1>4. /\ gateway'.channel = gateway.channel /\ gateway' \in [channel : Nat, expected : 0..(SeqMod - 1)]
      /\ gateway'.expected \in Int /\ Multiple(gateway'.expected - (gateway.expected + 1))
  <2>1. /\ gateway'.channel = gateway.channel /\ gateway \in [channel : Nat, expected : 0..(SeqMod - 1)]
        /\ gateway'.expected = (gateway.expected + 1) % SeqMod
    BY GatewayTyped
  <2>2. /\ gateway'.expected \in 0..(SeqMod - 1)
        /\ Multiple(gateway'.expected - (gateway.expected + 1))
    BY <2>1, Ranges, Successor
  <2>3. gateway' \in [channel : Nat, expected : 0..(SeqMod - 1)]
    BY <2>1, <2>2
  <2>4. gateway'.expected \in Int
    BY <2>2, Ranges
  <2> QED BY <2>1, <2>2, <2>3, <2>4
<1>5. PICK a \in Nat : a <= current /\ LastAccepted(a)
  BY <1>2 DEF Inv, GatewayKnown
<1>6. a < r.cemi
  <2>1. Multiple((r.seq - r.cemi) - (gateway.expected - (a + 1)))
    BY <1>5, Position
  <2>2. (r.seq - r.cemi) - (gateway.expected - (a + 1)) = (a + 1) - r.cemi
    <3>1. gateway.expected = r.seq /\ a \in Int /\ r.cemi \in Int
      BY <1>2, <1>5
    <3> QED BY <1>0, <3>1
  <2>3. (a + 1) - r.cemi \in Int /\ (a + 1) - r.cemi < SeqMod
    BY <1>0, <1>2, <1>5
  <2>4. CASE (a + 1) - r.cemi > 0
    <3>1. -SeqMod < (a + 1) - r.cemi
      BY <2>3, <2>4, Ranges
    <3>2. (a + 1) - r.cemi = 0
      BY <2>1, <2>2, <2>3, <3>1, MultipleSmall
    <3> QED BY <2>4, <3>2
  <2>5. CASE ~((a + 1) - r.cemi > 0)
    BY <1>2, <2>5
  <2> QED BY <2>4, <2>5
<1>7. \A i \in 1..Len(bus) : /\ bus[i].channel \in Nat /\ bus[i].cemi \in Nat
                             /\ bus[i].channel <= opened /\ bus[i].cemi <= current
                             /\ bus[i].channel = r.channel => bus[i].cemi <= a
  BY <1>5, Ranges DEF LastAccepted, Inv, BusKnown
<1>8. /\ Datagrams' /\ AcksKnown' /\ BagToSet(requests') \subseteq BagToSet(requests)
      /\ BagToSet(acks') = BagToSet(acks) \cup {r}
  BY <1>2, <1>3, <1>4, Answered
<1>9. Typed' /\ Channels'
  <2>1. Typed'
    BY <1>1, <1>3, <1>4 DEF Inv, Typed
  <2>2. Channels'
    BY <1>1, <1>2, <1>4 DEF Inv, Channels
  <2> QED BY <2>1, <2>2
<1>10. BusKnown'
  BY <1>1, <1>2, <1>3, <1>7 DEF BusKnown
<1>11. RequestsKnown'
  <2> SUFFICES ASSUME NEW s \in BagToSet(requests)
               PROVE  /\ s.channel <= opened /\ s.cemi <= current
                      /\ current - s.cemi <= SeqMod - 4
                      /\ s.channel = gateway.channel => Multiple((s.seq - s.cemi) - (seq - Index))
                      /\ \A i \in 1..Len(bus') : bus'[i].channel < s.channel => bus'[i].cemi <= s.cemi
    BY <1>1, <1>4, <1>8 DEF RequestsKnown
  <2>1. /\ s.channel <= opened /\ s.cemi <= current /\ current - s.cemi <= SeqMod - 4
        /\ s.channel = gateway.channel => Multiple((s.seq - s.cemi) - (seq - Index))
        /\ \A i \in 1..Len(bus) : bus[i].channel < s.channel => bus[i].cemi <= s.cemi
    BY DEF Inv, RequestsKnown
  <2>2. ~(r.channel < s.channel)
    BY <1>2, <2>1, Ranges
  <2>3. ASSUME NEW i \in 1..Len(bus'), bus'[i].channel < s.channel
        PROVE  bus'[i].cemi <= s.cemi
    BY <1>3, <2>1, <2>2, <2>3
  <2> QED BY <2>1, <2>3
<1>12. BusInOrder'
  <2> SUFFICES ASSUME NEW i \in 1..Len(bus'), NEW j \in 1..Len(bus'), i < j
               PROVE  \/ bus'[i].cemi < bus'[j].cemi
                      \/ bus'[i].cemi = bus'[j].cemi /\ bus'[i].channel < bus'[j].channel
    BY DEF BusInOrder
  <2>1. Len(bus) \in Nat /\ Len(bus') = Len(bus) + 1
    BY <1>3, Ranges
  <2>2. CASE j \in 1..Len(bus) /\ bus'[j] = bus[j]
    <3>1. i \in 1..Len(bus) /\ bus'[i] = bus[i]
      BY <1>3, <2>1, <2>2
    <3> QED BY <2>2, <3>1 DEF Inv, BusInOrder
  <2>3. CASE j = Len(bus) + 1 /\ bus'[j].channel = r.channel /\ bus'[j].cemi = r.cemi
    <3>1. i \in 1..Len(bus) /\ bus'[i] = bus[i]
      BY <1>3, <2>1, <2>3
    <3>2. /\ bus[i].channel \in Nat /\ bus[i].cemi \in Nat /\ bus[i].channel <= opened
          /\ bus[i].channel = r.channel => bus[i].cemi <= a
          /\ bus[i].channel < r.channel => bus[i].cemi <= r.cemi
      BY <1>2, <1>7, <3>1
    <3>3. \/ bus[i].cemi < r.cemi
          \/ bus[i].cemi = r.cemi /\ bus[i].channel < r.channel
      BY <1>2, <1>6, <3>2
    <3> QED BY <2>3, <3>1, <3>3
  <2> QED BY <1>3, <2>2, <2>3
<1>13. GatewayKnown'
  <2>1. PICK b \in Nat : b = r.cemi
    BY <1>2
  <2>2. \A i \in 1..Len(bus') : bus'[i].channel = gateway'.channel => bus'[i].cemi <= b
    <3>1. \A i \in 1..Len(bus) : bus[i].channel = r.channel => bus[i].cemi <= r.cemi
      BY <1>2, <1>6, <1>7
    <3> QED BY <1>2, <1>3, <1>4, <2>1, <3>1
  <2>3. OnBus(b)'
    BY <1>3, <2>1
  <2>4. Multiple((gateway'.expected - (b + 1)) - (seq' - Index'))
    <3>1. Multiple((r.seq - r.cemi) - (seq - Index))
      BY DEF Inv, RequestsKnown
    <3>2. seq - Index \in Int /\ r.seq \in Int /\ r.cemi \in Int
      BY <1>0, <1>2
    <3>3. Multiple((gateway'.expected - (r.cemi + 1)) - (seq - Index))
      BY <1>4, <3>1, <3>2, MultipleNext
    <3> QED BY <1>1, <2>1, <3>3
  <2>5. Ahead(b)' /\ AcksUpTo(b)'
    <3>1. Index - a <= (SeqMod - 4) + Gap /\ Gap \in {1, 2, 3}
      BY <1>5 DEF LastAccepted, Ahead, Gap
    <3>2. \A g \in {1, 2, 3} : Index - a <= (SeqMod - 4) + g => Index - b <= (SeqMod - 4) + g
      BY <1>0, <1>5, <1>6, <2>1
    <3>3. Ahead(b)'
      BY <1>1, <3>1, <3>2 DEF Ahead
    <3>4. \A k \in BagToSet(acks) : k.cemi \in Nat /\ k.cemi <= a
      BY <1>5, Ranges DEF LastAccepted, AcksUpTo
    <3>5. \A k \in BagToSet(acks) \cup {r} : k.cemi <= b
      BY <1>2, <1>5, <1>6, <2>1, <3>4
    <3> QED BY <1>8, <3>3, <3>5 DEF AcksUpTo
  <2>6. LastAccepted(b)'
    BY <2>2, <2>3, <2>4, <2>5 DEF LastAccepted
  <2> QED BY <1>1, <1>2, <2>1, <2>6 DEF GatewayKnown
<1>14. Results' /\ ConfirmedOnBus'
  <2>1. "failed" \in {"ok", "failed", "dropped"}
    OBVIOUS
  <2> QED BY <1>1, <1>3, <2>1, ResultStep
<1> QED BY <1>8, <1>9, <1>10, <1>11, <1>12, <1>13, <1>14 DEF Inv

(* The counter before the expected one is a repetition of the last frame   *)
(* that was accepted: the gap is shorter than the counter's cycle.         *)
LEMMA RepeatedInv ==
    ASSUME Inv, NEW r \in BagToSet(requests), r.channel = gateway.channel,
           (r.seq + 1) % SeqMod = gateway.expected, requests' = requests (-) SetToBag({r}),
           acks' = acks (+) Ack(r), UNCHANGED <<sendVars, connVars, gateway, bus, foreign>>
    PROVE  Inv'
<1>1. /\ UNCHANGED <<pc, current, seq, result, channel, opened, reconnect, user, foreign, gateway, bus>>
      /\ Index' = Index /\ Gap' = Gap /\ \A n : OnBus(n)' = OnBus(n)
  BY DEF sendVars, connVars, Index, Gap, OnBus
<1>2. /\ SeqMod \in Int /\ SeqMod >= 4 /\ current \in Int /\ gateway.expected \in Int
      /\ r.seq \in 0..(SeqMod - 1) /\ r.seq \in Int /\ r.cemi \in Int /\ gateway.channel # 0
  BY Ranges
<1>3. PICK a \in Nat : a <= current /\ LastAccepted(a)
  BY <1>2 DEF Inv, GatewayKnown
<1>4. /\ r.cemi <= current /\ current - r.cemi <= SeqMod - 4
      /\ Index \in {current, current + 1} /\ Index - a <= SeqMod - 1
  <2>1. Index - a <= (SeqMod - 4) + Gap /\ Gap \in {1, 2, 3}
    BY <1>3 DEF LastAccepted, Ahead, Gap
  <2>2. Index - a <= SeqMod - 1
    <3>1. \A g \in {1, 2, 3} : Index - a <= (SeqMod - 4) + g => Index - a <= SeqMod - 1
      BY <1>2, <1>3, Ranges
    <3> QED BY <2>1, <3>1
  <2>3. Index \in {current, current + 1}
    BY DEF Index
  <2> QED BY <2>2, <2>3 DEF Inv, RequestsKnown
<1>5. a = r.cemi /\ OnBus(a)
  <2>1. Multiple((r.seq - r.cemi) - (gateway.expected - (a + 1)))
    BY <1>3, Position
  <2>2. Multiple(gateway.expected - (r.seq + 1))
    BY <1>2, Successor
  <2>3. Multiple(((r.seq - r.cemi) - (gateway.expected - (a + 1))) + (gateway.expected - (r.seq + 1)))
    <3>1. /\ (r.seq - r.cemi) - (gateway.expected - (a + 1)) \in Int
          /\ gateway.expected - (r.seq + 1) \in Int
      BY <1>2, <1>3
    <3> QED BY <2>1, <2>2, <3>1, MultipleSum
  <2>4. ((r.seq - r.cemi) - (gateway.expected - (a + 1))) + (gateway.expected - (r.seq + 1))
          = a - r.cemi
    BY <1>2, <1>3
  <2>5. a - r.cemi \in Int /\ -SeqMod < a - r.cemi /\ a - r.cemi < SeqMod
    BY <1>2, <1>3, <1>4
  <2>6. a - r.cemi = 0
    BY <2>3, <2>4, <2>5, MultipleSmall
  <2>7. a = r.cemi
    BY <1>2, <1>3, <2>6
  <2>8. ~(r.cemi > a)
    BY <1>2, <2>7
  <2> QED BY <1>3, <2>7, <2>8 DEF LastAccepted
<1>6. /\ Datagrams' /\ AcksKnown' /\ BagToSet(requests') \subseteq BagToSet(requests)
      /\ BagToSet(acks') = BagToSet(acks) \cup {r}
  BY <1>1, <1>5, Answered
<1>7. Typed' /\ Channels'
  BY <1>1, <1>2 DEF Inv, Typed, Channels
<1>8. RequestsKnown' /\ BusKnown' /\ BusInOrder'
  BY <1>1, <1>6 DEF Inv, RequestsKnown, BusKnown, BusInOrder
<1>9. GatewayKnown'
  <2>1. LastAccepted(a)'
    <3>1. Ahead(a)'
      BY <1>1, <1>3 DEF LastAccepted, Ahead
    <3>2. AcksUpTo(a)'
      BY <1>2, <1>3, <1>5, <1>6 DEF LastAccepted, AcksUpTo
    <3>3. OnBus(a)'
      BY <1>1, <1>5 DEF OnBus
    <3> QED BY <1>1, <1>3, <3>1, <3>2, <3>3 DEF LastAccepted
  <2> QED BY <1>1, <1>3, <2>1 DEF GatewayKnown
<1>10. Results' /\ ConfirmedOnBus'
  <2>1. "failed" \in {"ok", "failed", "dropped"}
    OBVIOUS
  <2> QED BY <1>1, <2>1, ResultStep
<1> QED BY <1>6, <1>7, <1>8, <1>9, <1>10 DEF Inv

LEMMA GatewayReceivesInv ==
    ASSUME Inv, NEW r \in BagToSet(requests), GatewayReceives(r)
    PROVE  Inv'
<1>1. requests' = requests (-) SetToBag({r}) /\ UNCHANGED <<sendVars, connVars, foreign>>
  BY DEF GatewayReceives
<1>2. CASE r.channel # gateway.channel
  BY <1>1, <1>2, DiscardedInv DEF GatewayReceives
<1>3. CASE r.channel = gateway.channel
  <2>1. CASE r.seq = gateway.expected /\ acks' = acks (+) Ack(r)
             /\ bus' = Append(bus, [channel |-> r.channel, cemi |-> r.cemi])
             /\ gateway' = [gateway EXCEPT !.expected = (@ + 1) % SeqMod]
    BY <1>1, <1>3, <2>1, AcceptedInv
  <2>2. CASE /\ (r.seq + 1) % SeqMod = gateway.expected /\ acks' = acks (+) Ack(r)
             /\ UNCHANGED <<gateway, bus>>
    BY <1>1, <1>3, <2>2, RepeatedInv
  <2>3. CASE UNCHANGED <<acks, gateway, bus>>
    BY <1>1, <2>3, DiscardedInv
  <2> QED BY <1>3, <2>1, <2>2, <2>3 DEF GatewayReceives
<1> QED BY <1>2, <1>3

LEMMA StutterInv ==
    ASSUME Inv, UNCHANGED vars
    PROVE  Inv'
<1>1. UNCHANGED <<sendVars, connVars, bus, foreign, gateway, requests, acks>>
  BY DEF vars, sendVars, connVars
<1>2. UNCHANGED <<pc, channel, opened, reconnect, user>> /\ GatewayKeeps
  BY <1>1 DEF sendVars, connVars, GatewayKeeps
<1>3. Channels' /\ Fewer(requests', requests) /\ Fewer(acks', acks)
  BY <1>1, <1>2, FewerBags, GatewayTyped DEF Inv, Channels
<1>4. Gap' = Gap /\ Gap \in {1, 2, 3}
  BY <1>2 DEF Gap
<1>5. Gap' >= Gap
  BY <1>4
<1> QED BY <1>1, <1>2, <1>3, <1>5, GatewayTyped, PassiveInv

LEMMA NextInv == Inv /\ [Next]_vars => Inv'
<1> SUFFICES ASSUME Inv, [Next]_vars
             PROVE  Inv'
  OBVIOUS
<1>1. CASE SendBegin
  BY <1>1, SendBeginInv
<1>2. CASE Sender
  BY <1>2, SendAgainInv, SendLostInv, SendFailsInv DEF Sender
<1>3. CASE TunnelLost
  BY <1>3, TunnelLostInv
<1>4. CASE GatewayDisconnects \/ ReconnectClosed \/ Disconnected
  BY <1>4, ClosingInv
<1>5. CASE Reconnected
  BY <1>5, ReconnectedInv
<1>6. CASE Disconnect
  BY <1>6, DisconnectInv
<1>7. CASE ReconnectCancelled
  BY <1>7, ReconnectCancelledInv
<1>8. CASE Deliver
  BY <1>8, GatewayReceivesInv, SendConfirmedInv, DatagramsInv DEF Deliver
<1>9. CASE Lose
  BY <1>9, DatagramsInv DEF Lose
<1>10. CASE UNCHANGED vars
  BY <1>10, StutterInv
<1> QED BY <1>1, <1>2, <1>3, <1>4, <1>5, <1>6, <1>7, <1>8, <1>9, <1>10 DEF Next

-----------------------------------------------------------------------------

LEMMA Invariant == Spec => []Inv
<1>1. Init => Inv
  BY InitInv
<1>2. Inv /\ [Next]_vars => Inv'
  BY NextInv
<1> QED BY <1>1, <1>2, PTL DEF Spec

(* The gateway puts the frames that send_cemi sends on the bus in their    *)
(* order, and a repetition gets through twice only over a new channel:     *)
(* however long the sequence counters run and whatever datagrams are lost  *)
(* or overtaken, as long as none is older than SeqMod - 4 frames.          *)
THEOREM FramesInOrder == Spec => []BusInOrder
<1>1. Inv => BusInOrder
  BY DEF Inv
<1> QED BY <1>1, Invariant, PTL

(* A frame for which send_cemi returned is on the bus if the ACK that      *)
(* confirmed it carries the counter of the request, however late it came:  *)
(* only the ACK of another request, which the code does not tell apart,    *)
(* can confirm a frame that the gateway has not accepted.                  *)
THEOREM ConfirmedFramesOnBus == Spec => []ConfirmedOnBus
<1>1. Inv => ConfirmedOnBus
  BY DEF Inv
<1> QED BY <1>1, Invariant, PTL

-----------------------------------------------------------------------------
(* The types.                                                              *)

SendTyped ==
    /\ pc \in {"idle", "ready", "first", "second", "lost", "third"}
    /\ current \in 0..MaxFrames
    /\ seq \in 0..(SeqMod - 1)
    /\ result \in Seq({"ok", "failed", "dropped"})

ConnTyped ==
    /\ channel \in 0..MaxChannels /\ opened \in 1..MaxChannels
    /\ open \in BOOLEAN
    /\ reconnect \in {"None", "closing", "opening", "cancelled"}
    /\ user \in {"up", "closing", "down"}
    /\ gateway \in [channel : 0..MaxChannels, expected : 0..(SeqMod - 1)]

NetTyped ==
    /\ BagToSet(requests) \subseteq Requests
    /\ BagToSet(acks) \subseteq Acks
    /\ bus \in Seq([channel : 1..MaxChannels, cemi : 1..MaxFrames])

CountsTyped ==
    faults \in 0..MaxFaults /\ auto_reconnect \in BOOLEAN /\ foreign \subseteq 1..MaxFrames

AllTyped == SendTyped /\ ConnTyped /\ NetTyped /\ CountsTyped

LEMMA FaultTyped == CountsTyped /\ Fault => faults' \in 0..MaxFaults
BY ConstantsAssumption DEF CountsTyped, Fault

LEMMA TimedOutTyped ==
    CountsTyped /\ TimedOut /\ UNCHANGED <<foreign, auto_reconnect>> => CountsTyped'
BY FaultTyped DEF CountsTyped, TimedOut

LEMMA EndTyped ==
    ASSUME SendTyped, NEW how \in {"ok", "failed", "dropped"}, End(how), UNCHANGED current
    PROVE  SendTyped'
<1>1. (seq + 1) % SeqMod \in 0..(SeqMod - 1)
  BY ConstantsAssumption DEF SendTyped
<1>2. Append(result, how) \in Seq({"ok", "failed", "dropped"})
  BY DEF SendTyped
<1> QED BY <1>1, <1>2 DEF End, SendTyped

LEMMA RequestTyped ==
    ASSUME SendTyped, ConnTyped, NetTyped, IsABag(requests),
           NEW cemi \in 1..MaxFrames, NEW next \in {"first", "second", "third"},
           Request(cemi, next), current' = cemi, UNCHANGED <<acks, bus>>
    PROVE  SendTyped' /\ NetTyped'
<1>0. current' \in 0..MaxFrames
  BY ConstantsAssumption
<1>1. CASE channel = 0
  <2>1. PICK how \in {"ok", "failed", "dropped"} : End(how)
    BY <1>1 DEF Request
  <2>2. (seq + 1) % SeqMod \in 0..(SeqMod - 1)
    BY ConstantsAssumption DEF SendTyped
  <2>3. Append(result, how) \in Seq({"ok", "failed", "dropped"})
    BY DEF SendTyped
  <2>4. SendTyped'
    BY <1>0, <2>1, <2>2, <2>3 DEF End, SendTyped
  <2> QED BY <1>1, <2>4 DEF Request, NetTyped
<1>2. CASE channel # 0
  <2> DEFINE r == [channel |-> channel, seq |-> seq, cemi |-> cemi]
  <2>1. r \in Requests
    BY <1>2, ConstantsAssumption DEF Requests, SendTyped, ConnTyped
  <2>2. requests' = requests \/ requests' = requests (+) SetToBag({r})
    BY <1>2 DEF Request
  <2> HIDE DEF r
  <2>3. BagToSet(requests (+) SetToBag({r})) = BagToSet(requests) \cup {r}
    BY BagAdd
  <2>4. BagToSet(requests') \subseteq Requests
    BY <2>1, <2>2, <2>3 DEF NetTyped
  <2>5. pc' = next /\ UNCHANGED <<seq, result>>
    BY <1>2 DEF Request
  <2> QED BY <1>0, <2>4, <2>5 DEF SendTyped, NetTyped
<1> QED BY <1>1, <1>2

(* A socket that is closed, or a datagram that arrives or is lost, leaves  *)
(* fewer datagrams.                                                        *)
LEMMA TakenTyped ==
    ASSUME Datagrams, NetTyped
    PROVE  /\ BagToSet(EmptyBag) \subseteq Acks
           /\ \A r \in BagToSet(requests) : BagToSet(requests (-) SetToBag({r})) \subseteq Requests
           /\ \A a \in BagToSet(acks) : BagToSet(acks (-) SetToBag({a})) \subseteq Acks
<1>1. BagToSet(EmptyBag) \subseteq Acks
  BY BagEmpty
<1>2. ASSUME NEW r \in BagToSet(requests)
      PROVE  BagToSet(requests (-) SetToBag({r})) \subseteq Requests
  BY BagRemove DEF Datagrams, NetTyped
<1>3. ASSUME NEW a \in BagToSet(acks)
      PROVE  BagToSet(acks (-) SetToBag({a})) \subseteq Acks
  BY BagRemove DEF Datagrams, NetTyped
<1> QED BY <1>1, <1>2, <1>3

LEMMA GatewayClosedTyped ==
    ConnTyped => [gateway EXCEPT !.channel = 0]
                    \in [channel : 0..MaxChannels, expected : 0..(SeqMod - 1)]
BY ConstantsAssumption DEF ConnTyped

LEMMA LostTyped ==
    ASSUME ConnTyped, NetTyped, Datagrams, Lost,
           UNCHANGED <<channel, opened, user, requests, bus>>
    PROVE  ConnTyped' /\ NetTyped'
<1>1. CASE auto_reconnect
  BY <1>1 DEF Lost, ConnTyped, NetTyped
<1>2. CASE ~auto_reconnect
  BY <1>2, GatewayClosedTyped, TakenTyped DEF Lost, ConnTyped, NetTyped
<1> QED BY <1>1, <1>2

LEMMA SenderTyped == Inv /\ AllTyped /\ (SendBegin \/ Sender) => AllTyped'
<1> SUFFICES ASSUME Inv, AllTyped, SendBegin \/ Sender
             PROVE  AllTyped'
  OBVIOUS
<1> USE DEF AllTyped
<1>0. IsABag(requests) /\ Datagrams
  BY DEF Inv, Datagrams
<1>1. pc # "idle" => current \in 1..MaxFrames
  BY DEF Inv, Typed, SendTyped
<1>2. CASE SendBegin
  <2>1. current + 1 \in 1..MaxFrames /\ current + 1 \in 0..MaxFrames
    BY <1>2, ConstantsAssumption DEF SendBegin, SendTyped
  <2>2. CASE reconnect # "None"
    BY <1>2, <2>1, <2>2 DEF SendBegin, SendTyped, ConnTyped, NetTyped, CountsTyped, connVars
  <2>3. CASE reconnect = "None"
    <3>1. SendTyped' /\ NetTyped'
      BY <1>0, <1>2, <2>1, <2>3, RequestTyped DEF SendBegin
    <3> QED BY <1>2, <3>1 DEF SendBegin, ConnTyped, CountsTyped, connVars
  <2> QED BY <2>2, <2>3
<1>3. CASE SendReady \/ SendThird
  <2>1. SendTyped' /\ NetTyped'
    BY <1>0, <1>1, <1>3, RequestTyped DEF SendReady, SendThird
  <2> QED BY <1>3, <2>1 DEF SendReady, SendThird, ConnTyped, CountsTyped, connVars
<1>4. CASE SendSecond
  <2>1. SendTyped' /\ NetTyped'
    BY <1>0, <1>1, <1>4, RequestTyped DEF SendSecond
  <2> QED BY <1>4, <2>1, TimedOutTyped DEF SendSecond, ConnTyped, connVars
<1>5. CASE SendLost
  <2>1. ConnTyped' /\ NetTyped'
    BY <1>0, <1>5, LostTyped DEF SendLost
  <2>2. SendTyped'
    BY <1>5, EndTyped DEF SendLost, SendTyped
  <2> QED BY <1>5, <2>1, <2>2, TimedOutTyped DEF SendLost
<1>6. CASE SendFails
  <2>1. SendTyped'
    BY <1>6, EndTyped DEF SendFails
  <2> QED BY <1>6, <2>1, TimedOutTyped DEF SendFails, ConnTyped, NetTyped, connVars, netVars
<1> QED BY <1>2, <1>3, <1>4, <1>5, <1>6 DEF Sender

LEMMA ClosedTyped ==
    ASSUME ConnTyped, NetTyped, Datagrams, Closed, UNCHANGED <<opened, requests, bus>>,
           reconnect' \in {"None", "closing", "opening", "cancelled"}
    PROVE  ConnTyped' /\ NetTyped'
<1>1. 0 \in 0..MaxChannels
  BY ConstantsAssumption
<1> QED BY <1>1, GatewayClosedTyped, TakenTyped DEF Closed, ConnTyped, NetTyped

LEMMA ConnectionTyped ==
    /\ Inv /\ AllTyped
    /\ \/ TunnelLost \/ GatewayDisconnects \/ ReconnectClosed \/ Reconnected
       \/ Disconnect \/ Disconnected \/ ReconnectCancelled
    => AllTyped'
<1> SUFFICES ASSUME Inv, AllTyped,
                    \/ TunnelLost \/ GatewayDisconnects \/ ReconnectClosed \/ Reconnected
                    \/ Disconnect \/ Disconnected \/ ReconnectCancelled
             PROVE  AllTyped'
  OBVIOUS
<1> USE DEF AllTyped
<1>0. Datagrams /\ 0 \in 0..MaxChannels /\ 0 \in 0..(SeqMod - 1)
  BY ConstantsAssumption DEF Inv
<1>1. CASE TunnelLost
  <2>1. ConnTyped' /\ NetTyped'
    BY <1>0, <1>1, LostTyped DEF TunnelLost
  <2> QED BY <1>1, <2>1, FaultTyped DEF TunnelLost, SendTyped, CountsTyped, sendVars
<1>2. CASE GatewayDisconnects
  <2>1. ConnTyped' /\ NetTyped'
    BY <1>0, <1>2, GatewayClosedTyped, TakenTyped DEF GatewayDisconnects, ConnTyped, NetTyped
  <2> QED BY <1>2, <2>1, FaultTyped DEF GatewayDisconnects, SendTyped, CountsTyped, sendVars
<1>3. CASE ReconnectClosed
  <2>1. ConnTyped' /\ NetTyped'
    BY <1>0, <1>3, GatewayClosedTyped, TakenTyped DEF ReconnectClosed, ConnTyped, NetTyped
  <2> QED BY <1>3, <2>1 DEF ReconnectClosed, SendTyped, CountsTyped, sendVars
<1>4. CASE Reconnected
  <2>1. opened + 1 \in 1..MaxChannels /\ opened + 1 \in 0..MaxChannels
    BY <1>4, ConstantsAssumption DEF Reconnected, ConnTyped
  <2>2. ConnTyped'
    BY <1>0, <1>4, <2>1 DEF Reconnected, ConnTyped
  <2> QED BY <1>0, <1>4, <2>2 DEF Reconnected, SendTyped, NetTyped, CountsTyped
<1>5. CASE Disconnect
  <2>1. reconnect' \in {"None", "closing", "opening", "cancelled"}
    BY <1>5 DEF Disconnect
  <2>2. ConnTyped' /\ NetTyped'
    BY <1>0, <1>5, <2>1, ClosedTyped DEF Disconnect, ConnTyped, NetTyped
  <2> QED BY <1>5, <2>2 DEF Disconnect, SendTyped, CountsTyped, sendVars
<1>6. CASE Disconnected
  <2>1. ConnTyped' /\ NetTyped'
    BY <1>0, <1>6, ClosedTyped DEF Disconnected, ConnTyped
  <2> QED BY <1>6, <2>1 DEF Disconnected, SendTyped, CountsTyped, sendVars
<1>7. CASE ReconnectCancelled
  <2>1. SendTyped'
    BY <1>7, EndTyped DEF ReconnectCancelled, SendTyped
  <2> QED BY <1>7, <2>1 DEF ReconnectCancelled, ConnTyped, NetTyped, CountsTyped, netVars
<1> QED BY <1>1, <1>2, <1>3, <1>4, <1>5, <1>6, <1>7

LEMMA GatewayReceivesTyped ==
    ASSUME Inv, AllTyped, NEW r \in BagToSet(requests), GatewayReceives(r)
    PROVE  AllTyped'
<1> USE DEF AllTyped
<1>0. Datagrams /\ IsABag(acks) /\ r \in Requests
  BY DEF Inv, Datagrams, NetTyped
<1>1. r \in Acks /\ [channel |-> r.channel, cemi |-> r.cemi]
                        \in [channel : 1..MaxChannels, cemi : 1..MaxFrames]
  BY <1>0 DEF Requests, Acks
<1>2. acks' \in {acks, acks (+) SetToBag({r})}
  BY DEF GatewayReceives, Ack
<1>3. bus' \in {bus, Append(bus, [channel |-> r.channel, cemi |-> r.cemi])}
  BY DEF GatewayReceives
<1>4. gateway' \in {gateway, [gateway EXCEPT !.expected = (@ + 1) % SeqMod]}
  BY DEF GatewayReceives
<1>5. BagToSet(acks (+) SetToBag({r})) = BagToSet(acks) \cup {r}
  BY <1>0, BagAdd
<1>6. BagToSet(requests') \subseteq Requests
  BY <1>0, TakenTyped DEF GatewayReceives
<1>7. BagToSet(acks') \subseteq Acks
  BY <1>1, <1>2, <1>5 DEF NetTyped
<1>8. bus' \in Seq([channel : 1..MaxChannels, cemi : 1..MaxFrames])
  <2> DEFINE S == [channel : 1..MaxChannels, cemi : 1..MaxFrames]
             e == [channel |-> r.channel, cemi |-> r.cemi]
  <2>1. e \in S /\ bus \in Seq(S) /\ bus' \in {bus, Append(bus, e)}
    BY <1>1, <1>3 DEF NetTyped
  <2> HIDE DEF S, e
  <2>2. bus' \in Seq(S)
    BY <2>1
  <2> QED BY <2>2 DEF S
<1>9. gateway' \in [channel : 0..MaxChannels, expected : 0..(SeqMod - 1)]
  <2>1. (gateway.expected + 1) % SeqMod \in 0..(SeqMod - 1)
    BY ConstantsAssumption DEF ConnTyped
  <2> QED BY <1>4, <2>1 DEF ConnTyped
<1> QED BY <1>6, <1>7, <1>8, <1>9 DEF GatewayReceives, SendTyped, ConnTyped, NetTyped,
     CountsTyped, sendVars, connVars

LEMMA NetworkTyped == Inv /\ AllTyped /\ (Deliver \/ Lose) => AllTyped'
<1> SUFFICES ASSUME Inv, AllTyped, Deliver \/ Lose
             PROVE  AllTyped'
  OBVIOUS
<1> USE DEF AllTyped
<1>0. Datagrams
  BY DEF Inv
<1>1. ASSUME NEW r \in BagToSet(requests), GatewayReceives(r)
      PROVE  AllTyped'
  BY <1>1, GatewayReceivesTyped
<1>2. ASSUME NEW a \in BagToSet(acks), SendConfirmed(a)
      PROVE  AllTyped'
  <2>1. SendTyped'
    BY <1>2, EndTyped DEF SendConfirmed
  <2>2. NetTyped'
    BY <1>0, <1>2, TakenTyped DEF SendConfirmed, NetTyped
  <2>3. pc # "idle"
    BY <1>2 DEF SendConfirmed, Waiting
  <2>4. current \in 1..MaxFrames
    BY <2>3 DEF Inv, Typed, SendTyped
  <2>5. CountsTyped'
    BY <1>2, <2>4 DEF SendConfirmed, CountsTyped
  <2> QED BY <1>2, <2>1, <2>2, <2>5 DEF SendConfirmed, ConnTyped, connVars
<1>3. ASSUME NEW a \in BagToSet(acks), AckUnhandled(a) \/ AckLost(a)
      PROVE  AllTyped'
  <2>1. NetTyped'
    BY <1>0, <1>3, TakenTyped DEF AckUnhandled, AckLost, NetTyped
  <2> QED BY <1>3, <2>1, FaultTyped DEF AckUnhandled, AckLost, SendTyped, ConnTyped,
       CountsTyped, sendVars, connVars
<1>4. ASSUME NEW r \in BagToSet(requests), RequestLost(r)
      PROVE  AllTyped'
  <2>1. NetTyped'
    BY <1>0, <1>4, TakenTyped DEF RequestLost, NetTyped
  <2> QED BY <1>4, <2>1, FaultTyped DEF RequestLost, SendTyped, ConnTyped, CountsTyped,
       sendVars, connVars
<1> QED BY <1>1, <1>2, <1>3, <1>4 DEF Deliver, Lose

LEMMA InitTyped == Init => AllTyped
<1>1. 0 \in 0..MaxFrames /\ 0 \in 0..(SeqMod - 1) /\ 0 \in 0..MaxFaults
      /\ 1 \in 1..MaxChannels /\ 1 \in 0..MaxChannels
  BY ConstantsAssumption
<1> SUFFICES ASSUME Init
             PROVE  AllTyped
  OBVIOUS
<1>2. SendTyped
  BY <1>1 DEF Init, SendTyped
<1>3. ConnTyped
  BY <1>1 DEF Init, ConnTyped
<1>4. NetTyped
  BY BagEmpty DEF Init, NetTyped
<1>5. CountsTyped
  BY <1>1 DEF Init, CountsTyped
<1> QED BY <1>2, <1>3, <1>4, <1>5 DEF AllTyped

(* Every variable keeps its type, within the bounds: the sequence counters *)
(* stay below the modulus, and no datagram is sent without a channel.      *)
THEOREM TypeCorrect == Spec => []TypeOK
<1>1. Inv /\ AllTyped /\ [Next]_vars => AllTyped'
  <2>1. AllTyped /\ UNCHANGED vars => AllTyped'
    BY DEF vars, AllTyped, SendTyped, ConnTyped, NetTyped, CountsTyped
  <2> QED BY <2>1, SenderTyped, ConnectionTyped, NetworkTyped DEF Next
<1>2. AllTyped => TypeOK
  BY DEF AllTyped, TypeOK, SendTyped, ConnTyped, NetTyped, CountsTyped
<1> QED BY <1>1, <1>2, InitTyped, Invariant, PTL DEF Spec

=============================================================================
