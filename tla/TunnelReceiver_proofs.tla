------------------------ MODULE TunnelReceiver_proofs ------------------------
(***************************************************************************)
(* Proofs about TunnelReceiver for every modulus, lifetime and window that *)
(* satisfy ModulusAssumption.                                              *)
(*                                                                         *)
(* The counters are related to the indices by their distance from the      *)
(* frame of the gateway: a frame that is d frames old has the counter      *)
(* Back(gateway.seq, d).  Distances stay below Modulus, so equal counters  *)
(* mean equal indices.                                                     *)
(***************************************************************************)
EXTENDS TunnelReceiver, TLAPS

(* The counter d frames before c.                                          *)
Back(c, d) == IF d <= c THEN c - d ELSE c + Modulus - d

(* When the gateway has the channel open its frames are the only ones.     *)
Channel ==
    /\ ~gateway.open => requests = {} /\ acks = {}
    /\ phase \in {"up", "closing"} => gateway.open
    /\ phase = "opening" => ~gateway.open
    /\ phase # "opening" /\ ~gateway.open => last = 0 /\ expected = 0

(* The counter expected next belongs to the index last + 1.                *)
Synchronised ==
    gateway.open =>
        /\ last <= gateway.index
        /\ gateway.index <= last + Window
        /\ IF last = gateway.index
             THEN expected = Up(gateway.seq)
             ELSE expected = Back(gateway.seq, gateway.index - last - 1)

(* A datagram under way is at most Lifetime frames old.                    *)
Recent(f) ==
    /\ f.index <= gateway.index
    /\ gateway.index <= f.index + Lifetime
    /\ f.seq = Back(gateway.seq, gateway.index - f.index)

Inv ==
    /\ TypeOK
    /\ Channel
    /\ Synchronised
    /\ \A f \in requests : Recent(f)
    /\ \A a \in acks : Recent(a)
    /\ AckedDelivered
    /\ NoStaleTimer

(* Different distances below Modulus give different counters.              *)
LEMMA BackInjective ==
    ASSUME NEW c \in Counters, NEW d \in 0..(Modulus - 1), NEW e \in 0..(Modulus - 1),
           Back(c, d) = Back(c, e)
    PROVE  d = e
BY ConstantsAssumption DEF Back, Counters

(* The counter after c is the one Modulus - 1 frames before it.            *)
LEMMA BackUp ==
    ASSUME NEW c \in Counters, NEW d \in 0..(Modulus - 1)
    PROVE  /\ Back(c, d) \in Counters
           /\ Back(c, 0) = c
           /\ Up(c) \in Counters
           /\ Back(Up(c), 1) = c
           /\ Down(Up(c)) = c
           /\ Back(c, d) = Up(c) => d + 1 = Modulus
           /\ d + 1 < Modulus => Back(Up(c), d + 1) = Back(c, d)
           /\ d + 1 < Modulus => Down(Back(c, d)) = Back(c, d + 1)
           /\ d > 0 => Up(Back(c, d)) = Back(c, d - 1)
BY ConstantsAssumption, ModulusAssumption DEF Back, Counters, Up, Down

LEMMA UpIsCounter == \A c \in Counters : Up(c) \in Counters
BY ConstantsAssumption, ModulusAssumption DEF Counters, Up

(* A frame with the expected counter is the next one, and a frame with the *)
(* counter before it was the last one.                                     *)
LEMMA CounterTellsIndex ==
    ASSUME Inv, phase # "opening", NEW f \in requests
    PROVE  /\ gateway.open
           /\ f \in Frames
           /\ f.seq = expected => f.index = last + 1
           /\ f.seq = Down(expected) => f.index = last
<1> DEFINE g == gateway.seq
           d == gateway.index - f.index
           e == gateway.index - last - 1
<1>1. gateway.open /\ f \in Frames /\ Recent(f) /\ TypeOK
  BY DEF Inv, Channel, TypeOK
<1>2. /\ g \in Counters /\ gateway.index \in 1..MaxIndex
      /\ f.index \in 1..MaxIndex /\ last \in 0..MaxIndex
  BY <1>1 DEF TypeOK, Frames
<1>3. d \in 0..(Modulus - 1) /\ d + 1 < Modulus /\ f.seq = Back(g, d)
  BY <1>1, <1>2, ConstantsAssumption, ModulusAssumption DEF Recent
<1>4. CASE last = gateway.index
  <2>1. expected = Up(g)
    BY <1>1, <1>4 DEF Inv, Synchronised
  <2>2. f.seq # expected
    BY <2>1, <1>2, <1>3, BackUp
  <2>3. Down(expected) = Back(g, 0) /\ 0 \in 0..(Modulus - 1)
    BY <2>1, <1>2, <1>3, BackUp, ConstantsAssumption, ModulusAssumption
  <2>4. f.seq = Down(expected) => d = 0
    BY <2>3, <1>2, <1>3, BackInjective
  <2> QED BY <2>2, <2>4, <1>1, <1>2, <1>4
<1>5. CASE last # gateway.index
  <2>1. /\ expected = Back(g, e)
        /\ last <= gateway.index /\ gateway.index <= last + Window
    BY <1>1, <1>5 DEF Inv, Synchronised
  <2>2. e \in 0..(Modulus - 1) /\ e + 1 \in 0..(Modulus - 1) /\ e + 1 < Modulus
    BY <2>1, <1>2, <1>5, ConstantsAssumption, ModulusAssumption
  <2>3. f.seq = expected => d = e
    BY <2>1, <2>2, <1>2, <1>3, BackInjective
  <2>4. Down(expected) = Back(g, e + 1)
    BY <2>1, <2>2, <1>2, BackUp
  <2>5. f.seq = Down(expected) => d = e + 1
    BY <2>2, <2>4, <1>2, <1>3, BackInjective
  <2> QED BY <2>3, <2>5, <1>1, <1>2
<1> QED BY <1>4, <1>5

LEMMA AcceptPreserves ==
    ASSUME Inv, phase # "opening", NEW f \in requests, Accept(f)
    PROVE  Inv' /\ last' = last + 1
<1> DEFINE g == gateway.seq
           e == gateway.index - last - 1
<1>1. /\ gateway.open /\ f \in Frames /\ TypeOK /\ Recent(f)
      /\ f.index = last + 1 /\ f.seq = expected
  BY CounterTellsIndex DEF Inv, Accept
<1>2. /\ g \in Counters /\ gateway.index \in 1..MaxIndex
      /\ f.index \in 1..MaxIndex /\ last \in 0..MaxIndex /\ expected \in Counters
  BY <1>1 DEF TypeOK, Frames
<1>3. /\ last' = last + 1 /\ expected' = Up(expected) /\ schedule' = FALSE
      /\ acks' = acks \cup {f}
      /\ UNCHANGED <<phase, reconnecting, gateway, requests, tunnels>>
  BY <1>1 DEF Accept, SendAck
<1>4. TypeOK'
  <2>1. expected' \in Counters /\ last' \in 0..MaxIndex
    BY <1>1, <1>2, <1>3, UpIsCounter
  <2> QED BY <2>1, <1>1, <1>3 DEF TypeOK
<1>5. Channel'
  BY <1>1, <1>3 DEF Inv, Channel
<1>6. Synchronised'
  <2>1. last + 1 <= gateway.index /\ gateway.index <= last + Window
        /\ expected = Back(g, e)
    BY <1>1, <1>2 DEF Inv, Synchronised, Recent
  <2>2. e \in 0..(Modulus - 1)
    BY <2>1, <1>2, ConstantsAssumption, ModulusAssumption
  <2>3. CASE e = 0
    <3>1. Back(g, 0) = g
      BY <2>2, <2>3, <1>2, BackUp
    <3>2. expected = g
      BY <3>1, <2>1, <2>3
    <3>3. last' = gateway.index
      <4>1. last \in Int /\ gateway.index \in Int /\ last' = last + 1
        BY <1>2, <1>3
      <4> QED BY <4>1, <2>3
    <3>4. gateway' = gateway /\ expected' = Up(g)
      BY <3>2, <1>3
    <3>5. last' <= gateway'.index /\ gateway'.index <= last' + Window /\ last' = gateway'.index
      BY <3>3, <3>4, <1>2, ConstantsAssumption
    <3> QED BY <3>4, <3>5 DEF Synchronised
  <2>4. CASE e > 0
    <3>1. Up(expected) = Back(g, e - 1)
      BY <2>1, <2>2, <2>4, <1>2, BackUp
    <3> QED BY <3>1, <2>1, <2>2, <2>4, <1>2, <1>3, ConstantsAssumption DEF Synchronised
  <2> QED BY <2>2, <2>3, <2>4, <1>2
<1>7. \A a \in requests' : Recent(a)'
  BY <1>3 DEF Inv, Recent
<1>8. \A a \in acks' : Recent(a)'
  BY <1>1, <1>3 DEF Inv, Recent
<1>9. AckedDelivered' /\ NoStaleTimer'
  <2>1. \A a \in acks : a.index \in Nat /\ a.index <= last
    BY <1>1 DEF Inv, AckedDelivered, TypeOK, Frames
  <2> QED BY <2>1, <1>1, <1>2, <1>3 DEF AckedDelivered, NoStaleTimer
<1> QED BY <1>3, <1>4, <1>5, <1>6, <1>7, <1>8, <1>9 DEF Inv

LEMMA RepeatedPreserves ==
    ASSUME Inv, phase # "opening", NEW f \in requests, Repeated(f)
    PROVE  Inv' /\ last' = last
<1>1. gateway.open /\ f \in Frames /\ f.index = last /\ Recent(f)
  BY CounterTellsIndex DEF Repeated, Inv
<1>2. /\ acks' = acks \cup {f}
      /\ UNCHANGED <<phase, reconnecting, expected, schedule, gateway, requests, last, tunnels>>
  BY DEF Repeated, SendAck
<1>3. last \in Nat
  BY DEF Inv, TypeOK
<1> QED
  BY <1>1, <1>2, <1>3
  DEF Inv, TypeOK, Channel, Synchronised, Recent, AckedDelivered, NoStaleTimer

LEMMA UnexpectedPreserves ==
    ASSUME Inv, NEW f \in requests, Unexpected(f)
    PROVE  Inv' /\ last' = last
BY DEF Unexpected, Inv, TypeOK, Channel, Synchronised, Recent, AckedDelivered, NoStaleTimer

(* A confirmation that the gateway takes for its frame is one.             *)
LEMMA ConfirmedDelivered ==
    ASSUME Inv, gateway.open, NEW a \in acks, a.seq = gateway.seq
    PROVE  last = gateway.index
<1> DEFINE d == gateway.index - a.index
<1>1. Recent(a) /\ a \in Frames /\ a.index <= last /\ last <= gateway.index /\ TypeOK
  BY DEF Inv, AckedDelivered, TypeOK, Synchronised
<1>2. /\ gateway.seq \in Counters /\ gateway.index \in 1..MaxIndex
      /\ a.index \in 1..MaxIndex /\ last \in 0..MaxIndex
  BY <1>1 DEF TypeOK, Frames
<1>3. d \in 0..(Modulus - 1) /\ 0 \in 0..(Modulus - 1) /\ a.seq = Back(gateway.seq, d)
  BY <1>1, <1>2, ConstantsAssumption, ModulusAssumption DEF Recent
<1>4. d = 0
  BY <1>2, <1>3, BackUp, BackInjective
<1> QED BY <1>1, <1>2, <1>4

LEMMA AdvancesPreserves ==
    ASSUME Inv, GatewayAdvances,
           last = gateway.index \/ gateway.index < last + Window
    PROVE  Inv' /\ last' = last
<1> DEFINE g == gateway.seq
           e == gateway.index - last - 1
<1>1. /\ gateway.open /\ gateway.index < MaxIndex
      /\ gateway' = [gateway EXCEPT !.index = @ + 1, !.seq = Up(@)]
      /\ requests' \subseteq requests /\ acks' \subseteq acks
      /\ \A f \in requests' \cup acks' : f.index + Lifetime >= gateway.index + 1
      /\ UNCHANGED <<phase, reconnecting, expected, schedule, last, tunnels>>
  BY DEF GatewayAdvances, Alive
<1>2. /\ gateway \in [open : BOOLEAN, index : 1..MaxIndex, seq : Counters]
      /\ g \in Counters /\ gateway.index \in 1..MaxIndex
      /\ last \in 0..MaxIndex /\ expected \in Counters
      /\ requests \subseteq Frames /\ acks \subseteq Frames
  BY DEF Inv, TypeOK
<1>3. gateway'.index = gateway.index + 1 /\ gateway'.seq = Up(g) /\ gateway'.open = gateway.open
  BY <1>1, <1>2
<1>4. Up(g) \in Counters
  BY <1>2, BackUp, ConstantsAssumption, ModulusAssumption
<1>5. TypeOK'
  <2>1. gateway' \in [open : BOOLEAN, index : 1..MaxIndex, seq : Counters]
    <3>1. gateway.index + 1 \in 1..MaxIndex
      BY <1>1, <1>2, ConstantsAssumption
    <3> QED BY <3>1, <1>1, <1>2, <1>4
  <2> QED BY <2>1, <1>1, <1>2 DEF Inv, TypeOK
<1>6. Channel'
  BY <1>1, <1>3 DEF Inv, Channel
<1>7. Synchronised'
  <2>1. last <= gateway.index /\ gateway.index <= last + Window
    BY <1>1 DEF Inv, Synchronised
  <2>2. CASE last = gateway.index
    <3>1. expected = Up(g)
      BY <1>1, <2>2 DEF Inv, Synchronised
    <3>2. Up(g) = Back(Up(g), 0)
      BY <1>4, BackUp, ConstantsAssumption, ModulusAssumption
    <3> QED BY <3>1, <3>2, <2>2, <1>1, <1>2, <1>3, ConstantsAssumption DEF Synchronised
  <2>3. CASE last < gateway.index
    <3>1. expected = Back(g, e)
      BY <1>1, <1>2, <2>3 DEF Inv, Synchronised
    <3>2. e \in 0..(Modulus - 1) /\ e + 1 < Modulus
      BY <1>2, <2>1, <2>3, ConstantsAssumption, ModulusAssumption
    <3>3. Back(Up(g), e + 1) = Back(g, e)
      BY <3>2, <1>2, BackUp
    <3>4. gateway'.index - last' - 1 = e + 1 /\ last' < gateway'.index
          /\ gateway'.index <= last' + Window
      BY <1>1, <1>2, <1>3, <2>3, ConstantsAssumption
    <3> QED BY <3>1, <3>3, <3>4, <1>1, <1>2, <1>3 DEF Synchronised
  <2> QED BY <2>1, <2>2, <2>3, <1>2
<1>8. ASSUME NEW f \in requests' \cup acks'
      PROVE  Recent(f)'
  <2> DEFINE d == gateway.index - f.index
  <2>1. Recent(f) /\ f \in Frames /\ f.index + Lifetime >= gateway.index + 1
    BY <1>1, <1>2 DEF Inv
  <2>2. f.index \in 1..MaxIndex /\ f.seq = Back(g, d)
    BY <2>1 DEF Frames, Recent
  <2>3. d \in 0..(Modulus - 1) /\ d + 1 < Modulus
    BY <2>1, <2>2, <1>2, ConstantsAssumption, ModulusAssumption DEF Recent
  <2>4. Back(Up(g), d + 1) = Back(g, d)
    BY <2>3, <1>2, BackUp
  <2>5. gateway'.index - f.index = d + 1 /\ f.index <= gateway'.index
        /\ gateway'.index <= f.index + Lifetime
    BY <2>1, <2>2, <1>2, <1>3, ConstantsAssumption DEF Recent
  <2> QED BY <2>2, <2>4, <2>5, <1>3 DEF Recent
<1>9. AckedDelivered' /\ NoStaleTimer'
  BY <1>1 DEF Inv, AckedDelivered, NoStaleTimer
<1> QED BY <1>1, <1>5, <1>6, <1>7, <1>8, <1>9 DEF Inv

LEMMA Initial == Init => Inv
<1> SUFFICES ASSUME Init PROVE Inv
  OBVIOUS
<1>1. 0 \in Counters /\ 1 \in 1..MaxIndex /\ 0 \in 0..MaxIndex /\ 0 \in 0..MaxTunnels
  BY ConstantsAssumption, ModulusAssumption DEF Counters
<1>2. TypeOK
  BY <1>1 DEF Init, TypeOK
<1> QED BY <1>2 DEF Init, Inv, Channel, Synchronised, AckedDelivered, NoStaleTimer

(* Every step preserves the invariant; a frame is handed over by Accept    *)
(* only, and SetupTunnel starts again.                                     *)
LEMMA Step ==
    ASSUME Inv, [Next]_vars
    PROVE  Inv' /\ (last' # last => last' = last + 1 \/ phase = "opening")
<1> USE DEF Recent
<1>1. CASE TunnellingRequestReceived
  <2>1. PICK f \in requests : phase # "opening" /\ (Accept(f) \/ Repeated(f) \/ Unexpected(f))
    BY <1>1 DEF TunnellingRequestReceived
  <2> QED BY <2>1, AcceptPreserves, RepeatedPreserves, UnexpectedPreserves
<1>2. CASE ScheduleFires
  BY <1>2 DEF ScheduleFires, Lost, Inv, TypeOK, Channel, Synchronised, AckedDelivered, NoStaleTimer
<1>3. CASE TunnelLost
  BY <1>3 DEF TunnelLost, Lost, Inv, TypeOK, Channel, Synchronised, AckedDelivered, NoStaleTimer
<1>4. CASE ReconnectClosed \/ ConnectFails
  <2>1. /\ phase' = "opening" /\ requests' = {} /\ acks' = {}
        /\ gateway' = [gateway EXCEPT !.open = FALSE]
        /\ UNCHANGED <<reconnecting, expected, schedule, last, tunnels>>
    BY <1>4 DEF ReconnectClosed, ConnectFails, SocketClosed
  <2>2. TypeOK' /\ ~gateway'.open
    BY <2>1 DEF Inv, TypeOK
  <2> QED BY <2>1, <2>2 DEF Inv, Channel, Synchronised, AckedDelivered, NoStaleTimer
<1>5. CASE SetupTunnel
  BY <1>5, ConstantsAssumption, ModulusAssumption
  DEF SetupTunnel, Inv, TypeOK, Channel, Synchronised, AckedDelivered, NoStaleTimer, Counters
<1>6. CASE Connected
  BY <1>6 DEF Connected, Inv, TypeOK, Channel, Synchronised, AckedDelivered, NoStaleTimer
<1>7. CASE GatewayOpens
  <2>1. last = 0 /\ expected = 0 /\ requests = {} /\ acks = {}
    BY <1>7 DEF GatewayOpens, Inv, Channel
  <2>2. Back(0, 0) = 0
    BY DEF Back
  <2> QED BY <1>7, <2>1, <2>2, ConstantsAssumption, ModulusAssumption
          DEF GatewayOpens, Inv, TypeOK, Channel, Synchronised, AckedDelivered,
              NoStaleTimer, Counters
<1>8. CASE GatewaySends
  <2> DEFINE n == [index |-> gateway.index, seq |-> gateway.seq]
  <2>1. /\ gateway.open /\ requests' = requests \cup {n}
        /\ UNCHANGED <<phase, reconnecting, expected, schedule, gateway, acks, last, tunnels>>
    BY <1>8 DEF GatewaySends
  <2>2. gateway.index \in 1..MaxIndex /\ gateway.seq \in Counters
    BY DEF Inv, TypeOK
  <2>3. n \in Frames /\ Recent(n)
    BY <2>2, BackUp, ConstantsAssumption, ModulusAssumption DEF Frames
  <2> HIDE DEF n
  <2> QED BY <2>1, <2>3 DEF Inv, TypeOK, Channel, Synchronised, AckedDelivered, NoStaleTimer
<1>9. CASE GatewayConfirmed
  <2>1. PICK a \in acks : a.seq = gateway.seq
    BY <1>9 DEF GatewayConfirmed
  <2>2. gateway.open /\ GatewayAdvances
    BY <1>9 DEF GatewayConfirmed, GatewayAdvances
  <2> QED BY <2>1, <2>2, ConfirmedDelivered, AdvancesPreserves
<1>10. CASE GatewaySkips
  BY <1>10, AdvancesPreserves DEF GatewaySkips
<1>11. CASE UNCHANGED vars
  BY <1>11 DEF vars, Inv, TypeOK, Channel, Synchronised, AckedDelivered, NoStaleTimer
<1> QED BY <1>1, <1>2, <1>3, <1>4, <1>5, <1>6, <1>7, <1>8, <1>9, <1>10, <1>11 DEF Next

(* The inductive invariant holds in every behaviour.                       *)
THEOREM Invariance == Spec => []Inv
BY Initial, Step, PTL DEF Spec

(* Type correctness; expected_sequence_number stays a byte.                *)
THEOREM TypeCorrect == Spec => []TypeOK
<1>1. Inv => TypeOK
  BY DEF Inv
<1> QED BY Invariance, <1>1, PTL

(* _tunnelling_request_received hands the frames of a tunnel over in       *)
(* order, each once and none left out, whatever the network does within    *)
(* the lifetime of a datagram.                                             *)
THEOREM FramesInOrder == Spec => InOrder
<1>1. ASSUME Inv, [Next]_vars
      PROVE  [last' # last => last' = last + 1 \/ phase = "opening"]_vars
  BY <1>1, Step
<1> QED BY Invariance, <1>1, PTL DEF Spec, InOrder

(* A TUNNELLING_ACK is sent only for a frame that was handed over.         *)
THEOREM AckSound == Spec => []AckedDelivered
<1>1. Inv => AckedDelivered
  BY DEF Inv
<1> QED BY Invariance, <1>1, PTL

(* A timer of an old tunnel never outlives it.                             *)
THEOREM TimerOwned == Spec => []NoStaleTimer
<1>1. Inv => NoStaleTimer
  BY DEF Inv
<1> QED BY Invariance, <1>1, PTL

=============================================================================
