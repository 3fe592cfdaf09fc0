-------------------------- MODULE Management_proofs --------------------------
(***************************************************************************)
(* Proofs about Management: type correctness, the removal of closed        *)
(* connections, what nm_individual_address_check may conclude, and which   *)
(* response belongs to which request.  Last, for any set of callers, the   *)
(* table of connections (Connections), which Management implements.        *)
(***************************************************************************)
EXTENDS Management, Connections, SequenceTheorems, TLAPS

(* The table of connections follows the task.                              *)
TableInv == registered => task \notin {"idle", "connecting"}

(* A TDisconnect that has reached the connection leaves it unconnected     *)
(* until the task is through with it, so that disconnect() cannot take the *)
(* path on which a timeout means "free".                                   *)
HeardInv ==
    "disconnect" \in heard /\ task # "idle" =>
        ~conn.connected /\ task \notin {"connecting", "closing"}

VerdictInv == verdict = "free" => task = "idle" /\ "disconnect" \notin heard

Inv == TypeOK /\ TableInv /\ HeardInv /\ VerdictInv

-----------------------------------------------------------------------------

(* Sequence numbers stay below the modulus.                                *)
LEMMA IncType == \A n \in SeqNums : Inc(n) \in SeqNums /\ (n + SeqMod - 1) % SeqMod \in SeqNums
BY ConstantsAssumption, Z3 DEF Inc, SeqNums

(* What the assumption on the constants gives.                             *)
LEMMA ConstantTypes ==
    /\ MaxRequests \in Nat /\ MaxConnections \in Nat /\ MaxFaults \in Nat
    /\ 0 \in SeqNums /\ 0 \in 0..MaxRequests
BY ConstantsAssumption DEF SeqNums

(* Telegrams of the client.                                                *)
LEMMA TelegramType ==
    ASSUME NEW tpci \in {"TConnect", "TDisconnect", "TData", "TAck", "TNak", "con"},
           NEW n \in SeqNums, NEW request \in 0..MaxRequests
    PROVE  Telegram(tpci, n, request) \in Telegrams
BY DEF Telegram, Telegrams

(* Telegrams of the device, and confirmations.                             *)
LEMMA FromDeviceType ==
    ASSUME NEW tpci \in {"TDisconnect", "TData", "TAck", "TNak", "con"},
           NEW n \in SeqNums, NEW request \in 0..MaxRequests
    PROVE  Telegram(tpci, n, request) \in FromDevice
BY DEF Telegram, Telegrams, FromDevice

(* What the bus does to its two queues.                                    *)
LEMMA QueueType ==
    ASSUME NEW S, NEW q \in Seq(S)
    PROVE  /\ \A t \in S : Append(q, t) \in Seq(S)
           /\ \A t, u \in S : q \o <<t, u>> \in Seq(S)
           /\ q # <<>> => Head(q) \in S /\ Tail(q) \in Seq(S)
<1>1. \A t, u \in S : <<t, u>> \in Seq(S)
  OBVIOUS
<1>. QED BY <1>1

(* P2PConnection.process keeps the type of the object, and never connects. *)
LEMMA ProcessType ==
    ASSUME NEW c \in ConnType, NEW t \in Telegrams,
           t.tpci \in {"TDisconnect", "TAck", "TNak", "TData"}
    PROVE  /\ Process(c, t) \in ConnType
           /\ Process(c, t).connected => c.connected
           /\ t.tpci = "TDisconnect" => ~Process(c, t).connected
<1>1. CASE t.tpci = "TDisconnect"
  BY <1>1 DEF Process, ConnType, Telegrams
<1>2. CASE t.tpci \in {"TAck", "TNak"}
  BY <1>2 DEF Process, ConnType, Telegrams
<1>3. CASE t.tpci = "TData"
  BY <1>3, IncType DEF Process, ConnType, Telegrams
<1>. QED BY <1>1, <1>2, <1>3

-----------------------------------------------------------------------------

(* SendTelegram and Ends, from which most actions are built.               *)
LEMMA SendTelegramType ==
    ASSUME TypeOK, NEW t \in Telegrams, SendTelegram(t)
    PROVE  toDevice' \in Seq(Telegrams) /\ confirmed' \in BOOLEAN
BY QueueType DEF TypeOK, SendTelegram

(* A request that ends keeps the types.                                    *)
LEMMA EndsType ==
    ASSUME TypeOK, NEW c \in ConnType, NEW what \in {"response", "timeout", "refused", "error"},
           Ends(c, what), faults' \in 0..MaxFaults
    PROVE  TypeOK' /\ conn'.connected = c.connected
<1>1. conn' \in ConnType /\ conn'.connected = c.connected
  BY DEF Ends, ConnType
<1>2. outcome' \in [what : {"none", "response", "timeout", "refused", "error"},
                    request : 0..MaxRequests]
  BY ConstantTypes DEF Ends, TypeOK, ConnType
<1>. QED BY <1>1, <1>2 DEF Ends, TypeOK, callVars, busVars

(* Sends that return or raise, and the faults they count.                  *)
LEMMA FaultType ==
    ASSUME faults \in 0..MaxFaults
    PROVE  /\ Fault => faults' \in 0..MaxFaults
           /\ SendRaises => faults' \in 0..MaxFaults
           /\ SendReturns => faults' \in 0..MaxFaults
           /\ UNCHANGED faults => faults' \in 0..MaxFaults
BY ConstantTypes DEF Fault, SendRaises, SendReturns

-----------------------------------------------------------------------------
(* One lemma per group of actions.                                         *)

LEMMA ConnectStep == Inv /\ (Connect \/ Connected \/ ConnectRaises) => Inv'
<1>. SUFFICES ASSUME Inv, Connect \/ Connected \/ ConnectRaises PROVE Inv'
  OBVIOUS
<1>. USE DEF Inv
<1>t. Telegram("TConnect", 0, 0) \in Telegrams
  BY ConstantTypes, TelegramType
<1>1. CASE Connect
  <2>1. conn' \in ConnType /\ ~conn'.connected
    BY <1>1, ConstantTypes DEF Connect, NewConn, ConnType, NoAck, NoResponse, NoDataUnderWay
  <2>2. toDevice' \in Seq(Telegrams) /\ confirmed' \in BOOLEAN
    BY <1>1, <1>t, SendTelegramType DEF Connect
  <2>3. TypeOK'
    BY <1>1, <2>1, <2>2, ConstantTypes DEF Connect, TypeOK
  <2>. QED BY <1>1, <2>1, <2>3 DEF Connect, TableInv, HeardInv, VerdictInv
<1>2. CASE Connected
  <2>1. conn' \in ConnType
    BY <1>2 DEF Connected, ConnType, TypeOK
  <2>2. TypeOK'
    BY <1>2, <2>1, FaultType DEF Connected, TypeOK, busVars
  <2>. QED BY <1>2, <2>2 DEF Connected, TableInv, HeardInv, VerdictInv
<1>3. CASE ConnectRaises
  <2>1. conn' \in ConnType
    BY <1>3 DEF ConnectRaises, ConnType, TypeOK
  <2>2. TypeOK'
    BY <1>3, <2>1, FaultType DEF ConnectRaises, TypeOK, busVars, callVars
  <2>. QED BY <1>3, <2>2 DEF ConnectRaises, TableInv, HeardInv, VerdictInv, callVars
<1>. QED BY <1>1, <1>2, <1>3

(* A request that ends leaves the connection as it is.                     *)
LEMMA EndsStep ==
    ASSUME Inv, NEW c \in ConnType, c.connected = conn.connected,
           NEW what \in {"response", "timeout", "refused", "error"},
           Ends(c, what), faults' \in 0..MaxFaults, task \notin {"idle", "connecting", "closing"}
    PROVE  Inv'
<1>1. TypeOK' /\ conn'.connected = conn.connected
  BY EndsType DEF Inv
<1>. QED BY <1>1 DEF Inv, Ends, TableInv, HeardInv, VerdictInv, callVars

(* The steps of request(), _send_data and _receive.                        *)
LEMMA RequestStep == Inv /\ (Request \/ Requesting) => Inv'
<1>. SUFFICES ASSUME Inv, Request \/ Requesting PROVE Inv'
  OBVIOUS
<1>. USE DEF Inv
<1>c. conn \in ConnType /\ faults \in 0..MaxFaults
  BY DEF TypeOK
<1>a. [conn EXCEPT !.ack = NoAck] \in ConnType
      /\ [conn EXCEPT !.ack = NoAck].connected = conn.connected
  BY <1>c, ConstantTypes DEF ConnType, NoAck
<1>r. [conn EXCEPT !.response = NoResponse] \in ConnType
      /\ [conn EXCEPT !.response = NoResponse].connected = conn.connected
  BY <1>c, ConstantTypes DEF ConnType, NoResponse
<1>1. CASE Request
  BY <1>1 DEF Request, TypeOK, TableInv, HeardInv, VerdictInv, callVars, busVars
<1>2. CASE SendData
  <2>1. conn' \in ConnType /\ conn'.connected = conn.connected
    BY <1>2, <1>c, ConstantTypes, IncType DEF SendData, ConnType, NoAck
  <2>2. requests + 1 \in 0..MaxRequests
    BY <1>2, ConstantTypes DEF SendData, TypeOK
  <2>3. Telegram("TData", conn.sequence, requests + 1) \in Telegrams
    BY <1>c, <2>2, TelegramType DEF ConnType
  <2>4. toDevice' \in Seq(Telegrams) /\ confirmed' \in BOOLEAN
    BY <1>2, <2>3, SendTelegramType DEF SendData
  <2>5. TypeOK'
    BY <1>2, <2>1, <2>2, <2>4 DEF SendData, TypeOK
  <2>. QED BY <1>2, <2>1, <2>5 DEF SendData, TableInv, HeardInv, VerdictInv
<1>3. CASE RequestRefused
  BY <1>3, <1>c, EndsStep, FaultType DEF RequestRefused
<1>4. CASE Sent
  BY <1>4, FaultType DEF Sent, TypeOK, TableInv, HeardInv, VerdictInv, callVars, busVars
<1>5. CASE SendFails
  BY <1>5, <1>a, <1>c, EndsStep, FaultType DEF SendFails
<1>6. CASE AckTimeout
  <2>1. conn' \in ConnType /\ conn'.connected = conn.connected
    BY <1>6, <1>c DEF AckTimeout, ConnType
  <2>. QED BY <1>6, <2>1 DEF AckTimeout, TypeOK, TableInv, HeardInv, VerdictInv, callVars, busVars
<1>7. CASE Resend
  <2>1. conn' \in ConnType /\ conn'.connected = conn.connected
    BY <1>7, <1>c, ConstantTypes DEF Resend, ConnType, NoAck
  <2>2. Telegram("TData", conn.current, requests) \in Telegrams
    BY <1>c, TelegramType DEF ConnType, TypeOK
  <2>3. toDevice' \in Seq(Telegrams) /\ confirmed' \in BOOLEAN
    BY <1>7, <2>2, SendTelegramType DEF Resend
  <2>. QED BY <1>7, <2>1, <2>3 DEF Resend, TypeOK, TableInv, HeardInv, VerdictInv, callVars
<1>8. CASE AckMissing
  BY <1>8, <1>a, <1>c, EndsStep, FaultType DEF AckMissing
<1>9. CASE AckAwaited
  <2>1. CASE conn.ack = [state |-> "TAck", seq |-> conn.current]
    BY <1>9, <2>1, <1>a DEF AckAwaited, TypeOK, TableInv, HeardInv, VerdictInv, callVars, busVars
  <2>2. CASE conn.ack # [state |-> "TAck", seq |-> conn.current]
    BY <1>9, <2>2, <1>a, <1>c, EndsStep, FaultType DEF AckAwaited
  <2>. QED BY <2>1, <2>2
<1>10. CASE Received
  BY <1>10, <1>r, <1>c, EndsStep, FaultType DEF Received
<1>11. CASE ReceiveTimeout
  <2>1. conn' \in ConnType /\ conn'.connected = conn.connected
    BY <1>11, <1>c DEF ReceiveTimeout, ConnType
  <2>. QED BY <1>11, <2>1 DEF ReceiveTimeout, TypeOK, TableInv, HeardInv, VerdictInv, callVars, busVars
<1>12. CASE ReceiveFails
  BY <1>12, <1>r, <1>c, EndsStep, FaultType DEF ReceiveFails
<1>. QED BY <1>1, <1>2, <1>3, <1>4, <1>5, <1>6, <1>7, <1>8, <1>9, <1>10, <1>11, <1>12
         DEF Requesting

(* The steps of disconnect().                                              *)
LEMMA DisconnectStep ==
    Inv /\ (DisconnectRefused \/ Disconnect \/ Disconnected \/ DisconnectRaises) => Inv'
<1>. SUFFICES ASSUME Inv,
                     DisconnectRefused \/ Disconnect \/ Disconnected \/ DisconnectRaises
              PROVE Inv'
  OBVIOUS
<1>. USE DEF Inv
<1>1. CASE DisconnectRefused
  BY <1>1 DEF DisconnectRefused, TypeOK, TableInv, HeardInv, VerdictInv, busVars
<1>2. CASE Disconnect
  <2>1. conn' \in ConnType
    BY <1>2 DEF Disconnect, ConnType, TypeOK
  <2>2. toDevice' \in Seq(Telegrams) /\ confirmed' \in BOOLEAN
    BY <1>2, ConstantTypes, TelegramType, SendTelegramType DEF Disconnect
  <2>3. TypeOK'
    BY <1>2, <2>1, <2>2 DEF Disconnect, TypeOK, callVars
  <2>. QED BY <1>2, <2>3 DEF Disconnect, TableInv, HeardInv, VerdictInv, callVars
<1>3. ASSUME Removed PROVE conn' \in ConnType
  BY <1>3 DEF Removed, ConnType, TypeOK
<1>4. CASE Disconnected
  <2>1. TypeOK'
    BY <1>3, <1>4, FaultType DEF Disconnected, Removed, TypeOK, busVars
  <2>. QED BY <1>4, <2>1 DEF Disconnected, Removed, TableInv, HeardInv, VerdictInv
<1>5. CASE DisconnectRaises
  <2>1. TypeOK'
    BY <1>3, <1>5, FaultType DEF DisconnectRaises, Removed, TypeOK, busVars
  <2>. QED BY <1>5, <2>1 DEF DisconnectRaises, Removed, TableInv, HeardInv, VerdictInv
<1>. QED BY <1>1, <1>2, <1>4, <1>5

(* The callbacks for telegrams and confirmations.                          *)
LEMMA ReceiveStep == Inv /\ (TelegramReceived \/ ConfirmationReceived) => Inv'
<1>. SUFFICES ASSUME Inv, TelegramReceived \/ ConfirmationReceived PROVE Inv'
  OBVIOUS
<1>. USE DEF Inv
<1>1. CASE ConfirmationReceived
  <2>1. toTask' \in Seq(FromDevice)
    BY <1>1, QueueType DEF ConfirmationReceived, TypeOK
  <2>. QED BY <1>1, <2>1 DEF ConfirmationReceived, TypeOK, TableInv, HeardInv, VerdictInv, callVars
<1>2. CASE TelegramReceived
  <2>. DEFINE t == Head(toTask)
  <2>1. t \in FromDevice /\ toTask' \in Seq(FromDevice)
    BY <1>2, QueueType DEF TelegramReceived, TypeOK
  <2>2. t \in Telegrams /\ t.tpci \in {"TDisconnect", "TAck", "TNak", "TData"}
    BY <1>2, <2>1 DEF TelegramReceived, FromDevice, Telegrams
  <2>3. conn' = IF registered THEN Process(conn, t) ELSE conn
    BY <1>2 DEF TelegramReceived
  <2>4. conn \in ConnType
    BY DEF TypeOK
  <2>. HIDE DEF t
  <2>5. /\ conn' \in ConnType
        /\ conn'.connected => conn.connected
        /\ registered /\ t.tpci = "TDisconnect" => ~conn'.connected
    BY <2>2, <2>3, <2>4, ProcessType
  <2>6. Telegram("TAck", t.seq, 0) \in Telegrams
    BY <2>2, ConstantTypes, TelegramType DEF Telegrams
  <2>7. toDevice' \in Seq(Telegrams)
    BY <1>2, <2>6, QueueType DEF TelegramReceived, TypeOK, t
  <2>8. heard' = IF task \in {"idle", "closing"} THEN heard
                 ELSE heard \cup {"telegram"}
                            \cup (IF registered /\ t.tpci = "TDisconnect"
                                    THEN {"disconnect"} ELSE {})
    BY <1>2 DEF TelegramReceived, Hears, t
  <2>9. TypeOK'
    BY <1>2, <2>1, <2>5, <2>7, <2>8 DEF TelegramReceived, TypeOK, callVars
  <2>10. conn.connected \in BOOLEAN /\ conn'.connected \in BOOLEAN
    BY <2>4, <2>5 DEF ConnType
  <2>11. UNCHANGED <<task, registered, verdict>>
    BY <1>2 DEF TelegramReceived, callVars
  <2>. QED BY <2>5, <2>8, <2>9, <2>10, <2>11 DEF TableInv, HeardInv, VerdictInv
<1>. QED BY <1>1, <1>2

(* The bus and the device change none of the client's state.               *)
LEMMA BusStep ==
    Inv /\ (BusTransmits \/ DeviceResponds \/ DeviceRepeats \/ DeviceDisconnects \/ TelegramLost)
        => Inv'
<1>. SUFFICES ASSUME Inv, BusTransmits \/ DeviceResponds \/ DeviceRepeats
                             \/ DeviceDisconnects \/ TelegramLost
              PROVE Inv'
  OBVIOUS
<1>. USE DEF Inv
<1>d. device \in DeviceType /\ toTask \in Seq(FromDevice) /\ toDevice \in Seq(Telegrams)
      /\ executed \in Seq(0..MaxRequests) /\ faults \in 0..MaxFaults
  BY DEF TypeOK
<1>s. UNCHANGED <<task, conn, registered, confirmed, requests, outcome, verdict, heard, connections>>
  BY DEF BusTransmits, DeviceResponds, DeviceRepeats, DeviceDisconnects, TelegramLost, callVars
<1>q. SUFFICES /\ device' \in DeviceType /\ toTask' \in Seq(FromDevice)
               /\ toDevice' \in Seq(Telegrams)
               /\ executed' \in Seq(0..MaxRequests) /\ faults' \in 0..MaxFaults
  BY <1>s DEF TypeOK, TableInv, HeardInv, VerdictInv
<1>con. Telegram("con", 0, 0) \in FromDevice /\ Telegram("TDisconnect", 0, 0) \in FromDevice
  BY ConstantTypes, FromDeviceType
<1>1. CASE BusTransmits
  <2>. DEFINE t == Head(toDevice)
  <2>1. t \in Telegrams /\ toDevice' \in Seq(Telegrams) /\ UNCHANGED faults
    BY <1>1, <1>d, QueueType DEF BusTransmits
  <2>2. CASE t.tpci = "TConnect" /\ device.kind = "refuses"
    <3>1. toTask' = toTask \o <<Telegram("con", 0, 0), Telegram("TDisconnect", 0, 0)>>
          /\ UNCHANGED <<device, executed>>
      BY <1>1, <2>2 DEF BusTransmits
    <3>2. toTask' \in Seq(FromDevice)
      BY <3>1, <1>d, <1>con, QueueType
    <3>. QED BY <2>1, <3>1, <3>2, <1>d
  <2>3. CASE t.tpci = "TData" /\ device.open
    <3>1. DeviceTakesData(t)
      BY <1>1, <2>3 DEF BusTransmits
    <3>. HIDE DEF t
    <3>2. t.seq \in SeqNums /\ t.request \in 0..MaxRequests
      BY <2>1 DEF Telegrams
    <3>3. Telegram("TAck", t.seq, 0) \in FromDevice /\ Telegram("TNak", t.seq, 0) \in FromDevice
      BY <3>2, ConstantTypes, FromDeviceType
    <3>4. toTask' \in Seq(FromDevice)
      BY <3>1, <3>3, <1>d, <1>con, QueueType DEF DeviceTakesData
    <3>5. device' \in DeviceType
      BY <3>1, <3>2, <1>d, IncType DEF DeviceTakesData, DeviceType
    <3>6. executed' \in Seq(0..MaxRequests)
      <4>1. Append(executed, t.request) \in Seq(0..MaxRequests)
        BY <3>2, <1>d, QueueType
      <4>2. executed' = Append(executed, t.request) \/ executed' = executed
        BY <3>1 DEF DeviceTakesData
      <4>. QED BY <4>1, <4>2, <1>d
    <3>. QED BY <2>1, <3>4, <3>5, <3>6, <1>d
  <2>4. CASE /\ ~(t.tpci = "TConnect" /\ device.kind = "refuses")
             /\ ~(t.tpci = "TData" /\ device.open)
    <3>1. /\ toTask' = Append(toTask, Telegram("con", 0, 0))
          /\ UNCHANGED executed
          /\ \/ device' = [device EXCEPT !.open = TRUE, !.expected = 0,
                                         !.sequence = 0, !.owes = 0, !.last = 0]
             \/ device' = [device EXCEPT !.open = FALSE, !.owes = 0, !.last = 0]
             \/ UNCHANGED device
      BY <1>1, <2>4 DEF BusTransmits
    <3>2. device' \in DeviceType
      BY <3>1, <1>d, ConstantTypes DEF DeviceType
    <3>. QED BY <2>1, <3>1, <3>2, <1>d, <1>con, QueueType
  <2>. QED BY <2>2, <2>3, <2>4
<1>2. CASE DeviceResponds
  <2>1. Telegram("TData", device.sequence, device.owes) \in FromDevice
    BY <1>d, FromDeviceType DEF DeviceType
  <2>2. device' \in DeviceType
    BY <1>2, <1>d, ConstantTypes, IncType DEF DeviceResponds, DeviceType
  <2>. QED BY <1>2, <1>d, <2>1, <2>2, QueueType DEF DeviceResponds
<1>3. CASE DeviceRepeats
  <2>1. Telegram("TData", (device.sequence + SeqMod - 1) % SeqMod, device.last) \in FromDevice
    BY <1>d, IncType, FromDeviceType DEF DeviceType
  <2>. QED BY <1>3, <1>d, <2>1, QueueType, FaultType DEF DeviceRepeats
<1>4. CASE DeviceDisconnects
  <2>1. device' \in DeviceType
    BY <1>4, <1>d, ConstantTypes DEF DeviceDisconnects, DeviceType
  <2>. QED BY <1>4, <1>d, <2>1, <1>con, QueueType, FaultType DEF DeviceDisconnects
<1>5. CASE TelegramLost
  BY <1>5, <1>d, QueueType, FaultType DEF TelegramLost
<1>. QED BY <1>1, <1>2, <1>3, <1>4, <1>5

-----------------------------------------------------------------------------

(* The inductive invariant holds in every behaviour of the client, the     *)
(* device and the bus.                                                     *)
THEOREM Invariance == Spec => []Inv
<1>1. Init => Inv
  <2>. SUFFICES ASSUME Init PROVE Inv
    OBVIOUS
  <2>1. conn \in ConnType
    BY ConstantTypes DEF Init, NewConn, ConnType, NoAck, NoResponse
  <2>2. device \in DeviceType
    BY ConstantTypes DEF Init, DeviceType
  <2>3. {registered, confirmed} \subseteq BOOLEAN
    BY DEF Init
  <2>4. <<>> \in Seq(Telegrams) /\ <<>> \in Seq(FromDevice) /\ <<>> \in Seq(0..MaxRequests)
    OBVIOUS
  <2>5. outcome \in [what : {"none", "response", "timeout", "refused", "error"},
                     request : 0..MaxRequests]
    BY ConstantTypes DEF Init
  <2>6. TypeOK
    BY <2>1, <2>2, <2>3, <2>4, <2>5, ConstantTypes DEF Init, TypeOK
  <2>. QED BY <2>6 DEF Init, Inv, TableInv, HeardInv, VerdictInv
<1>2. Inv /\ [Next]_vars => Inv'
  <2>. SUFFICES ASSUME Inv, [Next]_vars PROVE Inv'
    OBVIOUS
  <2>1. CASE Next
    BY <2>1, ConnectStep, RequestStep, DisconnectStep, ReceiveStep, BusStep DEF Next, Bus
  <2>2. CASE UNCHANGED vars
    BY <2>2 DEF vars, Inv, TypeOK, TableInv, HeardInv, VerdictInv
  <2>. QED BY <2>1, <2>2
<1>. QED BY <1>1, <1>2, PTL DEF Spec

(* Every variable keeps its type; in particular the sequence numbers of    *)
(* P2PConnection stay below the modulus.                                   *)
THEOREM TypeCorrect == Spec => []TypeOK
<1>1. Inv => TypeOK
  BY DEF Inv
<1>. QED BY <1>1, Invariance, PTL

(* Management._connections holds no connection that the caller has left,   *)
(* whichever step of request() or disconnect() failed.                     *)
THEOREM ConnectionsRemoved == Spec => []ClosedIsRemoved
<1>1. Inv => ClosedIsRemoved
  BY DEF Inv, TableInv, ClosedIsRemoved
<1>. QED BY <1>1, Invariance, PTL

(* nm_individual_address_check reports no address as free after the        *)
(* TDisconnect of its device has reached the connection.                   *)
THEOREM CheckSound == Spec => []FreeMeansNotRefused
<1>1. Inv => FreeMeansNotRefused
  BY DEF Inv, VerdictInv, FreeMeansNotRefused
<1>. QED BY <1>1, Invariance, PTL

-----------------------------------------------------------------------------
(* What the device executes.  Telegrams reach it in the order in which     *)
(* they were sent, and a request is sent once or twice, with one sequence  *)
(* number, before the next one and within one connection.                  *)

Data(q)  == {i \in 1..Len(q) : q[i].tpci = "TData"}
Opens(q) == {i \in 1..Len(q) : q[i].tpci = "TConnect"}

Executed(r) == \E k \in 1..Len(executed) : executed[k] = r

InOrder(q) ==
    /\ \A i, j \in Data(q) :
          i < j => /\ q[i].request <= q[j].request
                   /\ q[i].request = q[j].request => q[i].seq = q[j].seq
    /\ \A i, j \in Data(q), k \in Opens(q) :
          i < k /\ k < j => q[i].request < q[j].request

RequestsKnown ==
    /\ \A k \in 1..Len(executed) : executed[k] <= requests
    /\ \A j \in Data(toDevice) :
          /\ toDevice[j].request <= requests
          /\ \A k \in 1..Len(executed) : executed[k] <= toDevice[j].request

(* The device knows the repetition of what it has executed by its number,  *)
(* and no TConnect is in front of it that would reset the number.          *)
Repeated ==
    \A j \in Data(toDevice) : Executed(toDevice[j].request) =>
        /\ device.open => device.expected = Inc(toDevice[j].seq)
        /\ \A i \in Opens(toDevice) : i > j

(* The same for the repetition that _send_data may still send.             *)
MayRepeat ==
    task \in {"send", "ack", "late"} =>
        /\ \A j \in Data(toDevice) : toDevice[j].request = requests =>
              toDevice[j].seq = conn.current /\ \A i \in Opens(toDevice) : i < j
        /\ Executed(requests) =>
              /\ device.open => device.expected = Inc(conn.current)
              /\ Opens(toDevice) = {}

ClosedOwesNothing == ~device.open => device.owes = 0 /\ device.last = 0

Delivery ==
    /\ InOrder(toDevice) /\ RequestsKnown /\ Repeated /\ MayRepeat
    /\ ClosedOwesNothing /\ ExecutedOnce

LEMMA IncDiffers == \A n \in SeqNums : Inc(n) # n
BY ConstantsAssumption, Z3 DEF Inc, SeqNums

LEMMA ProcessCurrent ==
    ASSUME NEW c \in ConnType, NEW t \in Telegrams,
           t.tpci \in {"TDisconnect", "TAck", "TNak", "TData"}
    PROVE  Process(c, t).current = c.current
BY DEF Process, ConnType

(* The number before a number, and the one after it.                       *)
LEMMA IncInverse == \A n \in SeqNums : Inc((n + SeqMod - 1) % SeqMod) = n
BY ConstantsAssumption, Z3 DEF Inc, SeqNums

LEMMA IncInjective == \A m, n \in SeqNums : Inc(m) = Inc(n) => m = n
BY ConstantsAssumption, Z3 DEF Inc, SeqNums

(* P2PConnection.process takes at most the response that it expects.       *)
LEMMA ProcessIgnores ==
    ASSUME NEW c \in ConnType, NEW t \in Telegrams,
           t.tpci \in {"TDisconnect", "TAck", "TNak", "TData"},
           ~(t.tpci = "TData" /\ c.response.state = "pending" /\ t.seq = c.expected)
    PROVE  /\ Process(c, t).expected = c.expected
           /\ Process(c, t).response.state = "TData" => Process(c, t).response = c.response
<1>1. CASE t.tpci = "TDisconnect"
  BY <1>1 DEF Process, ConnType
<1>2. CASE t.tpci \in {"TAck", "TNak"}
  BY <1>2 DEF Process, ConnType
<1>3. CASE t.tpci = "TData"
  BY <1>3 DEF Process, ConnType
<1>. QED BY <1>1, <1>2, <1>3

(* The places of data and of TConnect in a queue that grows or shrinks.    *)
LEMMA Appended ==
    ASSUME NEW S, NEW q \in Seq(S), NEW t \in S
    PROVE  /\ Len(q) \in Nat
           /\ \A i \in Data(q) \cup Opens(q) : i \in 1..Len(q) /\ Append(q, t)[i] = q[i]
           /\ Append(q, t)[Len(q) + 1] = t
           /\ Data(Append(q, t)) = Data(q) \cup
                 (IF t.tpci = "TData" THEN {Len(q) + 1} ELSE {})
           /\ Opens(Append(q, t)) = Opens(q) \cup
                 (IF t.tpci = "TConnect" THEN {Len(q) + 1} ELSE {})
<1>1. /\ Len(q) \in Nat /\ Len(Append(q, t)) = Len(q) + 1
      /\ \A i \in 1..Len(q) : Append(q, t)[i] = q[i]
      /\ Append(q, t)[Len(q) + 1] = t
  BY AppendProperties
<1>2. 1..(Len(q) + 1) = 1..Len(q) \cup {Len(q) + 1}
  BY <1>1
<1>. QED BY <1>1, <1>2 DEF Data, Opens

LEMMA SentAppended ==
    ASSUME NEW q \in Seq(Telegrams), NEW t \in Telegrams
    PROVE  /\ t.tpci = "TData" => /\ Data(Append(q, t)) = Data(q) \cup {Len(q) + 1}
                                  /\ Opens(Append(q, t)) = Opens(q)
           /\ t.tpci \in {"TAck", "TDisconnect"} => /\ Data(Append(q, t)) = Data(q)
                                                    /\ Opens(Append(q, t)) = Opens(q)
<1>1. Data(Append(q, t)) = Data(q) \cup (IF t.tpci = "TData" THEN {Len(q) + 1} ELSE {})
  BY Appended
<1>2. Opens(Append(q, t)) = Opens(q) \cup (IF t.tpci = "TConnect" THEN {Len(q) + 1} ELSE {})
  BY Appended
<1>3. CASE t.tpci = "TData"
  BY <1>1, <1>2, <1>3
<1>4. CASE t.tpci \in {"TAck", "TDisconnect"}
  BY <1>1, <1>2, <1>4
<1>5. "TData" \notin {"TAck", "TDisconnect"}
  OBVIOUS
<1>. QED BY <1>3, <1>4, <1>5

LEMMA Shifted ==
    ASSUME NEW S, NEW q \in Seq(S), q # <<>>
    PROVE  /\ Len(q) \in Nat /\ 1 \in 1..Len(q) /\ q[1] = Head(q)
           /\ \A i \in Data(Tail(q)) : i \in Nat /\ i + 1 \in Data(q) /\ Tail(q)[i] = q[i + 1]
           /\ \A i \in Opens(Tail(q)) : i \in Nat /\ i + 1 \in Opens(q)
           /\ \A i \in Opens(q) : i = 1 \/ (i \in Nat /\ i - 1 \in Opens(Tail(q)))
<1>1. /\ Len(q) \in Nat /\ Len(q) > 0 /\ Len(Tail(q)) = Len(q) - 1 /\ q[1] = Head(q)
      /\ \A i \in 1..Len(Tail(q)) : Tail(q)[i] = q[i + 1]
  BY HeadTailProperties
<1>. QED BY <1>1 DEF Data, Opens

LEMMA DataTypes ==
    ASSUME NEW q \in Seq(Telegrams), NEW j \in Data(q)
    PROVE  /\ j \in Nat /\ q[j] \in Telegrams
           /\ q[j].request \in Nat /\ q[j].request \in 0..MaxRequests
           /\ q[j].seq \in SeqNums
<1>1. j \in 1..Len(q) /\ Len(q) \in Nat
  BY DEF Data
<1>2. q[j] \in Telegrams
  BY <1>1, ElementOfSeq
<1>. QED BY <1>1, <1>2 DEF Telegrams

LEMMA ExecutedTypes ==
    ASSUME TypeOK
    PROVE  /\ executed \in Seq(0..MaxRequests) /\ Len(executed) \in Nat
           /\ \A k \in 1..Len(executed) : executed[k] \in Nat
<1>1. executed \in Seq(0..MaxRequests) /\ 0..MaxRequests \subseteq Nat
  BY DEF TypeOK
<1>2. \A k \in 1..Len(executed) : executed[k] \in 0..MaxRequests
  BY <1>1, ElementOfSeq
<1>. QED BY <1>1, <1>2

(* Order is kept when the new telegram belongs behind the others.          *)
LEMMA OrderAppended ==
    ASSUME NEW q \in Seq(Telegrams), NEW t \in Telegrams, InOrder(q),
           t.tpci = "TData" => \A j \in Data(q) :
               /\ q[j].request <= t.request
               /\ q[j].request = t.request => q[j].seq = t.seq /\ \A i \in Opens(q) : i < j
    PROVE  InOrder(Append(q, t))
<1>. DEFINE n == Len(q) + 1
            a == Append(q, t)
<1>1. /\ Len(q) \in Nat
      /\ \A i \in Data(q) \cup Opens(q) : i \in 1..Len(q) /\ a[i] = q[i]
      /\ a[n] = t
      /\ Data(a) = Data(q) \cup (IF t.tpci = "TData" THEN {n} ELSE {})
      /\ Opens(a) = Opens(q) \cup (IF t.tpci = "TConnect" THEN {n} ELSE {})
  BY Appended
<1>2. \A i \in Data(q) \cup Opens(q) : i \in Nat /\ i < n /\ a[i] = q[i]
  BY <1>1
<1>3. n \in Nat /\ t.request \in Nat
  BY <1>1 DEF Telegrams
<1>4. \A j \in Data(q) : q[j].request \in Nat
  BY DataTypes
<1>. HIDE DEF n, a
<1>5. ASSUME NEW i \in Data(a), NEW j \in Data(a), i < j
      PROVE  /\ a[i].request <= a[j].request
             /\ a[i].request = a[j].request => a[i].seq = a[j].seq
  <2>1. i \in Data(q)
    BY <1>1, <1>2, <1>3, <1>5
  <2>2. CASE j \in Data(q)
    BY <1>2, <1>5, <2>1, <2>2 DEF InOrder
  <2>3. CASE j = n /\ t.tpci = "TData"
    BY <1>1, <1>2, <2>1, <2>3
  <2>. QED BY <1>1, <2>2, <2>3
<1>6. ASSUME NEW i \in Data(a), NEW j \in Data(a), NEW k \in Opens(a), i < k, k < j
      PROVE  a[i].request < a[j].request
  <2>1. i \in Data(q) /\ k \in Opens(q)
    BY <1>1, <1>2, <1>3, <1>6
  <2>2. CASE j \in Data(q)
    BY <1>2, <1>6, <2>1, <2>2 DEF InOrder
  <2>3. CASE j = n /\ t.tpci = "TData"
    <3>1. ~(k < i)
      BY <1>2, <1>6, <2>1
    <3>. QED BY <1>1, <1>2, <1>3, <1>4, <2>1, <2>3, <3>1
  <2>. QED BY <1>1, <2>2, <2>3
<1>. QED BY <1>5, <1>6 DEF InOrder, a

(* A step at which the client sends nothing and the device takes nothing.  *)
LEMMA QuietDelivery ==
    ASSUME Delivery, UNCHANGED <<toDevice, executed, requests>>,
           device'.open => device.open /\ device'.expected = device.expected,
           task' \in {"send", "ack", "late"} =>
               task \in {"send", "ack", "late"} /\ conn'.current = conn.current,
           ClosedOwesNothing'
    PROVE  Delivery'
<1>1. \A r : Executed(r)' <=> Executed(r)
  BY DEF Executed
<1>2. InOrder(toDevice)' /\ RequestsKnown' /\ ExecutedOnce'
  BY DEF Delivery, InOrder, RequestsKnown, ExecutedOnce
<1>3. Repeated'
  BY DEF Delivery, Repeated, Executed
<1>4. MayRepeat'
  BY DEF Delivery, MayRepeat, Executed
<1>. QED BY <1>2, <1>3, <1>4 DEF Delivery

(* The client sends a telegram.                                            *)
LEMMA SendDelivery ==
    ASSUME Delivery, TypeOK, NEW t \in Telegrams, toDevice' = Append(toDevice, t),
           UNCHANGED <<device, executed>>, requests' \in Nat, requests <= requests',
           t.tpci = "TData" =>
               /\ t.request <= requests'
               /\ \A k \in 1..Len(executed) : executed[k] <= t.request
               /\ \A j \in Data(toDevice) :
                     /\ toDevice[j].request <= t.request
                     /\ toDevice[j].request = t.request =>
                           toDevice[j].seq = t.seq /\ \A i \in Opens(toDevice) : i < j
               /\ Executed(t.request) =>
                     /\ device.open => device.expected = Inc(t.seq)
                     /\ Opens(toDevice) = {},
           MayRepeat'
    PROVE  Delivery'
<1>1. toDevice \in Seq(Telegrams) /\ requests \in Nat
  BY DEF TypeOK
<1>. DEFINE n == Len(toDevice) + 1
<1>2. /\ \A i \in Data(toDevice) \cup Opens(toDevice) :
            i \in 1..Len(toDevice) /\ toDevice'[i] = toDevice[i]
      /\ toDevice'[n] = t /\ Len(toDevice) \in Nat
      /\ Data(toDevice') = Data(toDevice) \cup (IF t.tpci = "TData" THEN {n} ELSE {})
      /\ Opens(toDevice') = Opens(toDevice) \cup (IF t.tpci = "TConnect" THEN {n} ELSE {})
  BY <1>1, Appended
<1>3. \A i \in Data(toDevice) \cup Opens(toDevice) :
        i \in Nat /\ i < n /\ toDevice'[i] = toDevice[i]
  BY <1>2
<1>4. \A j \in Data(toDevice) : toDevice[j].request \in Nat
  BY <1>1, DataTypes
<1>5. \A r : Executed(r)' <=> Executed(r)
  BY DEF Executed
<1>. HIDE DEF n
<1>6. InOrder(toDevice')
  BY <1>1, OrderAppended DEF Delivery
<1>7. RequestsKnown'
  <2>1. \A k \in 1..Len(executed) : executed[k] <= requests'
    <3>1. \A k \in 1..Len(executed) : executed[k] \in Nat /\ executed[k] <= requests
      BY ExecutedTypes DEF Delivery, RequestsKnown
    <3>. QED BY <1>1, <3>1
  <2>2. \A j \in Data(toDevice) : toDevice[j].request <= requests'
    BY <1>1, <1>4 DEF Delivery, RequestsKnown
  <2>. QED BY <1>2, <1>3, <2>1, <2>2 DEF Delivery, RequestsKnown
<1>8. Repeated'
  BY <1>2, <1>3, <1>5 DEF Delivery, Repeated
<1>9. ClosedOwesNothing' /\ ExecutedOnce'
  BY DEF Delivery, ClosedOwesNothing, ExecutedOnce
<1>. QED BY <1>6, <1>7, <1>8, <1>9 DEF Delivery

(* What a queue that has lost its head inherits about the places of        *)
(* TConnect.                                                               *)
LEMMA OpensShifted ==
    ASSUME NEW q \in Seq(Telegrams), q # <<>>, NEW j \in Nat
    PROVE  /\ (\A i \in Opens(q) : i > j + 1) => \A i \in Opens(Tail(q)) : i > j
           /\ (\A i \in Opens(q) : i < j + 1) => \A i \in Opens(Tail(q)) : i < j
<1>1. \A i \in Opens(Tail(q)) : i \in Nat /\ i + 1 \in Opens(q)
  BY Shifted
<1>. QED BY <1>1

LEMMA OrderShifted ==
    ASSUME NEW q \in Seq(Telegrams), q # <<>>, InOrder(q)
    PROVE  InOrder(Tail(q))
<1>1. /\ \A i \in Data(Tail(q)) : i \in Nat /\ i + 1 \in Data(q) /\ Tail(q)[i] = q[i + 1]
      /\ \A i \in Opens(Tail(q)) : i \in Nat /\ i + 1 \in Opens(q)
  BY Shifted
<1>2. ASSUME NEW i \in Data(Tail(q)), NEW j \in Data(Tail(q)), i < j
      PROVE  /\ Tail(q)[i].request <= Tail(q)[j].request
             /\ Tail(q)[i].request = Tail(q)[j].request => Tail(q)[i].seq = Tail(q)[j].seq
  <2>1. i + 1 < j + 1
    BY <1>1, <1>2
  <2>. QED BY <1>1, <2>1 DEF InOrder
<1>3. ASSUME NEW i \in Data(Tail(q)), NEW j \in Data(Tail(q)), NEW k \in Opens(Tail(q)),
             i < k, k < j
      PROVE  Tail(q)[i].request < Tail(q)[j].request
  <2>1. i + 1 < k + 1 /\ k + 1 < j + 1
    BY <1>1, <1>3
  <2>. QED BY <1>1, <2>1 DEF InOrder
<1>. QED BY <1>2, <1>3 DEF InOrder

(* The bus takes a telegram that the device does not execute.              *)
LEMMA TakenDelivery ==
    ASSUME Delivery, TypeOK, toDevice # <<>>, toDevice' = Tail(toDevice),
           UNCHANGED <<task, conn, requests, executed>>, ClosedOwesNothing',
           \/ device'.open => device.open /\ device'.expected = device.expected
           \/ Head(toDevice).tpci = "TConnect"
    PROVE  Delivery'
<1>1. toDevice \in Seq(Telegrams)
  BY DEF TypeOK
<1>2. /\ Len(toDevice) \in Nat /\ 1 \in 1..Len(toDevice) /\ toDevice[1] = Head(toDevice)
      /\ \A i \in Data(toDevice') :
            i \in Nat /\ i + 1 \in Data(toDevice) /\ toDevice'[i] = toDevice[i + 1]
      /\ \A i \in Opens(toDevice') : i \in Nat /\ i + 1 \in Opens(toDevice)
  BY <1>1, Shifted
<1>3. \A r : Executed(r)' <=> Executed(r)
  BY DEF Executed
<1>4. InOrder(toDevice')
  BY <1>1, OrderShifted DEF Delivery
<1>5. RequestsKnown' /\ ExecutedOnce'
  BY <1>2 DEF Delivery, RequestsKnown, ExecutedOnce
<1>6. CASE device'.open => device.open /\ device'.expected = device.expected
  <2>1. Repeated'
    <3>. SUFFICES ASSUME NEW j \in Data(toDevice'), Executed(toDevice'[j].request)
                  PROVE  /\ device'.open => device'.expected = Inc(toDevice'[j].seq)
                         /\ \A i \in Opens(toDevice') : i > j
      BY <1>3 DEF Repeated
    <3>1. j + 1 \in Data(toDevice) /\ toDevice'[j] = toDevice[j + 1] /\ j \in Nat
      BY <1>2
    <3>2. /\ device.open => device.expected = Inc(toDevice'[j].seq)
          /\ \A i \in Opens(toDevice) : i > j + 1
      BY <3>1 DEF Delivery, Repeated
    <3>3. \A i \in Opens(toDevice') : i > j
      BY <1>1, <3>1, <3>2, OpensShifted
    <3>. QED BY <1>6, <3>2, <3>3
  <2>2. MayRepeat'
    <3>. SUFFICES ASSUME task \in {"send", "ack", "late"}
                  PROVE  /\ \A j \in Data(toDevice') : toDevice'[j].request = requests =>
                               /\ toDevice'[j].seq = conn.current
                               /\ \A i \in Opens(toDevice') : i < j
                         /\ Executed(requests) =>
                               /\ device'.open => device'.expected = Inc(conn.current)
                               /\ Opens(toDevice') = {}
      BY <1>3 DEF MayRepeat
    <3>1. ASSUME NEW j \in Data(toDevice'), toDevice'[j].request = requests
          PROVE  toDevice'[j].seq = conn.current /\ \A i \in Opens(toDevice') : i < j
      <4>1. j + 1 \in Data(toDevice) /\ toDevice'[j] = toDevice[j + 1] /\ j \in Nat
        BY <1>2
      <4>2. toDevice[j + 1].seq = conn.current /\ \A i \in Opens(toDevice) : i < j + 1
        BY <3>1, <4>1 DEF Delivery, MayRepeat
      <4>. QED BY <1>1, <4>1, <4>2, OpensShifted
    <3>. QED BY <1>2, <1>6, <3>1 DEF Delivery, MayRepeat
  <2>. QED BY <1>4, <1>5, <2>1, <2>2 DEF Delivery
<1>7. CASE Head(toDevice).tpci = "TConnect"
  <2>1. 1 \in Opens(toDevice)
    BY <1>2, <1>7 DEF Opens
  <2>2. \A j \in Data(toDevice) : j \in Nat /\ j >= 1 /\ ~(1 > j)
    BY <1>1, DataTypes DEF Data
  <2>3. \A j \in Data(toDevice) : ~Executed(toDevice[j].request)
    BY <2>1, <2>2 DEF Delivery, Repeated
  <2>4. Repeated'
    BY <1>2, <1>3, <2>3 DEF Repeated
  <2>5. MayRepeat'
    <3>. SUFFICES ASSUME task \in {"send", "ack", "late"}
                  PROVE  /\ \A j \in Data(toDevice') : toDevice'[j].request = requests =>
                               /\ toDevice'[j].seq = conn.current
                               /\ \A i \in Opens(toDevice') : i < j
                         /\ ~Executed(requests)
      BY <1>3 DEF MayRepeat
    <3>1. ASSUME NEW j \in Data(toDevice'), toDevice'[j].request = requests
          PROVE  toDevice'[j].seq = conn.current /\ \A i \in Opens(toDevice') : i < j
      <4>1. j + 1 \in Data(toDevice) /\ toDevice'[j] = toDevice[j + 1] /\ j \in Nat
        BY <1>2
      <4>2. toDevice[j + 1].seq = conn.current /\ \A i \in Opens(toDevice) : i < j + 1
        BY <3>1, <4>1 DEF Delivery, MayRepeat
      <4>. QED BY <1>1, <4>1, <4>2, OpensShifted
    <3>. QED BY <2>1, <3>1 DEF Delivery, MayRepeat
  <2>. QED BY <1>4, <1>5, <2>4, <2>5 DEF Delivery
<1>. QED BY <1>6, <1>7

LEMMA LessIsNot == \A m, n \in Nat : ~(m < n /\ n <= m) /\ ~(m < m)
  OBVIOUS

(* The device executes a request that is new to it.                        *)
LEMMA ExecutedDelivery ==
    ASSUME Delivery, TypeOK, toDevice # <<>>, toDevice' = Tail(toDevice),
           UNCHANGED <<task, conn, requests>>, device.open,
           NEW t, t = Head(toDevice), t.tpci = "TData", t.seq = device.expected,
           device' = [device EXCEPT !.expected = Inc(@), !.owes = t.request],
           executed' = Append(executed, t.request)
    PROVE  Delivery' /\ ~Executed(t.request)
<1>1. toDevice \in Seq(Telegrams)
  BY DEF TypeOK
<1>2. /\ Len(toDevice) \in Nat /\ 1 \in 1..Len(toDevice) /\ toDevice[1] = t
      /\ \A i \in Data(toDevice') :
            i \in Nat /\ i + 1 \in Data(toDevice) /\ toDevice'[i] = toDevice[i + 1]
      /\ \A i \in Opens(toDevice') : i \in Nat /\ i + 1 \in Opens(toDevice)
  BY <1>1, Shifted
<1>3. 1 \in Data(toDevice)
  BY <1>2 DEF Data
<1>4. t.seq \in SeqNums /\ t.request \in Nat
  BY <1>1, <1>2, <1>3, DataTypes
<1>5. ~Executed(t.request)
  <2>1. Executed(t.request) => device.expected = Inc(t.seq)
    BY <1>2, <1>3 DEF Delivery, Repeated
  <2>. QED BY <1>4, <2>1, IncDiffers
<1>6. \A k \in 1..Len(executed) : executed[k] \in Nat /\ executed[k] < t.request
  <2>1. \A k \in 1..Len(executed) : executed[k] <= t.request /\ executed[k] # t.request
    BY <1>2, <1>3, <1>5 DEF Delivery, RequestsKnown, Executed
  <2>. QED BY <1>4, <2>1, ExecutedTypes
<1>7. /\ Len(executed) \in Nat /\ Len(executed') = Len(executed) + 1
      /\ \A k \in 1..Len(executed) : executed'[k] = executed[k]
      /\ executed'[Len(executed) + 1] = t.request
  BY <1>4, ExecutedTypes, AppendProperties DEF TypeOK
<1>8. \A k \in 1..Len(executed') :
        (k \in 1..Len(executed) /\ executed'[k] = executed[k])
        \/ (k = Len(executed) + 1 /\ executed'[k] = t.request)
  BY <1>7
<1>9. ExecutedOnce'
  <2>. SUFFICES ASSUME NEW i \in 1..Len(executed'), NEW j \in 1..Len(executed'), i < j
                PROVE  executed'[i] < executed'[j]
    BY DEF ExecutedOnce
  <2>1. i \in 1..Len(executed) /\ executed'[i] = executed[i]
    BY <1>7, <1>8
  <2>2. CASE j \in 1..Len(executed) /\ executed'[j] = executed[j]
    BY <2>1, <2>2 DEF Delivery, ExecutedOnce
  <2>3. CASE executed'[j] = t.request
    BY <1>6, <2>1, <2>3
  <2>. QED BY <1>8, <2>2, <2>3
<1>10. \A r : Executed(r)' => Executed(r) \/ r = t.request
  BY <1>8 DEF Executed
<1>11. \A j \in Data(toDevice') : /\ j + 1 > 1 /\ t.request <= toDevice'[j].request
                                  /\ t.request = toDevice'[j].request => t.seq = toDevice'[j].seq
  <2>. TAKE j \in Data(toDevice')
  <2>1. j \in Nat /\ j + 1 \in Data(toDevice) /\ toDevice'[j] = toDevice[j + 1] /\ j >= 1
    BY <1>2 DEF Data
  <2>2. 1 < j + 1
    BY <2>1
  <2>3. /\ toDevice[1].request <= toDevice[j + 1].request
        /\ toDevice[1].request = toDevice[j + 1].request => toDevice[1].seq = toDevice[j + 1].seq
    BY <1>3, <2>1, <2>2 DEF Delivery, InOrder
  <2>. QED BY <1>2, <2>1, <2>2, <2>3
<1>12. t.request <= requests
  BY <1>2, <1>3 DEF Delivery, RequestsKnown
<1>13. RequestsKnown'
  <2>1. \A k \in 1..Len(executed') : executed'[k] <= requests
    BY <1>8, <1>12 DEF Delivery, RequestsKnown
  <2>2. ASSUME NEW j \in Data(toDevice')
        PROVE  /\ toDevice'[j].request <= requests
               /\ \A k \in 1..Len(executed') : executed'[k] <= toDevice'[j].request
    BY <1>2, <1>8, <1>11 DEF Delivery, RequestsKnown
  <2>. QED BY <2>1, <2>2 DEF RequestsKnown
<1>14. device'.open /\ device'.expected = Inc(t.seq)
  BY DEF TypeOK, DeviceType
<1>15. Repeated'
  <2>. SUFFICES ASSUME NEW j \in Data(toDevice'),
                       NEW r, r = toDevice'[j].request, Executed(r)'
                PROVE  /\ device'.expected = Inc(toDevice'[j].seq)
                       /\ \A i \in Opens(toDevice') : i > j
    BY DEF Repeated, Executed
  <2>1. toDevice'[j] = toDevice[j + 1] /\ j + 1 \in Data(toDevice) /\ j \in Nat
    BY <1>2
  <2>2. r = t.request
    <3>1. CASE Executed(r)
      <4>1. PICK k \in 1..Len(executed) : executed[k] = r
        BY <3>1 DEF Executed
      <4>2. r \in Nat /\ r < t.request
        BY <1>6, <4>1
      <4>3. t.request <= r
        BY <1>11
      <4>. QED BY <1>4, <4>2, <4>3, LessIsNot
    <3>. QED BY <1>10, <3>1
  <2>3. ASSUME NEW i \in Opens(toDevice')
        PROVE  i > j
    <3>1. i + 1 \in Opens(toDevice) /\ i \in Nat /\ i >= 1
      BY <1>2 DEF Opens
    <3>2. i # j
      BY <2>1 DEF Opens, Data
    <3>3. ~(i < j)
      <4>1. i < j => 1 < i + 1 /\ i + 1 < j + 1
        BY <2>1, <3>1
      <4>2. i < j => toDevice[1].request < toDevice[j + 1].request
        BY <1>3, <2>1, <3>1, <4>1 DEF Delivery, InOrder
      <4>3. toDevice[1].request = t.request /\ toDevice[j + 1].request = t.request
        BY <1>2, <2>1, <2>2
      <4>. QED BY <1>4, <4>2, <4>3, LessIsNot
    <3>. QED BY <2>1, <3>1, <3>2, <3>3
  <2>. QED BY <1>11, <1>14, <2>2, <2>3
<1>16. MayRepeat'
  <2>. SUFFICES ASSUME task \in {"send", "ack", "late"}
                PROVE  /\ \A j \in Data(toDevice') : toDevice'[j].request = requests =>
                             /\ toDevice'[j].seq = conn.current
                             /\ \A i \in Opens(toDevice') : i < j
                       /\ Executed(requests)' =>
                             device'.expected = Inc(conn.current) /\ Opens(toDevice') = {}
    BY DEF MayRepeat
  <2>1. ASSUME NEW j \in Data(toDevice'), toDevice'[j].request = requests
        PROVE  toDevice'[j].seq = conn.current /\ \A i \in Opens(toDevice') : i < j
    <3>1. j + 1 \in Data(toDevice) /\ toDevice'[j] = toDevice[j + 1] /\ j \in Nat
      BY <1>2
    <3>2. toDevice[j + 1].seq = conn.current /\ \A i \in Opens(toDevice) : i < j + 1
      BY <2>1, <3>1 DEF Delivery, MayRepeat
    <3>. QED BY <1>1, <3>1, <3>2, OpensShifted
  <2>2. ASSUME Executed(requests)'
        PROVE  device'.expected = Inc(conn.current) /\ Opens(toDevice') = {}
    <3>1. t.request = requests
      <4>1. CASE Executed(requests)
        BY <1>4, <1>6, <1>12, <4>1 DEF Executed, TypeOK
      <4>2. Executed(requests) \/ requests = t.request
        BY <2>2, <1>10 DEF Executed
      <4>. QED BY <4>1, <4>2
    <3>2. t.seq = conn.current /\ \A i \in Opens(toDevice) : i < 1
      BY <1>2, <1>3, <3>1 DEF Delivery, MayRepeat
    <3>3. Opens(toDevice') = {}
      BY <1>2, <3>2
    <3>. QED BY <1>14, <3>2, <3>3
  <2>. QED BY <2>1, <2>2
<1>17. ClosedOwesNothing'
  BY <1>14 DEF ClosedOwesNothing
<1>18. InOrder(toDevice')
  BY <1>1, OrderShifted DEF Delivery
<1>. QED BY <1>5, <1>9, <1>13, <1>15, <1>16, <1>17, <1>18 DEF Delivery

(* The steps at which the client sends.                                    *)
LEMMA ClientDelivery ==
    ASSUME Inv, Delivery, Connect \/ SendData \/ Resend \/ Disconnect \/ TelegramReceived
    PROVE  Delivery'
<1>0. /\ TypeOK /\ requests \in Nat /\ \A n \in Nat : n <= n
      /\ toDevice \in Seq(Telegrams) /\ conn \in ConnType
  BY DEF Inv, TypeOK
<1>1. CASE Connect
  <2>1. /\ Telegram("TConnect", 0, 0) \in Telegrams
        /\ Telegram("TConnect", 0, 0).tpci = "TConnect"
    BY ConstantTypes, TelegramType DEF Telegram
  <2>2. MayRepeat'
    BY <1>1 DEF Connect, MayRepeat
  <2>. QED BY <1>0, <1>1, <2>1, <2>2, SendDelivery DEF Connect, SendTelegram
<1>2. CASE SendData
  <2>. DEFINE t == Telegram("TData", conn.sequence, requests + 1)
  <2>1. requests + 1 \in 0..MaxRequests
    BY <1>0, <1>2, ConstantTypes DEF SendData
  <2>2. t \in Telegrams /\ t.request = requests + 1 /\ t.seq = conn.sequence /\ t.tpci = "TData"
    BY <1>0, <2>1, TelegramType DEF Telegram, ConnType
  <2>3. /\ toDevice' = Append(toDevice, t) /\ UNCHANGED <<device, executed>>
        /\ requests' = requests + 1 /\ conn'.current = conn.sequence
    BY <1>0, <1>2 DEF SendData, SendTelegram, ConnType
  <2>. HIDE DEF t
  <2>4. requests' \in Nat /\ requests <= requests'
    BY <1>0, <2>3
  <2>5. ~Executed(requests + 1)
    BY <1>0, ExecutedTypes DEF Delivery, RequestsKnown, Executed
  <2>6. /\ \A k \in 1..Len(executed) : executed[k] <= t.request
        /\ t.request <= requests' /\ ~Executed(t.request)
    BY <1>0, <2>2, <2>3, <2>5, ExecutedTypes DEF Delivery, RequestsKnown
  <2>7. \A j \in Data(toDevice) : toDevice[j].request <= t.request /\ toDevice[j].request # t.request
    <3>1. \A j \in Data(toDevice) : toDevice[j].request \in Nat /\ toDevice[j].request <= requests
      BY <1>0, DataTypes DEF Delivery, RequestsKnown
    <3>. QED BY <1>0, <2>2, <3>1
  <2>8. MayRepeat'
    <3>1. /\ \A i \in Data(toDevice) \cup Opens(toDevice) :
                i \in 1..Len(toDevice) /\ toDevice'[i] = toDevice[i]
          /\ toDevice'[Len(toDevice) + 1] = t /\ Len(toDevice) \in Nat
          /\ Data(toDevice') = Data(toDevice) \cup {Len(toDevice) + 1}
          /\ Opens(toDevice') = Opens(toDevice)
      <4>1. /\ Data(Append(toDevice, t)) = Data(toDevice) \cup {Len(toDevice) + 1}
            /\ Opens(Append(toDevice, t)) = Opens(toDevice)
        BY <1>0, <2>2, SentAppended
      <4>. QED BY <1>0, <2>2, <2>3, <4>1, Appended
    <3>2. \A i \in Opens(toDevice) : i < Len(toDevice) + 1
      BY <3>1
    <3>3. ASSUME NEW j \in Data(toDevice'), toDevice'[j].request = requests'
          PROVE  toDevice'[j].seq = conn'.current /\ \A i \in Opens(toDevice') : i < j
      <4>1. j = Len(toDevice) + 1
        BY <2>2, <2>3, <2>7, <3>1, <3>3
      <4>. QED BY <2>2, <2>3, <3>1, <3>2, <4>1
    <3>4. ~Executed(requests)'
      BY <2>3, <2>5 DEF Executed
    <3>. QED BY <3>3, <3>4 DEF MayRepeat
  <2>. QED BY <1>0, <2>2, <2>3, <2>4, <2>6, <2>7, <2>8, SendDelivery
<1>3. CASE Resend
  <2>. DEFINE t == Telegram("TData", conn.current, requests)
  <2>1. t \in Telegrams /\ t.request = requests /\ t.seq = conn.current /\ t.tpci = "TData"
    BY <1>0, TelegramType DEF Telegram, ConnType, TypeOK
  <2>2. /\ toDevice' = Append(toDevice, t) /\ UNCHANGED <<device, executed, requests>>
        /\ task = "late"
    BY <1>3 DEF Resend, SendTelegram, callVars
  <2>. HIDE DEF t
  <2>3. MayRepeat'
    BY <1>3 DEF Resend, MayRepeat
  <2>4. /\ t.request <= requests'
        /\ \A k \in 1..Len(executed) : executed[k] <= t.request
        /\ \A j \in Data(toDevice) :
              /\ toDevice[j].request <= t.request
              /\ toDevice[j].request = t.request =>
                    toDevice[j].seq = t.seq /\ \A i \in Opens(toDevice) : i < j
        /\ Executed(t.request) =>
              /\ device.open => device.expected = Inc(t.seq)
              /\ Opens(toDevice) = {}
    BY <1>0, <2>1, <2>2 DEF Delivery, RequestsKnown, MayRepeat
  <2>. QED BY <1>0, <2>1, <2>2, <2>3, <2>4, SendDelivery
<1>4. CASE Disconnect
  <2>1. /\ Telegram("TDisconnect", 0, 0) \in Telegrams
        /\ Telegram("TDisconnect", 0, 0).tpci = "TDisconnect"
    BY ConstantTypes, TelegramType DEF Telegram
  <2>2. MayRepeat'
    BY <1>4 DEF Disconnect, MayRepeat
  <2>. QED BY <1>0, <1>4, <2>1, <2>2, SendDelivery DEF Disconnect, SendTelegram, callVars
<1>5. CASE TelegramReceived
  <2>. DEFINE t == Head(toTask)
              a == Telegram("TAck", t.seq, 0)
  <2>1. t \in FromDevice
    BY <1>5, QueueType DEF TelegramReceived, Inv, TypeOK
  <2>2. t \in Telegrams /\ t.tpci \in {"TDisconnect", "TAck", "TNak", "TData"}
    BY <1>5, <2>1 DEF TelegramReceived, FromDevice, Telegrams
  <2>3. /\ toDevice' = IF t.tpci = "TData" THEN Append(toDevice, a) ELSE toDevice
        /\ conn' = IF registered THEN Process(conn, t) ELSE conn
        /\ UNCHANGED <<task, requests, device, executed>>
    BY <1>5 DEF TelegramReceived, callVars
  <2>. HIDE DEF t
  <2>4. conn'.current = conn.current
    BY <1>0, <2>2, <2>3, ProcessCurrent
  <2>5. a \in Telegrams /\ a.tpci = "TAck"
    BY <2>2, ConstantTypes, TelegramType DEF Telegram, Telegrams
  <2>. HIDE DEF a
  <2>6. CASE t.tpci = "TData"
    <3>1. toDevice' = Append(toDevice, a)
      BY <2>3, <2>6
    <3>2. /\ \A i \in Data(toDevice) : toDevice'[i] = toDevice[i]
          /\ Data(toDevice') = Data(toDevice) /\ Opens(toDevice') = Opens(toDevice)
      <4>1. /\ Data(Append(toDevice, a)) = Data(toDevice)
            /\ Opens(Append(toDevice, a)) = Opens(toDevice)
        BY <1>0, <2>5, SentAppended
      <4>. QED BY <1>0, <2>5, <3>1, <4>1, Appended
    <3>3. MayRepeat'
      BY <2>3, <2>4, <3>2 DEF Delivery, MayRepeat, Executed
    <3>. QED BY <1>0, <2>3, <2>5, <3>1, <3>3, SendDelivery
  <2>7. CASE t.tpci # "TData"
    <3>1. toDevice' = toDevice /\ ClosedOwesNothing'
      BY <2>3, <2>7 DEF Delivery, ClosedOwesNothing
    <3>. QED BY <2>3, <2>4, <3>1, QuietDelivery
  <2>. QED BY <2>6, <2>7
<1>. QED BY <1>1, <1>2, <1>3, <1>4, <1>5

(* The steps of the bus and the device.                                    *)
LEMMA DeviceDelivery ==
    ASSUME Inv, Delivery, BusTransmits \/ DeviceResponds \/ DeviceRepeats
                             \/ DeviceDisconnects \/ TelegramLost
    PROVE  Delivery'
<1>0. TypeOK /\ device \in DeviceType
  BY DEF Inv, TypeOK
<1>s. UNCHANGED <<task, conn, requests>>
  BY DEF BusTransmits, DeviceResponds, DeviceRepeats, DeviceDisconnects, TelegramLost, callVars
<1>1. CASE BusTransmits
  <2>. DEFINE t == Head(toDevice)
  <2>1. toDevice # <<>> /\ toDevice' = Tail(toDevice)
    BY <1>1 DEF BusTransmits
  <2>2. CASE t.tpci = "TConnect" /\ device.kind = "refuses"
    <3>1. UNCHANGED <<device, executed>> /\ ClosedOwesNothing'
      BY <1>1, <2>2 DEF BusTransmits, Delivery, ClosedOwesNothing
    <3>. QED BY <1>0, <1>s, <2>1, <3>1, TakenDelivery
  <2>3. CASE t.tpci = "TData" /\ device.open
    <3>1. DeviceTakesData(t)
      BY <1>1, <2>3 DEF BusTransmits
    <3>2. CASE t.seq = device.expected
      <4>1. /\ device' = [device EXCEPT !.expected = Inc(@), !.owes = t.request]
            /\ executed' = Append(executed, t.request)
        <5>1. t.seq \in SeqNums
          <6>1. t \in Telegrams
            BY <2>1, QueueType DEF Inv, TypeOK
          <6>. QED BY <6>1 DEF Telegrams
        <5>2. Inc(t.seq) # device.expected
          BY <3>2, <5>1, IncDiffers
        <5>. QED BY <3>1, <3>2, <5>2 DEF DeviceTakesData
      <4>. QED BY <1>0, <1>s, <2>1, <2>3, <3>2, <4>1, ExecutedDelivery
    <3>3. CASE t.seq # device.expected
      <4>1. UNCHANGED <<device, executed>> /\ ClosedOwesNothing'
        BY <3>1, <3>3 DEF DeviceTakesData, Delivery, ClosedOwesNothing
      <4>. QED BY <1>0, <1>s, <2>1, <4>1, TakenDelivery
    <3>. QED BY <3>2, <3>3
  <2>4. CASE /\ ~(t.tpci = "TConnect" /\ device.kind = "refuses")
             /\ ~(t.tpci = "TData" /\ device.open)
    <3>1. /\ UNCHANGED executed
          /\ \/ /\ t.tpci = "TConnect"
                /\ device' = [device EXCEPT !.open = TRUE, !.expected = 0,
                                            !.sequence = 0, !.owes = 0, !.last = 0]
             \/ device' = [device EXCEPT !.open = FALSE, !.owes = 0, !.last = 0]
             \/ UNCHANGED device
      BY <1>1, <2>4 DEF BusTransmits
    <3>2. /\ ClosedOwesNothing'
          /\ \/ device'.open => device.open /\ device'.expected = device.expected
             \/ t.tpci = "TConnect"
      BY <1>0, <3>1 DEF Delivery, ClosedOwesNothing, DeviceType
    <3>. QED BY <1>0, <1>s, <2>1, <3>1, <3>2, TakenDelivery
  <2>. QED BY <2>2, <2>3, <2>4
<1>2. CASE DeviceResponds
  <2>1. /\ UNCHANGED <<toDevice, executed>> /\ device.open /\ device'.open
        /\ device'.expected = device.expected
    BY <1>0, <1>2 DEF DeviceResponds, DeviceType, Delivery, ClosedOwesNothing
  <2>. QED BY <1>s, <2>1, QuietDelivery DEF ClosedOwesNothing
<1>3. CASE DeviceRepeats
  <2>1. UNCHANGED <<toDevice, executed, device>> /\ ClosedOwesNothing'
    BY <1>3 DEF DeviceRepeats, Delivery, ClosedOwesNothing
  <2>. QED BY <1>s, <2>1, QuietDelivery
<1>4. CASE DeviceDisconnects
  <2>1. UNCHANGED <<toDevice, executed>> /\ ~device'.open /\ ClosedOwesNothing'
    BY <1>0, <1>4, ConstantTypes DEF DeviceDisconnects, DeviceType, ClosedOwesNothing
  <2>. QED BY <1>s, <2>1, QuietDelivery
<1>5. CASE TelegramLost
  <2>1. UNCHANGED <<executed, device>> /\ ClosedOwesNothing'
    BY <1>5 DEF TelegramLost, Delivery, ClosedOwesNothing
  <2>2. \/ toDevice # <<>> /\ toDevice' = Tail(toDevice)
        \/ UNCHANGED toDevice
    BY <1>5 DEF TelegramLost
  <2>3. CASE toDevice # <<>> /\ toDevice' = Tail(toDevice)
    BY <1>0, <1>s, <2>1, <2>3, TakenDelivery
  <2>4. CASE UNCHANGED toDevice
    BY <1>s, <2>1, <2>4, QuietDelivery
  <2>. QED BY <2>2, <2>3, <2>4
<1>. QED BY <1>1, <1>2, <1>3, <1>4, <1>5

(* The steps of the task at which nothing is sent.                         *)
LEMMA TaskDelivery ==
    ASSUME Inv, Delivery,
           \/ Connected \/ ConnectRaises \/ Request \/ RequestRefused \/ Sent \/ SendFails
           \/ AckTimeout \/ AckMissing \/ AckAwaited \/ Received \/ ReceiveTimeout
           \/ ReceiveFails \/ DisconnectRefused \/ Disconnected \/ DisconnectRaises
           \/ ConfirmationReceived \/ UNCHANGED vars
    PROVE  Delivery'
<1>1. UNCHANGED <<toDevice, executed, requests, device>>
  BY DEF Connected, ConnectRaises, Request, RequestRefused, Sent, SendFails, AckTimeout,
         AckMissing, AckAwaited, Received, ReceiveTimeout, ReceiveFails, DisconnectRefused,
         Disconnected, DisconnectRaises, ConfirmationReceived, Ends, Removed, callVars,
         busVars, vars
<1>2. task' \in {"send", "ack", "late"} =>
         task \in {"send", "ack", "late"} /\ conn'.current = conn.current
  BY DEF Connected, ConnectRaises, Request, RequestRefused, Sent, SendFails, AckTimeout,
         AckMissing, AckAwaited, Received, ReceiveTimeout, ReceiveFails, DisconnectRefused,
         Disconnected, DisconnectRaises, ConfirmationReceived, Ends, Removed, vars,
         Inv, TypeOK, ConnType
<1>3. ClosedOwesNothing'
  BY <1>1 DEF Delivery, ClosedOwesNothing
<1>. QED BY <1>1, <1>2, <1>3, QuietDelivery

(* The two halves of the invariant, in every behaviour.                    *)
THEOREM DeliveryInvariance == Spec => [](Inv /\ Delivery)
<1>1. Init => Delivery
  <2>. SUFFICES ASSUME Init PROVE Delivery
    OBVIOUS
  <2>1. Data(toDevice) = {} /\ Opens(toDevice) = {} /\ Len(executed) = 0
    BY DEF Init, Data, Opens
  <2>2. ~Executed(requests)
    BY <2>1 DEF Executed
  <2>3. ClosedOwesNothing
    BY DEF Init, ClosedOwesNothing
  <2>. QED BY <2>1, <2>2, <2>3
           DEF Delivery, InOrder, RequestsKnown, Repeated, MayRepeat, ExecutedOnce
<1>2. Inv /\ Delivery /\ [Next]_vars => Delivery'
  BY ClientDelivery, DeviceDelivery, TaskDelivery DEF Next, Requesting, Bus
<1>. QED BY <1>1, <1>2, Invariance, PTL DEF Spec

(* No request is executed twice, although _send_data repeats it when the   *)
(* acknowledge is late and the device counts modulo SeqMod.                *)
THEOREM RequestsExecutedOnce == Spec => []ExecutedOnce
<1>1. Inv /\ Delivery => ExecutedOnce
  BY DEF Delivery
<1>. QED BY <1>1, DeliveryInvariance, PTL

-----------------------------------------------------------------------------
(* The responses.  While a connection is clean, the client has awaited the *)
(* response to each of its requests before it sent the next one: what is   *)
(* under way are repetitions of the last response that it has taken, and   *)
(* behind them the response to the current request.                        *)

(* Only responses that the client has taken are in q; e is the number that *)
(* it expects.                                                             *)
AllOld(q, e) == \A j \in Data(q) : Inc(q[j].seq) = e

(* Behind them there may be the response to request r.                     *)
OldThenNew(q, e, r) ==
    /\ \A j \in Data(q) : Inc(q[j].seq) = e \/ (q[j].seq = e /\ q[j].request = r)
    /\ \A i, j \in Data(q) : i < j /\ q[i].seq = e => q[j].seq = e

OpensFirst(q) == \A i \in Opens(q), j \in Data(q) : i < j

LEMMA NoOpenBefore ==
    ASSUME NEW q, 1 \in Data(q), OpensFirst(q)
    PROVE  Opens(q) = {}
<1>1. \A i \in Opens(q) : i < 1 /\ i \in 1..Len(q)
  BY DEF OpensFirst, Opens
<1>. QED BY <1>1

(* A TConnect that has not reached the device comes before all requests of *)
(* the connection, and before it nothing is answered.                      *)
Opening ==
    Opens(toDevice) # {} =>
        /\ device.owes = 0 /\ device.last = 0 /\ Data(toTask) = {}
        /\ conn.expected = 0 /\ conn.response.state # "TData"
        /\ device.open => device.sequence = 0
        /\ OpensFirst(toDevice)

(* The device has answered all requests but the current one, or all.       *)
Answered ==
    device.open =>
        \/ /\ device.sequence = conn.expected /\ AllOld(toTask, conn.expected)
           /\ device.owes # 0 => /\ device.owes = requests /\ Executed(requests)
                                 /\ conn.response.state # "TData"
        \/ /\ device.sequence = Inc(conn.expected) /\ device.owes = 0
           /\ device.last = requests /\ Executed(requests)
           /\ conn.response.state # "TData"

Responses ==
    /\ OldThenNew(toTask, conn.expected, requests)
    /\ AllOld(toTask, conn.expected) \/ Executed(requests)
    /\ conn.response.state = "TData" =>
          /\ conn.response.request = requests /\ Executed(requests)
          /\ AllOld(toTask, conn.expected)
    /\ \A j \in Data(toDevice) :
          toDevice[j].request = requests \/ Executed(toDevice[j].request)

(* Between two requests nothing is left to be executed or answered.        *)
BetweenRequests ==
    task \in {"connecting", "up", "pausing", "closing"} =>
        /\ conn.response.state # "TData" /\ AllOld(toTask, conn.expected)
        /\ device.open => device.sequence = conn.expected /\ device.owes = 0
        /\ \A j \in Data(toDevice) : Executed(toDevice[j].request)

Result ==
    /\ task = "connecting" => outcome.what = "none"
    /\ task = "up" /\ outcome.what = "response" => outcome.request = requests

Matching == Opening /\ Answered /\ Responses /\ BetweenRequests /\ Result

CleanMatching == task # "idle" /\ conn.clean => Matching

LEMMA FromDeviceData ==
    ASSUME NEW q \in Seq(FromDevice), NEW j \in Data(q)
    PROVE  j \in Nat /\ q[j] \in FromDevice /\ q[j].seq \in SeqNums
<1>1. j \in 1..Len(q) /\ Len(q) \in Nat
  BY DEF Data
<1>2. q[j] \in FromDevice
  BY <1>1, ElementOfSeq
<1>. QED BY <1>1, <1>2 DEF FromDevice, Telegrams

LEMMA OldIsOld ==
    ASSUME NEW q \in Seq(FromDevice), NEW e \in SeqNums, NEW r, AllOld(q, e)
    PROVE  OldThenNew(q, e, r)
<1>1. \A j \in Data(q) : Inc(q[j].seq) # q[j].seq
  BY FromDeviceData, IncDiffers
<1>. QED BY <1>1 DEF AllOld, OldThenNew

(* A response, or its loss, that the client does not take.                 *)
LEMMA QueueShifted ==
    ASSUME NEW q \in Seq(FromDevice), q # <<>>, NEW e, NEW r
    PROVE  /\ AllOld(q, e) => AllOld(Tail(q), e)
           /\ OldThenNew(q, e, r) => OldThenNew(Tail(q), e, r)
           /\ Data(q) = {} => Data(Tail(q)) = {}
<1>1. \A i \in Data(Tail(q)) : i \in Nat /\ i + 1 \in Data(q) /\ Tail(q)[i] = q[i + 1]
  BY Shifted
<1>2. ASSUME OldThenNew(q, e, r) PROVE OldThenNew(Tail(q), e, r)
  <2>1. \A j \in Data(Tail(q)) :
          Inc(Tail(q)[j].seq) = e \/ (Tail(q)[j].seq = e /\ Tail(q)[j].request = r)
    BY <1>1, <1>2 DEF OldThenNew
  <2>2. ASSUME NEW i \in Data(Tail(q)), NEW j \in Data(Tail(q)), i < j, Tail(q)[i].seq = e
        PROVE  Tail(q)[j].seq = e
    <3>1. i + 1 < j + 1
      BY <1>1, <2>2
    <3>. QED BY <1>1, <1>2, <2>2, <3>1 DEF OldThenNew
  <2>. QED BY <2>1, <2>2 DEF OldThenNew
<1>. QED BY <1>1, <1>2 DEF AllOld

(* The client takes a response.                                            *)
LEMMA ResponseTaken ==
    ASSUME NEW q \in Seq(FromDevice), q # <<>>, NEW e \in SeqNums, NEW r,
           OldThenNew(q, e, r), Head(q).tpci = "TData", Head(q).seq = e
    PROVE  Head(q).request = r /\ AllOld(Tail(q), Inc(e)) /\ ~AllOld(q, e)
<1>1. /\ \A i \in Data(Tail(q)) : i \in Nat /\ i + 1 \in Data(q) /\ Tail(q)[i] = q[i + 1]
      /\ 1 \in 1..Len(q) /\ q[1] = Head(q)
  BY Shifted
<1>2. 1 \in Data(q) /\ Inc(e) # e
  BY <1>1, IncDiffers DEF Data
<1>3. \A i \in Data(Tail(q)) : Tail(q)[i].seq = e
  <2>. TAKE i \in Data(Tail(q))
  <2>1. 1 < i + 1
    BY <1>1 DEF Data
  <2>. QED BY <1>1, <1>2, <2>1 DEF OldThenNew
<1>. QED BY <1>1, <1>2, <1>3 DEF OldThenNew, AllOld

(* Telegrams that are no responses.                                        *)
LEMMA OthersAppended ==
    ASSUME NEW q \in Seq(FromDevice), NEW s \in Seq(FromDevice), Data(s) = {}
    PROVE  Data(q \o s) = Data(q) /\ \A j \in Data(q) : (q \o s)[j] = q[j]
<1>1. /\ Len(q) \in Nat /\ Len(s) \in Nat /\ Len(q \o s) = Len(q) + Len(s)
      /\ \A i \in 1..(Len(q) + Len(s)) :
            (q \o s)[i] = IF i <= Len(q) THEN q[i] ELSE s[i - Len(q)]
  BY ConcatProperties
<1>2. \A i \in 1..(Len(q) + Len(s)) :
         (q \o s)[i].tpci = "TData" => i \in 1..Len(q) /\ (q \o s)[i] = q[i]
  <2>. TAKE i \in 1..(Len(q) + Len(s))
  <2>1. CASE i <= Len(q)
    BY <1>1, <2>1
  <2>2. CASE ~(i <= Len(q))
    <3>1. i - Len(q) \in 1..Len(s)
      BY <1>1, <2>2
    <3>. QED BY <1>1, <2>2, <3>1 DEF Data
  <2>. QED BY <2>1, <2>2
<1>3. \A i \in 1..Len(q) : i \in 1..(Len(q) + Len(s)) /\ (q \o s)[i] = q[i]
  BY <1>1
<1>. QED BY <1>1, <1>2, <1>3 DEF Data

(* The device sends a response, again or for the first time.               *)
LEMMA ResponseAppended ==
    ASSUME NEW q \in Seq(FromDevice), NEW t \in FromDevice, t.tpci = "TData",
           NEW e \in SeqNums, NEW r
    PROVE  /\ AllOld(q, e) /\ Inc(t.seq) = e => AllOld(Append(q, t), e)
           /\ OldThenNew(q, e, r) /\ t.seq = e /\ t.request = r
                => OldThenNew(Append(q, t), e, r)
<1>. DEFINE n == Len(q) + 1
            a == Append(q, t)
<1>1. /\ Len(q) \in Nat
      /\ \A i \in Data(q) \cup Opens(q) : i \in 1..Len(q) /\ a[i] = q[i]
      /\ a[n] = t
      /\ Data(a) = Data(q) \cup {n}
  BY Appended
<1>2. \A i \in Data(q) : i \in Nat /\ i < n /\ a[i] = q[i]
  BY <1>1
<1>. HIDE DEF n, a
<1>3. AllOld(q, e) /\ Inc(t.seq) = e => AllOld(a, e)
  BY <1>1, <1>2 DEF AllOld
<1>4. ASSUME OldThenNew(q, e, r), t.seq = e, t.request = r PROVE OldThenNew(a, e, r)
  <2>1. \A j \in Data(a) : Inc(a[j].seq) = e \/ (a[j].seq = e /\ a[j].request = r)
    BY <1>1, <1>2, <1>4 DEF OldThenNew
  <2>2. ASSUME NEW i \in Data(a), NEW j \in Data(a), i < j, a[i].seq = e
        PROVE  a[j].seq = e
    <3>1. CASE j = n
      BY <1>1, <1>4, <3>1
    <3>2. CASE j \in Data(q)
      <4>1. i \in Data(q)
        <5>1. n \in Nat /\ j \in Nat /\ j < n
          BY <1>1, <1>2, <3>2 DEF n
        <5>2. i # n
          BY <2>2, <5>1
        <5>. QED BY <1>1, <5>2
      <4>. QED BY <1>2, <1>4, <2>2, <3>2, <4>1 DEF OldThenNew
    <3>. QED BY <1>1, <3>1, <3>2
  <2>. QED BY <2>1, <2>2 DEF OldThenNew
<1>. QED BY <1>3, <1>4 DEF a

(* A step that sends and takes no request and no response: some telegrams  *)
(* may have got lost, and the device may have closed.                      *)
Fewer ==
    /\ \A e, r : /\ AllOld(toTask, e) => AllOld(toTask', e)
                 /\ OldThenNew(toTask, e, r) => OldThenNew(toTask', e, r)
    /\ Data(toTask) = {} => Data(toTask') = {}
    /\ \A j \in Data(toDevice') : \E i \in Data(toDevice) : toDevice'[j] = toDevice[i]
    /\ Opens(toDevice) = {} => Opens(toDevice') = {}
    /\ OpensFirst(toDevice) => OpensFirst(toDevice')

LEMMA FewerMatching ==
    ASSUME Matching, Fewer, UNCHANGED <<executed, requests>>,
           device' = device \/ (~device'.open /\ device'.owes = 0 /\ device'.last = 0),
           conn'.expected = conn.expected,
           conn'.response.state = "TData" => conn'.response = conn.response,
           task' \in {"connecting", "up", "pausing", "closing"} =>
               task \in {"connecting", "up", "pausing", "closing"},
           Result'
    PROVE  Matching'
<1>1. \A r : Executed(r)' <=> Executed(r)
  BY DEF Executed
<1>2. Executed(requests)' <=> Executed(requests)
  BY DEF Executed
<1>3. \A j \in Data(toDevice') : \E i \in Data(toDevice) : toDevice'[j] = toDevice[i]
  BY DEF Fewer
<1>4. Opening'
  BY DEF Matching, Opening, Fewer
<1>5. Answered'
  BY <1>2 DEF Matching, Answered, Fewer
<1>6. Responses'
  <2>1. ASSUME NEW j \in Data(toDevice'), toDevice'[j].request # requests,
               NEW r, r = toDevice'[j].request
        PROVE  Executed(r)
    BY <1>3, <2>1 DEF Matching, Responses
  <2>2. \A j \in Data(toDevice') :
          toDevice'[j].request = requests \/ Executed(toDevice[j].request)'
    BY <2>1 DEF Executed
  <2>. QED BY <1>2, <2>2 DEF Matching, Responses, Fewer
<1>7. BetweenRequests'
  <2>1. ASSUME task' \in {"connecting", "up", "pausing", "closing"}, NEW j \in Data(toDevice'),
               NEW r, r = toDevice'[j].request
        PROVE  Executed(r)
    BY <1>3, <2>1 DEF Matching, BetweenRequests
  <2>2. task' \in {"connecting", "up", "pausing", "closing"} =>
          \A j \in Data(toDevice') : Executed(toDevice[j].request)'
    BY <2>1 DEF Executed
  <2>. QED BY <2>2 DEF Matching, BetweenRequests, Fewer
<1>. QED BY <1>4, <1>5, <1>6, <1>7 DEF Matching

(* What may happen to the two queues then.                                 *)
LEMMA TaskQueue ==
    ASSUME TypeOK, toTask # <<>>, toTask' = Tail(toTask)
    PROVE  /\ \A e, r : /\ AllOld(toTask, e) => AllOld(toTask', e)
                        /\ OldThenNew(toTask, e, r) => OldThenNew(toTask', e, r)
           /\ Data(toTask) = {} => Data(toTask') = {}
<1>1. toTask \in Seq(FromDevice)
  BY DEF TypeOK
<1>. QED BY <1>1, QueueShifted

LEMMA TaskQueueGrows ==
    ASSUME TypeOK, NEW s \in Seq(FromDevice), Data(s) = {}, toTask' = toTask \o s
    PROVE  /\ \A e, r : /\ AllOld(toTask, e) => AllOld(toTask', e)
                        /\ OldThenNew(toTask, e, r) => OldThenNew(toTask', e, r)
           /\ Data(toTask) = {} => Data(toTask') = {}
<1>1. Data(toTask') = Data(toTask) /\ \A j \in Data(toTask) : toTask'[j] = toTask[j]
  BY OthersAppended DEF TypeOK
<1>2. \A e : AllOld(toTask, e) => AllOld(toTask', e)
  BY <1>1 DEF AllOld
<1>3. ASSUME NEW e, NEW r, OldThenNew(toTask, e, r) PROVE OldThenNew(toTask', e, r)
  <2>1. \A j \in Data(toTask') :
          Inc(toTask'[j].seq) = e \/ (toTask'[j].seq = e /\ toTask'[j].request = r)
    BY <1>1, <1>3 DEF OldThenNew
  <2>2. \A i, j \in Data(toTask') : i < j /\ toTask'[i].seq = e => toTask'[j].seq = e
    BY <1>1, <1>3 DEF OldThenNew
  <2>. QED BY <2>1, <2>2 DEF OldThenNew
<1>. QED BY <1>1, <1>2, <1>3

LEMMA DeviceQueue ==
    ASSUME TypeOK, toDevice # <<>>, toDevice' = Tail(toDevice)
    PROVE  /\ \A j \in Data(toDevice') : \E i \in Data(toDevice) : toDevice'[j] = toDevice[i]
           /\ Opens(toDevice) = {} => Opens(toDevice') = {}
           /\ OpensFirst(toDevice) => OpensFirst(toDevice')
<1>1. toDevice \in Seq(Telegrams)
  BY DEF TypeOK
<1>2. /\ \A i \in Data(toDevice') :
            i \in Nat /\ i + 1 \in Data(toDevice) /\ toDevice'[i] = toDevice[i + 1]
      /\ \A i \in Opens(toDevice') : i \in Nat /\ i + 1 \in Opens(toDevice)
  BY <1>1, Shifted
<1>3. ASSUME OpensFirst(toDevice), NEW i \in Opens(toDevice'), NEW j \in Data(toDevice')
      PROVE  i < j
  <2>1. i \in Nat /\ j \in Nat /\ i + 1 < j + 1
    BY <1>2, <1>3 DEF OpensFirst
  <2>. QED BY <2>1
<1>. QED BY <1>2, <1>3 DEF OpensFirst

LEMMA DeviceQueueGrows ==
    ASSUME TypeOK, NEW t \in Telegrams, t.tpci \in {"TAck", "TDisconnect"},
           toDevice' = Append(toDevice, t)
    PROVE  /\ \A j \in Data(toDevice') : \E i \in Data(toDevice) : toDevice'[j] = toDevice[i]
           /\ Opens(toDevice) = {} => Opens(toDevice') = {}
           /\ OpensFirst(toDevice) => OpensFirst(toDevice')
<1>1. toDevice \in Seq(Telegrams)
  BY DEF TypeOK
<1>2. /\ Data(toDevice') = Data(toDevice) /\ Opens(toDevice') = Opens(toDevice)
      /\ \A i \in Data(toDevice) : toDevice'[i] = toDevice[i]
  BY <1>1, SentAppended, Appended
<1>. QED BY <1>2 DEF OpensFirst

-----------------------------------------------------------------------------
(* The steps that send or take.                                            *)

LEMMA ConnectMatching ==
    ASSUME Inv, Delivery, Connect
    PROVE  CleanMatching'
<1>. SUFFICES ASSUME conn'.clean PROVE Matching'
  BY DEF CleanMatching
<1>1. TypeOK /\ toDevice \in Seq(Telegrams)
  BY DEF Inv, TypeOK
<1>2. /\ conn'.clean = NoDataUnderWay /\ conn'.expected = 0
      /\ conn'.response.state = "pending"
  BY DEF Connect, NewConn, NoResponse
<1>3. /\ ~device.open /\ Data(toDevice) = {} /\ Data(toTask) = {}
      /\ device.owes = 0 /\ device.last = 0
  BY <1>2 DEF NoDataUnderWay, Data, Delivery, ClosedOwesNothing
<1>. DEFINE t == Telegram("TConnect", 0, 0)
<1>4. t \in Telegrams /\ t.tpci # "TData"
  BY ConstantTypes, TelegramType DEF Telegram
<1>5. /\ toDevice' = Append(toDevice, t) /\ UNCHANGED <<device, toTask>>
      /\ task' = "connecting" /\ outcome'.what = "none"
  BY DEF Connect, SendTelegram
<1>. HIDE DEF t
<1>6. Data(toDevice') = {}
  <2>1. Data(Append(toDevice, t)) = Data(toDevice) \cup
           (IF t.tpci = "TData" THEN {Len(toDevice) + 1} ELSE {})
    BY <1>1, <1>4, Appended
  <2>. QED BY <1>3, <1>4, <1>5, <2>1
<1>7. \A e, r : AllOld(toTask, e) /\ OldThenNew(toTask, e, r)
  BY <1>3 DEF AllOld, OldThenNew
<1>. QED BY <1>2, <1>3, <1>5, <1>6, <1>7
         DEF Matching, Opening, OpensFirst, Answered, Responses, BetweenRequests, Result

LEMMA SendDataMatching ==
    ASSUME Inv, Matching, SendData
    PROVE  Matching'
<1>0. TypeOK /\ requests \in Nat /\ toDevice \in Seq(Telegrams) /\ conn \in ConnType
      /\ toTask \in Seq(FromDevice) /\ conn.expected \in SeqNums
  BY DEF Inv, TypeOK, ConnType
<1>. DEFINE t == Telegram("TData", conn.sequence, requests + 1)
            n == Len(toDevice) + 1
<1>1. requests + 1 \in 0..MaxRequests
  BY <1>0, ConstantTypes DEF SendData
<1>2. t \in Telegrams /\ t.request = requests + 1 /\ t.tpci = "TData"
  BY <1>0, <1>1, TelegramType DEF Telegram, ConnType
<1>3. /\ toDevice' = Append(toDevice, t) /\ UNCHANGED <<device, executed, toTask>>
      /\ requests' = requests + 1 /\ task = "pausing" /\ task' = "send"
      /\ conn'.expected = conn.expected /\ conn'.response = conn.response
  BY <1>0 DEF SendData, SendTelegram, ConnType
<1>. HIDE DEF t
<1>4. /\ Data(toDevice') = Data(toDevice) \cup {n} /\ Opens(toDevice') = Opens(toDevice)
      /\ toDevice'[n] = t /\ \A i \in Data(toDevice) : toDevice'[i] = toDevice[i]
      /\ \A i \in Opens(toDevice) : i < n
  <2>1. /\ Len(toDevice) \in Nat /\ \A i \in Opens(toDevice) : i \in 1..Len(toDevice)
        /\ Data(toDevice') = Data(toDevice) \cup {n} /\ Opens(toDevice') = Opens(toDevice)
        /\ toDevice'[n] = t /\ \A i \in Data(toDevice) : toDevice'[i] = toDevice[i]
    BY <1>0, <1>2, <1>3, SentAppended, Appended
  <2>. QED BY <2>1
<1>. HIDE DEF n
<1>5. /\ conn.response.state # "TData" /\ AllOld(toTask, conn.expected)
      /\ device.open => device.sequence = conn.expected /\ device.owes = 0
      /\ \A j \in Data(toDevice) : Executed(toDevice[j].request)
  BY <1>3 DEF Matching, BetweenRequests
<1>6. \A r : OldThenNew(toTask, conn.expected, r)
  BY <1>0, <1>5, OldIsOld
<1>7. Opening'
  BY <1>3, <1>4 DEF Matching, Opening, OpensFirst
<1>8. Answered'
  BY <1>3, <1>5 DEF Answered
<1>9. Responses'
  <2>1. ASSUME NEW j \in Data(toDevice'), NEW r, r = toDevice'[j].request
        PROVE  r = requests' \/ Executed(r)
    BY <1>2, <1>3, <1>4, <1>5, <2>1
  <2>2. \A j \in Data(toDevice') :
          toDevice'[j].request = requests' \/ Executed(toDevice[j].request)'
    BY <1>3, <2>1 DEF Executed
  <2>. QED BY <1>3, <1>5, <1>6, <2>2 DEF Responses
<1>10. BetweenRequests' /\ Result'
  BY <1>3 DEF BetweenRequests, Result
<1>. QED BY <1>7, <1>8, <1>9, <1>10 DEF Matching

LEMMA ResendMatching ==
    ASSUME Inv, Matching, Resend
    PROVE  Matching'
<1>0. TypeOK /\ toDevice \in Seq(Telegrams) /\ conn \in ConnType
  BY DEF Inv, TypeOK
<1>. DEFINE t == Telegram("TData", conn.current, requests)
            n == Len(toDevice) + 1
<1>1. t \in Telegrams /\ t.request = requests /\ t.tpci = "TData"
  BY <1>0, TelegramType DEF Telegram, ConnType, TypeOK
<1>2. /\ toDevice' = Append(toDevice, t) /\ UNCHANGED <<device, executed, toTask, requests>>
      /\ task' = "resend"
      /\ conn'.expected = conn.expected /\ conn'.response = conn.response
  BY <1>0 DEF Resend, SendTelegram, ConnType, callVars
<1>. HIDE DEF t
<1>3. /\ Data(toDevice') = Data(toDevice) \cup {n} /\ Opens(toDevice') = Opens(toDevice)
      /\ toDevice'[n] = t /\ \A i \in Data(toDevice) : toDevice'[i] = toDevice[i]
      /\ \A i \in Opens(toDevice) : i < n
  <2>1. /\ Len(toDevice) \in Nat /\ \A i \in Opens(toDevice) : i \in 1..Len(toDevice)
        /\ Data(toDevice') = Data(toDevice) \cup {n} /\ Opens(toDevice') = Opens(toDevice)
        /\ toDevice'[n] = t /\ \A i \in Data(toDevice) : toDevice'[i] = toDevice[i]
    BY <1>0, <1>1, <1>2, SentAppended, Appended
  <2>. QED BY <2>1
<1>. HIDE DEF n
<1>4. Executed(requests)' <=> Executed(requests)
  BY <1>2 DEF Executed
<1>5. Opening'
  BY <1>2, <1>3 DEF Matching, Opening, OpensFirst
<1>6. Answered'
  BY <1>2, <1>4 DEF Matching, Answered
<1>7. Responses'
  <2>1. ASSUME NEW j \in Data(toDevice'), NEW r, r = toDevice'[j].request
        PROVE  r = requests \/ Executed(r)
    BY <1>1, <1>3, <2>1 DEF Matching, Responses
  <2>2. \A j \in Data(toDevice') :
          toDevice'[j].request = requests \/ Executed(toDevice[j].request)'
    BY <1>2, <2>1 DEF Executed
  <2>. QED BY <1>2, <1>4, <2>2 DEF Matching, Responses
<1>8. BetweenRequests' /\ Result'
  BY <1>2 DEF BetweenRequests, Result
<1>. QED BY <1>5, <1>6, <1>7, <1>8 DEF Matching

(* A response that is taken is the one to the current request.             *)
LEMMA TakenMatching ==
    ASSUME Inv, Matching, toTask # <<>>, toTask' = Tail(toTask),
           NEW t, t = Head(toTask), t.tpci = "TData", t.seq = conn.expected,
           conn.response.state = "pending",
           conn' = [conn EXCEPT !.response = [state |-> "TData", request |-> t.request],
                                !.expected = Inc(@)],
           UNCHANGED <<task, outcome, device, executed, requests>>,
           \A j \in Data(toDevice') : \E i \in Data(toDevice) : toDevice'[j] = toDevice[i],
           Opens(toDevice) = {} => Opens(toDevice') = {}
    PROVE  Matching'
<1>0. /\ toTask \in Seq(FromDevice) /\ Tail(toTask) \in Seq(FromDevice)
      /\ conn \in ConnType /\ conn.expected \in SeqNums /\ Inc(conn.expected) \in SeqNums
  BY QueueType, IncType DEF Inv, TypeOK, ConnType
<1>1. /\ conn'.response = [state |-> "TData", request |-> t.request]
      /\ conn'.expected = Inc(conn.expected)
  BY <1>0 DEF ConnType
<1>2. /\ t.request = requests /\ AllOld(toTask', Inc(conn.expected))
      /\ ~AllOld(toTask, conn.expected)
  BY <1>0, ResponseTaken DEF Matching, Responses
<1>3. Executed(requests) /\ (Executed(requests)' <=> Executed(requests))
  BY <1>2 DEF Matching, Responses, Executed
<1>4. task \notin {"connecting", "up", "pausing", "closing"}
  BY <1>2 DEF Matching, BetweenRequests
<1>5. device.open => device.sequence = Inc(conn.expected) /\ device.owes = 0
  BY <1>2 DEF Matching, Answered
<1>6. OldThenNew(toTask', Inc(conn.expected), requests)
  BY <1>0, <1>2, OldIsOld
<1>7. Opens(toDevice) = {}
  <2>1. Data(toTask) # {}
    BY <1>2 DEF AllOld
  <2>. QED BY <2>1 DEF Matching, Opening
<1>8. Responses'
  <2>1. ASSUME NEW j \in Data(toDevice'), NEW r, r = toDevice'[j].request
        PROVE  r = requests \/ Executed(r)
    BY <2>1 DEF Matching, Responses
  <2>2. \A j \in Data(toDevice') :
          toDevice'[j].request = requests \/ Executed(toDevice[j].request)'
    BY <2>1 DEF Executed
  <2>. QED BY <1>1, <1>2, <1>3, <1>6, <2>2 DEF Responses
<1>. QED BY <1>1, <1>2, <1>4, <1>5, <1>7, <1>8
         DEF Matching, Opening, Answered, BetweenRequests, Result

LEMMA TelegramMatching ==
    ASSUME Inv, Matching, TelegramReceived
    PROVE  Matching'
<1>0. TypeOK /\ conn \in ConnType
  BY DEF Inv, TypeOK
<1>. DEFINE t == Head(toTask)
            a == Telegram("TAck", t.seq, 0)
<1>1. t \in FromDevice /\ toTask # <<>> /\ toTask' = Tail(toTask)
  BY QueueType DEF TelegramReceived, Inv, TypeOK
<1>2. t \in Telegrams /\ t.tpci \in {"TDisconnect", "TAck", "TNak", "TData"}
  BY <1>1 DEF TelegramReceived, FromDevice, Telegrams
<1>3. /\ toDevice' = IF t.tpci = "TData" THEN Append(toDevice, a) ELSE toDevice
      /\ conn' = IF registered THEN Process(conn, t) ELSE conn
      /\ UNCHANGED <<task, outcome, requests, device, executed>>
  BY DEF TelegramReceived, callVars
<1>4. a \in Telegrams /\ a.tpci = "TAck"
  BY <1>2, ConstantTypes, TelegramType DEF Telegram, Telegrams
<1>5. /\ \A j \in Data(toDevice') : \E i \in Data(toDevice) : toDevice'[j] = toDevice[i]
      /\ Opens(toDevice) = {} => Opens(toDevice') = {}
      /\ OpensFirst(toDevice) => OpensFirst(toDevice')
  <2>. HIDE DEF t, a
  <2>1. CASE t.tpci = "TData"
    BY <1>0, <1>3, <1>4, <2>1, DeviceQueueGrows
  <2>2. CASE t.tpci # "TData"
    BY <1>3, <2>2
  <2>. QED BY <2>1, <2>2
<1>. HIDE DEF a
<1>6. CASE registered /\ t.tpci = "TData" /\ conn.response.state = "pending"
             /\ t.seq = conn.expected
  <2>1. conn' = [conn EXCEPT !.response = [state |-> "TData", request |-> t.request],
                             !.expected = Inc(@)]
    BY <1>3, <1>6 DEF Process
  <2>. QED BY <1>1, <1>3, <1>5, <1>6, <2>1, TakenMatching
<1>7. CASE ~(registered /\ t.tpci = "TData" /\ conn.response.state = "pending"
                /\ t.seq = conn.expected)
  <2>. HIDE DEF t
  <2>1. /\ conn'.expected = conn.expected
        /\ conn'.response.state = "TData" => conn'.response = conn.response
    BY <1>0, <1>2, <1>3, <1>7, ProcessIgnores
  <2>2. Fewer
    BY <1>0, <1>1, <1>5, TaskQueue DEF Fewer
  <2>3. Result'
    BY <1>3 DEF Matching, Result
  <2>. QED BY <1>3, <2>1, <2>2, <2>3, FewerMatching
<1>. QED BY <1>6, <1>7

(* request() returns.                                                      *)
LEMMA ReceivedMatching ==
    ASSUME Inv, Matching, Received, conn'.clean
    PROVE  Matching'
<1>0. conn \in ConnType /\ conn.clean \in BOOLEAN
  BY DEF Inv, TypeOK, ConnType
<1>1. conn.response.state = "TData"
  BY <1>0 DEF Received, Ends, ConnType
<1>2. /\ conn'.response = NoResponse /\ conn'.expected = conn.expected /\ task' = "up"
      /\ outcome'.request = conn.response.request
      /\ UNCHANGED <<toTask, toDevice, device, executed, requests>>
  BY <1>0, <1>1 DEF Received, Ends, ConnType, callVars, busVars
<1>3. /\ conn.response.request = requests /\ Executed(requests)
      /\ AllOld(toTask, conn.expected)
      /\ device.open => device.sequence = conn.expected /\ device.owes = 0
  BY <1>1 DEF Matching, Responses, Answered
<1>4. conn'.response.state # "TData"
  BY <1>2 DEF NoResponse
<1>5. \A r : Executed(r)' <=> Executed(r)
  BY <1>2 DEF Executed
<1>6. ASSUME NEW j \in Data(toDevice), NEW r, r = toDevice[j].request
      PROVE  Executed(r)
  BY <1>3, <1>6 DEF Matching, Responses
<1>7. \A j \in Data(toDevice') : Executed(toDevice[j].request)'
  BY <1>2, <1>6 DEF Executed
<1>8. Executed(requests)'
  BY <1>2, <1>3 DEF Executed
<1>9. Opening' /\ Answered'
  BY <1>2, <1>3, <1>4 DEF Matching, Opening, Answered
<1>10. Responses'
  BY <1>2, <1>3, <1>4, <1>7, <1>8 DEF Matching, Responses
<1>. QED BY <1>2, <1>3, <1>4, <1>7, <1>9, <1>10
         DEF Matching, BetweenRequests, Result

(* The device opens the connection.                                        *)
LEMMA OpenedMatching ==
    ASSUME Inv, Matching, toDevice # <<>>, toDevice' = Tail(toDevice),
           Head(toDevice).tpci = "TConnect",
           device' = [device EXCEPT !.open = TRUE, !.expected = 0,
                                    !.sequence = 0, !.owes = 0, !.last = 0],
           UNCHANGED <<task, conn, outcome, requests, executed>>, Fewer
    PROVE  Matching'
<1>1. /\ device'.open /\ device'.sequence = 0 /\ device'.owes = 0 /\ device'.last = 0
  BY DEF Inv, TypeOK, DeviceType
<1>2. 1 \in Opens(toDevice)
  <2>1. toDevice \in Seq(Telegrams)
    BY DEF Inv, TypeOK
  <2>2. 1 \in 1..Len(toDevice) /\ toDevice[1] = Head(toDevice)
    BY <2>1, Shifted
  <2>. QED BY <2>2 DEF Opens
<1>3. /\ Data(toTask) = {} /\ conn.expected = 0 /\ conn.response.state # "TData"
      /\ OpensFirst(toDevice)
  BY <1>2 DEF Matching, Opening
<1>4. Data(toTask') = {} /\ AllOld(toTask', 0) /\ OldThenNew(toTask', 0, requests)
  BY <1>3 DEF Fewer, AllOld, OldThenNew
<1>5. Executed(requests)' <=> Executed(requests)
  BY DEF Executed
<1>6. Opening' /\ Answered'
  BY <1>1, <1>3, <1>4 DEF Fewer, Opening, Answered
<1>7. ASSUME NEW j \in Data(toDevice'), NEW r, r = toDevice'[j].request
      PROVE  /\ r = requests \/ Executed(r)
             /\ task \in {"connecting", "up", "pausing", "closing"} => Executed(r)
  BY <1>7 DEF Fewer, Matching, Responses, BetweenRequests
<1>8. \A j \in Data(toDevice') :
        /\ toDevice'[j].request = requests \/ Executed(toDevice[j].request)'
        /\ task \in {"connecting", "up", "pausing", "closing"} =>
              Executed(toDevice[j].request)'
  BY <1>7 DEF Executed
<1>9. Responses' /\ BetweenRequests'
  BY <1>1, <1>3, <1>4, <1>8 DEF Responses, BetweenRequests
<1>. QED BY <1>6, <1>9 DEF Matching, Result

(* The device executes the current request, which it has not executed yet. *)
LEMMA ExecutedMatching ==
    ASSUME Inv, Matching, toDevice # <<>>, toDevice' = Tail(toDevice),
           NEW t, t = Head(toDevice), t.tpci = "TData", ~Executed(t.request), device.open,
           device' = [device EXCEPT !.expected = Inc(@), !.owes = t.request],
           executed' = Append(executed, t.request),
           UNCHANGED <<task, conn, outcome, requests>>, Fewer
    PROVE  Matching'
<1>1. TypeOK /\ toDevice \in Seq(Telegrams)
  BY DEF Inv, TypeOK
<1>2. 1 \in Data(toDevice) /\ toDevice[1] = t
  <2>1. 1 \in 1..Len(toDevice) /\ toDevice[1] = Head(toDevice)
    BY <1>1, Shifted
  <2>. QED BY <2>1 DEF Data
<1>3. t.request \in 0..MaxRequests
  BY <1>1, <1>2, DataTypes
<1>4. \A r : Executed(r) => Executed(r)'
  <2>1. /\ Len(executed) \in Nat /\ Len(executed') = Len(executed) + 1
        /\ \A k \in 1..Len(executed) : executed'[k] = executed[k]
    BY <1>1, <1>3, ExecutedTypes, AppendProperties
  <2>2. \A k \in 1..Len(executed) : k \in 1..Len(executed') /\ executed'[k] = executed[k]
    BY <2>1
  <2>. QED BY <2>2 DEF Executed
<1>5. t.request = requests /\ ~Executed(requests)
  BY <1>2 DEF Matching, Responses
<1>6. Executed(requests)'
  <2>1. /\ Len(executed) \in Nat /\ Len(executed') = Len(executed) + 1
        /\ executed'[Len(executed) + 1] = t.request
    BY <1>1, <1>3, ExecutedTypes, AppendProperties
  <2>2. Len(executed) + 1 \in 1..Len(executed')
    BY <2>1
  <2>. QED BY <1>5, <2>1, <2>2 DEF Executed
<1>7. /\ device'.open /\ device'.sequence = device.sequence /\ device'.owes = requests
  BY <1>5 DEF Inv, TypeOK, DeviceType
<1>8. /\ conn.response.state # "TData" /\ AllOld(toTask, conn.expected)
      /\ device.sequence = conn.expected
  BY <1>5 DEF Matching, Responses, Answered
<1>9. task \notin {"connecting", "up", "pausing", "closing"}
  BY <1>2, <1>5 DEF Matching, BetweenRequests
<1>10. Opens(toDevice) = {}
  BY <1>1, <1>2, DataTypes, NoOpenBefore DEF Matching, Opening
<1>11. Responses'
  <2>1. ASSUME NEW j \in Data(toDevice'), NEW r, r = toDevice'[j].request
        PROVE  r = requests \/ Executed(r)
    BY <2>1 DEF Fewer, Matching, Responses
  <2>2. ASSUME NEW j \in Data(toDevice'), NEW r, r = toDevice'[j].request
        PROVE  r = requests \/ Executed(r)'
    BY <1>4, <2>1, <2>2
  <2>3. \A j \in Data(toDevice') :
          toDevice'[j].request = requests \/ Executed(toDevice[j].request)'
    BY <2>2 DEF Executed
  <2>. QED BY <1>6, <1>8, <2>3 DEF Fewer, Matching, Responses
<1>. QED BY <1>6, <1>7, <1>8, <1>9, <1>10, <1>11
         DEF Fewer, Matching, Opening, Answered, BetweenRequests, Result

(* The device answers the current request.                                 *)
LEMMA RespondMatching ==
    ASSUME Inv, Delivery, Matching, DeviceResponds
    PROVE  Matching'
<1>0. /\ TypeOK /\ toTask \in Seq(FromDevice) /\ device \in DeviceType
      /\ conn.expected \in SeqNums
  BY DEF Inv, TypeOK, ConnType
<1>1. device.open /\ device.owes # 0
  BY <1>0 DEF DeviceResponds, DeviceType, Delivery, ClosedOwesNothing
<1>2. /\ device.sequence = conn.expected /\ AllOld(toTask, conn.expected)
      /\ device.owes = requests /\ Executed(requests) /\ conn.response.state # "TData"
  BY <1>1 DEF Matching, Answered
<1>. DEFINE t == Telegram("TData", device.sequence, device.owes)
<1>3. t \in FromDevice /\ t.tpci = "TData" /\ t.seq = conn.expected /\ t.request = requests
  BY <1>0, <1>2, FromDeviceType DEF DeviceType, Telegram
<1>4. /\ toTask' = Append(toTask, t)
      /\ UNCHANGED <<task, conn, outcome, requests, executed, toDevice>>
  BY DEF DeviceResponds, callVars
<1>. HIDE DEF t
<1>5. /\ device'.open /\ device'.sequence = Inc(conn.expected)
      /\ device'.owes = 0 /\ device'.last = requests
  BY <1>0, <1>1, <1>2 DEF DeviceResponds, DeviceType
<1>6. OldThenNew(toTask', conn.expected, requests)
  BY <1>0, <1>2, <1>3, <1>4, OldIsOld, ResponseAppended
<1>7. Executed(requests)' <=> Executed(requests)
  BY <1>4 DEF Executed
<1>8. \A j \in Data(toDevice') :
        toDevice'[j].request = requests \/ Executed(toDevice[j].request)'
  BY <1>4 DEF Matching, Responses, Executed
<1>9. Opens(toDevice) = {} /\ task \notin {"connecting", "up", "pausing", "closing"}
  BY <1>1 DEF Matching, Opening, BetweenRequests
<1>. QED BY <1>2, <1>4, <1>5, <1>6, <1>7, <1>8, <1>9
         DEF Matching, Opening, Answered, Responses, BetweenRequests, Result

(* The device repeats its last response.                                   *)
LEMMA RepeatMatching ==
    ASSUME Inv, Delivery, Matching, DeviceRepeats
    PROVE  Matching'
<1>0. /\ TypeOK /\ toTask \in Seq(FromDevice) /\ device \in DeviceType
      /\ conn.expected \in SeqNums
  BY DEF Inv, TypeOK, ConnType
<1>1. device.open /\ device.owes = 0 /\ device.last # 0
  BY <1>0 DEF DeviceRepeats, DeviceType, Delivery, ClosedOwesNothing
<1>. DEFINE s == (device.sequence + SeqMod - 1) % SeqMod
            t == Telegram("TData", s, device.last)
<1>2. s \in SeqNums /\ Inc(s) = device.sequence
  BY <1>0, IncType, IncInverse DEF DeviceType
<1>3. t \in FromDevice /\ t.tpci = "TData" /\ t.seq = s /\ t.request = device.last
  <2>. HIDE DEF s
  <2>. QED BY <1>0, <1>2, FromDeviceType DEF DeviceType, Telegram
<1>4. /\ toTask' = Append(toTask, t)
      /\ UNCHANGED <<task, conn, outcome, requests, executed, toDevice, device>>
  BY DEF DeviceRepeats, callVars
<1>. HIDE DEF s, t
<1>5. Executed(requests)' <=> Executed(requests)
  BY <1>4 DEF Executed
<1>6. \A j \in Data(toDevice') :
        /\ toDevice'[j].request = requests \/ Executed(toDevice[j].request)'
        /\ task \in {"connecting", "up", "pausing", "closing"} =>
              Executed(toDevice[j].request)'
  BY <1>4 DEF Matching, Responses, BetweenRequests, Executed
<1>7. Opens(toDevice) = {}
  BY <1>1 DEF Matching, Opening
<1>8. CASE device.sequence = conn.expected /\ AllOld(toTask, conn.expected)
  <2>1. AllOld(toTask', conn.expected)
    BY <1>0, <1>2, <1>3, <1>4, <1>8, ResponseAppended
  <2>2. toTask' \in Seq(FromDevice)
    BY <1>0, <1>3, <1>4, QueueType
  <2>3. OldThenNew(toTask', conn.expected, requests)
    BY <1>0, <2>1, <2>2, OldIsOld
  <2>. QED BY <1>4, <1>5, <1>6, <1>7, <1>8, <2>1, <2>3
           DEF Matching, Opening, Answered, Responses, BetweenRequests, Result
<1>9. CASE /\ device.sequence = Inc(conn.expected) /\ device.last = requests
           /\ Executed(requests) /\ conn.response.state # "TData"
  <2>1. s = conn.expected
    BY <1>0, <1>2, <1>9, IncInjective
  <2>2. OldThenNew(toTask', conn.expected, requests)
    BY <1>0, <1>3, <1>4, <1>9, <2>1, ResponseAppended DEF Matching, Responses
  <2>3. task \notin {"connecting", "up", "pausing", "closing"}
    BY <1>0, <1>1, <1>9, IncDiffers DEF Matching, BetweenRequests
  <2>. QED BY <1>1, <1>4, <1>5, <1>6, <1>7, <1>9, <2>2, <2>3
           DEF Matching, Opening, Answered, Responses, BetweenRequests, Result
<1>. QED BY <1>1, <1>8, <1>9 DEF Matching, Answered

-----------------------------------------------------------------------------
(* The other steps of the bus and the device.                              *)
LEMMA BusMatching ==
    ASSUME Inv, Delivery, Matching, BusTransmits
    PROVE  Matching'
<1>0. TypeOK /\ toDevice \in Seq(Telegrams) /\ device \in DeviceType
  BY DEF Inv, TypeOK
<1>s. UNCHANGED <<task, conn, outcome, requests>> /\ Result'
  BY DEF BusTransmits, callVars, Matching, Result
<1>. DEFINE t == Head(toDevice)
<1>1. toDevice # <<>> /\ toDevice' = Tail(toDevice) /\ t \in Telegrams
  BY <1>0, QueueType DEF BusTransmits
<1>. DEFINE con == Telegram("con", 0, 0)
            dis == Telegram("TDisconnect", 0, 0)
            ack == Telegram("TAck", t.seq, 0)
            nak == Telegram("TNak", t.seq, 0)
<1>2. /\ {con, dis, ack, nak} \subseteq FromDevice
      /\ \A u \in {con, dis, ack, nak} : u.tpci # "TData"
  BY <1>1, ConstantTypes, FromDeviceType DEF Telegrams, Telegram
<1>. HIDE DEF con, dis, ack, nak
<1>3. \E v \in Seq(FromDevice) : Data(v) = {} /\ toTask' = toTask \o v
  <2>1. ASSUME NEW u \in {con, dis, ack, nak}, NEW w \in {con, dis, ack, nak}
        PROVE  /\ <<u>> \in Seq(FromDevice) /\ Data(<<u>>) = {}
               /\ <<u, w>> \in Seq(FromDevice) /\ Data(<<u, w>>) = {}
    BY <1>2 DEF Data
  <2>2. Append(toTask, con) = toTask \o <<con>>
    BY <1>2 DEF TypeOK, Inv
  <2>3. \/ toTask' = toTask \o <<con, dis>>
        \/ toTask' = toTask \o <<con, ack>>
        \/ toTask' = toTask \o <<con, nak>>
        \/ toTask' = Append(toTask, con)
    BY DEF BusTransmits, DeviceTakesData, con, dis, ack, nak
  <2>. QED BY <2>1, <2>2, <2>3
<1>4. Fewer
  <2>1. PICK v \in Seq(FromDevice) : Data(v) = {} /\ toTask' = toTask \o v
    BY <1>3
  <2>. QED BY <1>0, <1>1, <2>1, TaskQueueGrows, DeviceQueue DEF Fewer
<1>5. \/ UNCHANGED <<device, executed>>
      \/ /\ t.tpci = "TData" /\ device.open /\ t.seq = device.expected
         /\ device' = [device EXCEPT !.expected = Inc(@), !.owes = t.request]
         /\ executed' = Append(executed, t.request)
      \/ /\ t.tpci = "TConnect" /\ UNCHANGED executed
         /\ device' = [device EXCEPT !.open = TRUE, !.expected = 0,
                                     !.sequence = 0, !.owes = 0, !.last = 0]
      \/ /\ UNCHANGED executed
         /\ device' = [device EXCEPT !.open = FALSE, !.owes = 0, !.last = 0]
  <2>1. CASE t.tpci = "TConnect" /\ device.kind = "refuses"
    BY <2>1 DEF BusTransmits
  <2>2. CASE t.tpci = "TData" /\ device.open
    <3>1. DeviceTakesData(t)
      BY <2>2 DEF BusTransmits
    <3>2. CASE t.seq = device.expected
      <4>1. t.seq \in SeqNums
        BY <1>1 DEF Telegrams
      <4>2. Inc(t.seq) # device.expected
        BY <3>2, <4>1, IncDiffers
      <4>. QED BY <2>2, <3>1, <3>2, <4>2 DEF DeviceTakesData
    <3>3. CASE t.seq # device.expected
      BY <3>1, <3>3 DEF DeviceTakesData
    <3>. QED BY <3>2, <3>3
  <2>3. CASE /\ ~(t.tpci = "TConnect" /\ device.kind = "refuses")
             /\ ~(t.tpci = "TData" /\ device.open)
    BY <2>3 DEF BusTransmits
  <2>. QED BY <2>1, <2>2, <2>3
<1>6. CASE UNCHANGED <<device, executed>>
  BY <1>4, <1>6, <1>s, FewerMatching
<1>7. CASE /\ t.tpci = "TData" /\ device.open /\ t.seq = device.expected
           /\ device' = [device EXCEPT !.expected = Inc(@), !.owes = t.request]
           /\ executed' = Append(executed, t.request)
  <2>1. ~Executed(t.request)
    BY <1>0, <1>1, <1>7, <1>s, ExecutedDelivery
  <2>. QED BY <1>1, <1>4, <1>7, <1>s, <2>1, ExecutedMatching
<1>8. CASE /\ t.tpci = "TConnect" /\ UNCHANGED executed
           /\ device' = [device EXCEPT !.open = TRUE, !.expected = 0,
                                       !.sequence = 0, !.owes = 0, !.last = 0]
  BY <1>1, <1>4, <1>8, <1>s, OpenedMatching
<1>9. CASE /\ UNCHANGED executed
           /\ device' = [device EXCEPT !.open = FALSE, !.owes = 0, !.last = 0]
  <2>1. ~device'.open /\ device'.owes = 0 /\ device'.last = 0
    BY <1>0, <1>9 DEF DeviceType
  <2>. QED BY <1>4, <1>9, <1>s, <2>1, FewerMatching
<1>. QED BY <1>5, <1>6, <1>7, <1>8, <1>9

LEMMA FaultMatching ==
    ASSUME Inv, Matching, DeviceDisconnects \/ TelegramLost
    PROVE  Matching'
<1>0. TypeOK /\ device \in DeviceType
  BY DEF Inv, TypeOK
<1>s. UNCHANGED <<task, conn, outcome, requests, executed>> /\ Result'
  BY DEF DeviceDisconnects, TelegramLost, callVars, Matching, Result
<1>1. CASE DeviceDisconnects
  <2>. DEFINE dis == Telegram("TDisconnect", 0, 0)
  <2>1. dis \in FromDevice /\ dis.tpci # "TData"
    BY ConstantTypes, FromDeviceType DEF Telegram
  <2>2. toTask' = Append(toTask, dis) /\ UNCHANGED toDevice
    BY <1>1 DEF DeviceDisconnects
  <2>. HIDE DEF dis
  <2>3. <<dis>> \in Seq(FromDevice) /\ Data(<<dis>>) = {} /\ toTask' = toTask \o <<dis>>
    BY <1>0, <2>1, <2>2 DEF TypeOK, Data
  <2>4. Fewer
    BY <1>0, <2>2, <2>3, TaskQueueGrows DEF Fewer
  <2>5. ~device'.open /\ device'.owes = 0 /\ device'.last = 0
    BY <1>0, <1>1 DEF DeviceDisconnects, DeviceType
  <2>. QED BY <1>s, <2>4, <2>5, FewerMatching
<1>2. CASE TelegramLost
  <2>1. \/ toDevice # <<>> /\ toDevice' = Tail(toDevice) /\ UNCHANGED toTask
        \/ toTask # <<>> /\ toTask' = Tail(toTask) /\ UNCHANGED toDevice
    BY <1>2 DEF TelegramLost
  <2>2. Fewer
    BY <1>0, <2>1, TaskQueue, DeviceQueue DEF Fewer
  <2>3. UNCHANGED device
    BY <1>2 DEF TelegramLost
  <2>. QED BY <1>s, <2>2, <2>3, FewerMatching
<1>. QED BY <1>1, <1>2

(* The other steps of the task, and the confirmations.                     *)
LEMMA TaskMatching ==
    ASSUME Inv, Matching, task' # "idle", conn'.clean,
           \/ Connected \/ Request \/ RequestRefused \/ Sent \/ SendFails
           \/ AckTimeout \/ AckMissing \/ AckAwaited \/ ReceiveTimeout
           \/ ReceiveFails \/ Disconnect \/ ConfirmationReceived \/ UNCHANGED vars
    PROVE  Matching'
<1>0. TypeOK /\ conn \in ConnType /\ conn.clean \in BOOLEAN
  BY DEF Inv, TypeOK, ConnType
<1>1. ~RequestRefused /\ ~SendFails /\ ~AckMissing /\ ~ReceiveFails
  BY <1>0 DEF RequestRefused, SendFails, AckMissing, ReceiveFails, Ends, ConnType
<1>2. /\ UNCHANGED <<device, executed, requests>>
      /\ conn'.expected = conn.expected
      /\ conn'.response.state = "TData" => conn'.response = conn.response
      /\ task' \in {"connecting", "up", "pausing", "closing"} =>
            task \in {"connecting", "up", "pausing", "closing"}
      /\ Result'
  <2>1. CASE Connected
    BY <1>0, <2>1 DEF Connected, ConnType, busVars, Matching, Result
  <2>2. CASE Request
    BY <1>0, <2>2 DEF Request, callVars, busVars, Result
  <2>3. CASE Sent
    BY <1>0, <2>3 DEF Sent, callVars, busVars, Result
  <2>4. CASE AckTimeout
    BY <1>0, <2>4 DEF AckTimeout, ConnType, callVars, busVars, Result
  <2>5. CASE AckAwaited
    <3>1. conn' = [conn EXCEPT !.ack = NoAck] /\ task' = "receive"
      BY <1>0, <2>5 DEF AckAwaited, Ends, ConnType
    <3>2. UNCHANGED <<device, executed, requests>>
      BY <2>5 DEF AckAwaited, Ends, callVars, busVars
    <3>. QED BY <1>0, <3>1, <3>2 DEF ConnType, Result
  <2>6. CASE ReceiveTimeout
    BY <1>0, <2>6 DEF ReceiveTimeout, ConnType, callVars, busVars, Result
  <2>7. CASE Disconnect
    BY <1>0, <2>7 DEF Disconnect, ConnType, callVars, Result
  <2>8. CASE ConfirmationReceived
    BY <1>0, <2>8 DEF ConfirmationReceived, callVars, Matching, Result
  <2>9. CASE UNCHANGED vars
    BY <1>0, <2>9 DEF vars, Matching, Result
  <2>. QED BY <1>1, <2>1, <2>2, <2>3, <2>4, <2>5, <2>6, <2>7, <2>8, <2>9
<1>3. Fewer
  <2>1. CASE Disconnect
    <3>1. /\ Telegram("TDisconnect", 0, 0) \in Telegrams
          /\ Telegram("TDisconnect", 0, 0).tpci = "TDisconnect"
      BY ConstantTypes, TelegramType DEF Telegram
    <3>2. toDevice' = Append(toDevice, Telegram("TDisconnect", 0, 0)) /\ UNCHANGED toTask
      BY <2>1 DEF Disconnect, SendTelegram
    <3>. QED BY <1>0, <3>1, <3>2, DeviceQueueGrows DEF Fewer
  <2>2. CASE ConfirmationReceived
    <3>1. toTask # <<>> /\ toTask' = Tail(toTask) /\ UNCHANGED toDevice
      BY <2>2 DEF ConfirmationReceived
    <3>. QED BY <1>0, <3>1, TaskQueue DEF Fewer
  <2>3. CASE ~Disconnect /\ ~ConfirmationReceived
    <3>1. UNCHANGED <<toTask, toDevice>>
      BY <1>1, <2>3 DEF Connected, Request, Sent, AckTimeout, AckAwaited, ReceiveTimeout,
         vars, Ends, busVars
    <3>. QED BY <3>1 DEF Fewer
  <2>. QED BY <2>1, <2>2, <2>3
<1>. QED BY <1>2, <1>3, FewerMatching

(* Steps that begin clean, for a connection that is clean afterwards.      *)
LEMMA WasClean ==
    ASSUME Inv, [Next]_vars, ~Connect, conn'.clean, task' # "idle"
    PROVE  conn.clean /\ task # "idle"
<1>0. conn \in ConnType /\ conn.clean \in BOOLEAN
  BY DEF Inv, TypeOK, ConnType
<1>1. CASE Connected \/ Request \/ Requesting \/ UNCHANGED vars
  BY <1>0, <1>1 DEF Connected, Request, Requesting, SendData, RequestRefused, Sent,
     SendFails, AckTimeout, Resend, AckMissing, AckAwaited, Received, ReceiveTimeout,
     ReceiveFails, Ends, ConnType, vars
<1>2. CASE ConnectRaises \/ DisconnectRefused \/ Disconnect \/ Disconnected \/ DisconnectRaises
  BY <1>0, <1>2 DEF ConnectRaises, DisconnectRefused, Disconnect, Disconnected,
     DisconnectRaises, Removed, ConnType
<1>3. CASE TelegramReceived
  <2>. DEFINE t == Head(toTask)
  <2>1. t \in FromDevice
    BY <1>3, QueueType DEF TelegramReceived, Inv, TypeOK
  <2>2. t \in Telegrams /\ t.tpci \in {"TDisconnect", "TAck", "TNak", "TData"}
    BY <1>3, <2>1 DEF TelegramReceived, FromDevice, Telegrams
  <2>3. conn' = (IF registered THEN Process(conn, t) ELSE conn) /\ task' = task
    BY <1>3 DEF TelegramReceived
  <2>. HIDE DEF t
  <2>4. Process(conn, t).clean = conn.clean
    BY <1>0, <2>2 DEF Process, ConnType
  <2>. QED BY <2>3, <2>4
<1>4. CASE ConfirmationReceived \/ BusTransmits \/ DeviceResponds \/ DeviceRepeats
             \/ DeviceDisconnects \/ TelegramLost
  BY <1>4 DEF ConfirmationReceived, BusTransmits, DeviceResponds, DeviceRepeats,
     DeviceDisconnects, TelegramLost
<1>. QED BY <1>1, <1>2, <1>3, <1>4 DEF Next, Bus

LEMMA MatchingStep ==
    ASSUME Inv, Delivery, CleanMatching, [Next]_vars
    PROVE  CleanMatching'
<1>1. CASE Connect
  BY <1>1, ConnectMatching
<1>2. CASE ~Connect
  <2>. SUFFICES ASSUME task' # "idle", conn'.clean PROVE Matching'
    BY DEF CleanMatching
  <2>1. Matching
    BY <1>2, WasClean DEF CleanMatching
  <2>2. CASE UNCHANGED vars \/ Connected \/ Request \/ RequestRefused \/ Sent \/ SendFails
             \/ AckTimeout \/ AckMissing \/ AckAwaited \/ ReceiveTimeout
             \/ ReceiveFails \/ Disconnect \/ ConfirmationReceived
    BY <2>1, <2>2, TaskMatching
  <2>3. CASE ConnectRaises \/ DisconnectRefused \/ Disconnected \/ DisconnectRaises
    BY <2>3 DEF ConnectRaises, DisconnectRefused, Disconnected, DisconnectRaises, Removed
  <2>4. CASE SendData \/ Resend \/ Received
    BY <2>1, <2>4, SendDataMatching, ResendMatching, ReceivedMatching
  <2>5. CASE TelegramReceived \/ BusTransmits \/ DeviceResponds \/ DeviceRepeats
             \/ DeviceDisconnects \/ TelegramLost
    BY <2>1, <2>5, TelegramMatching, BusMatching, RespondMatching, RepeatMatching,
       FaultMatching
  <2>. QED BY <1>2, <2>2, <2>3, <2>4, <2>5 DEF Next, Requesting, Bus
<1>. QED BY <1>1, <1>2

(* request() returns the response to its own request, whatever is sent     *)
(* again by either side, lost or acknowledged late.                        *)
THEOREM ResponsesMatch == Spec => []ResponseMatches
<1>1. Init => CleanMatching
  BY DEF Init, CleanMatching
<1>2. Inv /\ Delivery /\ CleanMatching /\ [Next]_vars => CleanMatching'
  BY MatchingStep
<1>3. CleanMatching => ResponseMatches
  BY DEF CleanMatching, Matching, Result, ResponseMatches
<1>. QED BY <1>1, <1>2, <1>3, DeliveryInvariance, PTL DEF Spec

-----------------------------------------------------------------------------
(* The table of connections, with several callers.                          *)

LEMMA TableTypeInit == TableInit => TableTypeOK
BY DEF TableInit, TableTypeOK

LEMMA TableTypeStep == TableTypeOK /\ [TableNext]_tableVars => TableTypeOK'
<1> SUFFICES ASSUME TableTypeOK, [TableNext]_tableVars
             PROVE  TableTypeOK'
  OBVIOUS
<1> USE DEF TableTypeOK
<1>1. ASSUME NEW c \in Callers, NEW a \in Addresses, ConnectTo(c, a)
      PROVE  TableTypeOK'
  BY <1>1 DEF ConnectTo, Open
<1>2. ASSUME NEW c \in Callers, StoreConnection(c)
      PROVE  TableTypeOK'
  BY <1>2 DEF StoreConnection
<1>3. ASSUME NEW c \in Callers,
             \/ ConnectFails(c) \/ DisconnectStored(c)
             \/ DisconnectOwn(c) \/ DisconnectEnds(c)
      PROVE  TableTypeOK'
  BY <1>3 DEF ConnectFails, DisconnectStored, DisconnectOwn, DisconnectObject,
     DisconnectEnds, RemoveConnection, Leave
<1>4. ASSUME NEW a \in Addresses, PeerDisconnects(a)
      PROVE  TableTypeOK'
  BY <1>4 DEF PeerDisconnects
<1>5. CASE UNCHANGED tableVars
  BY <1>5 DEF tableVars
<1> QED BY <1>1, <1>2, <1>3, <1>4, <1>5 DEF TableNext

(* A call that ends leaves no entry of its own object: it has found none,   *)
(* removed it, or never stored one.                                         *)
Leaves(c) ==
    /\ at[c] # "out" /\ Leave(c)
    /\ \/ table' = [table EXCEPT ![address[c]] = None]
       \/ UNCHANGED table /\ table[address[c]] # c

LEMMA LeavingCalls ==
    ASSUME NEW c \in Callers, TableTypeOK, EntryHasUser,
           \/ ConnectFails(c) \/ DisconnectStored(c)
           \/ DisconnectOwn(c) \/ DisconnectEnds(c)
    PROVE  \/ Leaves(c)
           \/ /\ at[c] = "open" /\ at' = [at EXCEPT ![c] = "closing"]
              /\ UNCHANGED <<address, table, raced>>
<1>1. address[c] \in Addresses /\ None # c
  BY ConnectionsAssumption DEF TableTypeOK, ConnectFails, DisconnectStored, DisconnectOwn,
     DisconnectEnds
<1>2. CASE ConnectFails(c)
  BY <1>1, <1>2 DEF ConnectFails, Leaves, EntryHasUser
<1>3. ASSUME NEW d, at[c] = "open", DisconnectObject(c, d)
      PROVE  \/ Leaves(c)
             \/ at' = [at EXCEPT ![c] = "closing"] /\ UNCHANGED <<address, table, raced>>
  BY <1>3 DEF DisconnectObject, RemoveConnection, Leaves
<1>4. CASE DisconnectStored(c)
  BY <1>1, <1>3, <1>4 DEF DisconnectStored, Leaves
<1>5. CASE DisconnectOwn(c)
  BY <1>3, <1>5 DEF DisconnectOwn
<1>6. CASE DisconnectEnds(c)
  BY <1>6 DEF DisconnectEnds, RemoveConnection, Leaves
<1> QED BY <1>2, <1>4, <1>5, <1>6

(* The entry of an address follows the caller that has stored it.           *)
LEMMA EntryStep ==
    ASSUME TableTypeOK, EntryHasUser,
           [TableNext]_tableVars
    PROVE  EntryHasUser'
<1> USE DEF EntryHasUser, Inside
<1>0. TableTypeOK' /\ None \notin Callers
  BY TableTypeStep, ConnectionsAssumption
<1>1. ASSUME NEW c \in Callers, NEW a \in Addresses, ConnectTo(c, a)
      PROVE  EntryHasUser'
  BY <1>1 DEF ConnectTo, Open, TableTypeOK
<1>2. ASSUME NEW c \in Callers, StoreConnection(c)
      PROVE  EntryHasUser'
  BY <1>2 DEF StoreConnection, TableTypeOK
<1>3. ASSUME NEW c \in Callers, Leaves(c)
      PROVE  EntryHasUser'
  BY <1>3 DEF Leaves, Leave, TableTypeOK
<1>4. ASSUME NEW c \in Callers, at[c] = "open", at' = [at EXCEPT ![c] = "closing"],
             UNCHANGED <<address, table, raced>>
      PROVE  EntryHasUser'
  BY <1>4 DEF TableTypeOK
<1>5. CASE UNCHANGED <<at, address, table>>
  BY <1>5
<1>6. ASSUME NEW c \in Callers,
             \/ ConnectFails(c) \/ DisconnectStored(c)
             \/ DisconnectOwn(c) \/ DisconnectEnds(c)
      PROVE  EntryHasUser'
  BY ONLY <1>3, <1>4, <1>6, LeavingCalls, ConnectionsAssumption, TableTypeOK,
     EntryHasUser
<1> QED BY <1>1, <1>2, <1>5, <1>6 DEF TableNext, PeerDisconnects, tableVars

(* A caller that finds no entry is alone, or meets another that connects.   *)
LEMMA ExclusiveStep ==
    ASSUME TableTypeOK, EntryHasUser, Exclusive,
           [TableNext]_tableVars
    PROVE  Exclusive'
<1> USE DEF Exclusive, Inside
<1>0. None \notin Callers
  BY ConnectionsAssumption
<1>1. ASSUME NEW c \in Callers, NEW a \in Addresses, ConnectTo(c, a)
      PROVE  Exclusive'
  <2>1. /\ table[a] = None /\ at[c] = "out" /\ UNCHANGED table
        /\ \A d \in Callers \ {c} : at'[d] = at[d] /\ address'[d] = address[d]
        /\ at'[c] = "connecting" /\ address'[c] = a
        /\ \A b \in Addresses \ {a} : raced'[b] = raced[b]
        /\ raced'[a] = (raced[a] \/ \E d \in Callers : Inside(d, a) /\ at[d] = "connecting")
    BY <1>1 DEF ConnectTo, Open, TableTypeOK
  <2>2. ~raced'[a] => \A d \in Callers \ {c} : ~Inside(d, a)
    BY <1>0, <2>1 DEF TableTypeOK
  <2> QED BY <2>1, <2>2
<1>2. ASSUME NEW c \in Callers, StoreConnection(c)
      PROVE  Exclusive'
  BY <1>2 DEF StoreConnection, TableTypeOK
<1>3. ASSUME NEW c \in Callers, Leaves(c)
      PROVE  Exclusive'
  <2>1. /\ at[c] # "out" /\ at'[c] = "out" /\ UNCHANGED address
        /\ \A d \in Callers \ {c} : at'[d] = at[d]
        /\ \A b \in Addresses \ {address[c]} : raced'[b] = raced[b] /\ table'[b] = table[b]
        /\ raced'[address[c]] = (raced[address[c]]
                /\ \E d \in Callers \ {c} : Inside(d, address[c]))
    BY <1>3 DEF Leaves, Leave, TableTypeOK
  <2>2. ~raced'[address[c]] => \A d \in Callers \ {c} : ~Inside(d, address[c])
    BY <2>1 DEF TableTypeOK
  <2> QED BY <2>1, <2>2 DEF TableTypeOK
<1>4. ASSUME NEW c \in Callers, at[c] = "open", at' = [at EXCEPT ![c] = "closing"],
             UNCHANGED <<address, table, raced>>
      PROVE  Exclusive'
  BY <1>4 DEF TableTypeOK
<1>5. CASE UNCHANGED <<at, address, table, raced>>
  BY <1>5
<1>6. ASSUME NEW c \in Callers,
             \/ ConnectFails(c) \/ DisconnectStored(c)
             \/ DisconnectOwn(c) \/ DisconnectEnds(c)
      PROVE  Exclusive'
  BY ONLY <1>3, <1>4, <1>6, LeavingCalls, ConnectionsAssumption, TableTypeOK,
     EntryHasUser
<1> QED BY <1>1, <1>2, <1>5, <1>6 DEF TableNext, PeerDisconnects, tableVars

TableExclusive == TableTypeOK /\ EntryHasUser /\ Exclusive

LEMMA TableStarts ==
    ASSUME TableInit
    PROVE  TableExclusive
BY TableTypeInit, ConnectionsAssumption DEF TableExclusive, TableInit,
   EntryHasUser, Exclusive, Inside

LEMMA TableStep ==
    TableExclusive /\ [TableNext]_tableVars => TableExclusive'
BY TableTypeStep, EntryStep, ExclusiveStep DEF TableExclusive

(* An entry has a user that will remove it, however calls overlap: no       *)
(* address stays blocked.                                                   *)
THEOREM EntriesHaveUsers ==
    TableSpec => []EntryHasUser
<1>1. TableExclusive => EntryHasUser
  BY DEF TableExclusive
<1>2. TableInit => TableExclusive
  BY TableStarts
<1> QED BY <1>1, <1>2, TableStep, PTL DEF TableSpec

(* Without two callers connecting together an address has one user, and the *)
(* entry is its own.                                                        *)
THEOREM OneUserUnlessRaced ==
    TableSpec => []Exclusive
<1>1. TableExclusive => Exclusive
  BY DEF TableExclusive
<1>2. TableInit => TableExclusive
  BY TableStarts
<1> QED BY <1>1, <1>2, TableStep, PTL DEF TableSpec

---------------------------------------------------------------------------
(* Management implements Connections: what one caller does in all detail    *)
(* with its connections is what Connections says of a caller and an         *)
(* address, whose table nobody else uses.                                   *)

Place ==
    CASE task = "idle" -> "out"
      [] task \in {"connecting", "closing"} -> task
      [] OTHER -> "open"

OneCaller == INSTANCE Connections WITH
    Callers   <- {"task"},
    Addresses <- {"device"},
    None      <- "none",
    at        <- [c \in {"task"} |-> Place],
    address   <- [c \in {"task"} |-> IF connections = 0 THEN "none" ELSE "device"],
    alive     <- [c \in {"task"} |-> conn.connected],
    table     <- [a \in {"device"} |-> IF registered THEN "task" ELSE "none"],
    raced     <- [a \in {"device"} |-> FALSE]

(* A task that has begun to connect has counted its connection.             *)
Counted == task # "idle" => connections # 0

LEMMA PlaceOf ==
    /\ task = "idle" => Place = "out"
    /\ task = "connecting" => Place = "connecting"
    /\ task = "closing" => Place = "closing"
    /\ task \notin {"idle", "connecting", "closing"} => Place = "open"
    /\ task' = "idle" => Place' = "out"
    /\ task' = "connecting" => Place' = "connecting"
    /\ task' = "closing" => Place' = "closing"
    /\ task' \notin {"idle", "connecting", "closing"} => Place' = "open"
BY DEF Place

(* The steps that the table does not see.                                   *)
LEMMA TableStutters ==
    ASSUME Place' = Place, connections' = connections, registered' = registered,
           conn'.connected = conn.connected
    PROVE  UNCHANGED OneCaller!tableVars
BY DEF OneCaller!tableVars

LEMMA ConnectInTable ==
    ASSUME Inv, Connect
    PROVE  OneCaller!ConnectTo("task", "device") /\ Counted'
<1>1. /\ task = "idle" /\ task' = "connecting" /\ ~registered /\ ~registered'
      /\ connections' # 0 /\ conn'.connected = FALSE
  BY DEF Connect, Inv, TypeOK, NewConn
<1>2. Place = "out" /\ Place' = "connecting"
  BY <1>1, PlaceOf
<1> HIDE DEF Place
<1>3. ~OneCaller!Inside("task", "device")
  BY <1>2 DEF OneCaller!Inside
<1>4. OneCaller!Open("task", "device")
  BY <1>1, <1>2, <1>3 DEF OneCaller!Open
<1> QED BY <1>1, <1>4 DEF OneCaller!ConnectTo, Counted

LEMMA ConnectedInTable ==
    ASSUME Inv, Counted, Connected
    PROVE  OneCaller!StoreConnection("task") /\ Counted'
<1>1. /\ task = "connecting" /\ task' = "up" /\ registered'
      /\ connections # 0 /\ connections' = connections /\ conn'.connected = TRUE
  BY DEF Connected, Inv, TypeOK, ConnType, Counted
<1>2. Place = "connecting" /\ Place' = "open"
  BY <1>1, PlaceOf
<1> HIDE DEF Place
<1> QED BY <1>1, <1>2 DEF OneCaller!StoreConnection, Counted

(* The caller leaves, and the address is free.                              *)
LEMMA LeavesTable ==
    ASSUME connections # 0, connections' = connections, Place' = "out"
    PROVE  OneCaller!Leave("task")
BY DEF OneCaller!Leave

LEMMA ConnectRaisesInTable ==
    ASSUME Inv, Counted, ConnectRaises
    PROVE  OneCaller!ConnectFails("task") /\ Counted'
<1>1. /\ task = "connecting" /\ task' = "idle" /\ registered' = registered
      /\ connections # 0 /\ connections' = connections
      /\ conn'.connected = conn.connected
  BY DEF ConnectRaises, Inv, TypeOK, ConnType, Counted, callVars
<1>2. Place = "connecting" /\ Place' = "out"
  BY <1>1, PlaceOf
<1>3. OneCaller!Leave("task")
  BY <1>1, <1>2, LeavesTable
<1> HIDE DEF Place
<1> QED BY <1>1, <1>2, <1>3 DEF OneCaller!ConnectFails, Counted

LEMMA DisconnectInTable ==
    ASSUME Inv, Counted, DisconnectRefused \/ Disconnect
    PROVE  OneCaller!DisconnectOwn("task") /\ Counted'
<1>1. task = "up" /\ connections # 0 /\ connections' = connections
  BY DEF DisconnectRefused, Disconnect, Counted, callVars
<1>2. Place = "open"
  BY <1>1, PlaceOf
<1>3. CASE DisconnectRefused
  <2>1. /\ task' = "idle" /\ ~registered' /\ ~conn.connected /\ conn' = conn
    BY <1>3 DEF DisconnectRefused
  <2>2. Place' = "out"
    BY <2>1, PlaceOf
  <2>3. OneCaller!Leave("task")
    BY <1>1, <2>2, LeavesTable
  <2> HIDE DEF Place
  <2>4. OneCaller!DisconnectObject("task", "task")
    BY <1>1, <2>1, <2>3 DEF OneCaller!DisconnectObject, OneCaller!RemoveConnection
  <2> QED BY <1>1, <1>2, <2>1, <2>4 DEF OneCaller!DisconnectOwn, Counted
<1>4. CASE Disconnect
  <2>1. /\ task' = "closing" /\ registered' = registered /\ conn.connected
        /\ conn'.connected = FALSE
    BY <1>4 DEF Disconnect, callVars, Inv, TypeOK, ConnType
  <2>2. Place' = "closing"
    BY <2>1, PlaceOf
  <2> HIDE DEF Place
  <2>3. OneCaller!DisconnectObject("task", "task")
    BY <1>1, <1>2, <2>1, <2>2 DEF OneCaller!DisconnectObject
  <2> QED BY <1>1, <1>2, <2>1, <2>3 DEF OneCaller!DisconnectOwn, Counted
<1> QED BY <1>3, <1>4

LEMMA RemovedInTable ==
    ASSUME Inv, Counted, Removed
    PROVE  OneCaller!DisconnectEnds("task") /\ Counted'
<1>1. /\ task = "closing" /\ task' = "idle" /\ ~registered'
      /\ connections # 0 /\ connections' = connections
      /\ conn'.connected = conn.connected
  BY DEF Removed, Inv, TypeOK, ConnType, Counted
<1>2. Place = "closing" /\ Place' = "out"
  BY <1>1, PlaceOf
<1>3. OneCaller!Leave("task")
  BY <1>1, <1>2, LeavesTable
<1> HIDE DEF Place
<1> QED BY <1>1, <1>2, <1>3 DEF OneCaller!DisconnectEnds, OneCaller!RemoveConnection,
     Counted

(* A telegram of the device reaches the object that is stored; only a       *)
(* TDisconnect changes what the table knows of it.                          *)
LEMMA TelegramInTable ==
    ASSUME Inv, Counted, TelegramReceived
    PROVE  /\ OneCaller!PeerDisconnects("device") \/ UNCHANGED OneCaller!tableVars
           /\ Counted'
<1>1. /\ task' = task /\ connections' = connections /\ registered' = registered
      /\ ~registered => conn' = conn
      /\ conn'.connected = conn.connected \/ (registered /\ conn'.connected = FALSE)
  <2>1. Head(toTask) \in FromDevice
    BY DEF TelegramReceived, Inv, TypeOK
  <2>2. Process(conn, Head(toTask)).connected \in {conn.connected, FALSE}
    BY <2>1 DEF TelegramReceived, Process, FromDevice, Telegrams, Inv, TypeOK, ConnType
  <2>3. /\ UNCHANGED <<task, callVars>>
        /\ registered => conn' = Process(conn, Head(toTask))
        /\ ~registered => conn' = conn
    BY DEF TelegramReceived
  <2> QED BY <2>2, <2>3 DEF callVars
<1>2. Place' = Place /\ Counted'
  BY <1>1 DEF Place, Counted
<1> HIDE DEF Place
<1>3. CASE conn'.connected = conn.connected
  BY <1>1, <1>2, <1>3, TableStutters
<1>4. CASE registered /\ conn'.connected = FALSE
  BY <1>1, <1>2, <1>4 DEF OneCaller!PeerDisconnects
<1> QED BY <1>1, <1>2, <1>3, <1>4

(* Neither requests nor the bus and the device are seen.                    *)
LEMMA RequestInTable ==
    ASSUME Inv, Counted, Request \/ Requesting
    PROVE  UNCHANGED OneCaller!tableVars /\ Counted'
<1>1. /\ connections' = connections /\ registered' = registered
      /\ conn'.connected = conn.connected
      /\ task \notin {"idle", "connecting", "closing"}
      /\ task' \notin {"idle", "connecting", "closing"}
  BY DEF Request, Requesting, SendData, RequestRefused, Sent, SendFails, AckTimeout, Resend,
     AckMissing, AckAwaited, Received, ReceiveTimeout, ReceiveFails, Ends, callVars, Inv,
     TypeOK, ConnType
<1>2. Place' = Place
  BY <1>1, PlaceOf
<1> QED BY <1>1, <1>2, TableStutters DEF Counted

LEMMA BusInTable ==
    ASSUME Counted,
           \/ ConfirmationReceived \/ BusTransmits \/ DeviceResponds
           \/ DeviceRepeats \/ DeviceDisconnects \/ TelegramLost \/ UNCHANGED vars
    PROVE  UNCHANGED OneCaller!tableVars /\ Counted'
<1>1. UNCHANGED <<task, conn, callVars>>
  BY DEF ConfirmationReceived, BusTransmits, DeviceResponds, DeviceRepeats,
     DeviceDisconnects, TelegramLost, vars, callVars
<1>2. Place' = Place
  BY <1>1 DEF Place
<1> QED BY <1>1, <1>2, TableStutters DEF Counted, callVars

LEMMA StepInTable ==
    ASSUME Inv, Counted, [Next]_vars
    PROVE  [OneCaller!TableNext]_(OneCaller!tableVars) /\ Counted'
<1>1. CASE \/ Connect \/ Connected \/ ConnectRaises
           \/ DisconnectRefused \/ Disconnect \/ Removed
  <2>1. /\ \/ OneCaller!ConnectTo("task", "device") \/ OneCaller!StoreConnection("task")
           \/ OneCaller!ConnectFails("task") \/ OneCaller!DisconnectOwn("task")
           \/ OneCaller!DisconnectEnds("task")
        /\ Counted'
    BY <1>1, ConnectInTable, ConnectedInTable, ConnectRaisesInTable, DisconnectInTable,
       RemovedInTable
  <2> QED BY <2>1 DEF OneCaller!TableNext
<1>2. CASE TelegramReceived
  BY <1>2, TelegramInTable DEF OneCaller!TableNext
<1>3. CASE Request \/ Requesting
  BY <1>3, RequestInTable
<1>4. CASE \/ ConfirmationReceived \/ BusTransmits \/ DeviceResponds
           \/ DeviceRepeats \/ DeviceDisconnects \/ TelegramLost \/ UNCHANGED vars
  BY <1>4, BusInTable
<1> QED BY <1>1, <1>2, <1>3, <1>4 DEF Next, Bus, Disconnected, DisconnectRaises

LEMMA StartInTable ==
    ASSUME Init
    PROVE  OneCaller!TableInit /\ Counted
<1>1. task = "idle" /\ connections = 0 /\ registered = FALSE
      /\ conn.connected = FALSE
  BY DEF Init, NewConn
<1>2. Place = "out"
  BY <1>1, PlaceOf
<1> HIDE DEF Place
<1> QED BY <1>1, <1>2 DEF OneCaller!TableInit, Counted

(* Every step of Management, with its telegrams, confirmations and          *)
(* timeouts, is a step of Connections or leaves the table as it is: what    *)
(* Connections abstracts is what Management does.                           *)
THEOREM TableImplemented == Spec => OneCaller!TableSpec
<1>1. Init => OneCaller!TableInit /\ Counted
  BY StartInTable
<1>2. Inv /\ Counted /\ [Next]_vars => [OneCaller!TableNext]_(OneCaller!tableVars) /\ Counted'
  BY StepInTable
<1> QED BY <1>1, <1>2, Invariance, PTL DEF Spec, OneCaller!TableSpec

=============================================================================
