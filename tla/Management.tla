----------------------------- MODULE Management -----------------------------
(***************************************************************************)
(* Point-to-point connections to a KNX device: Management and              *)
(* P2PConnection (management/management.py) over the L_DATA confirmations  *)
(* of CEMIHandler.send_telegram (cemi/cemi_handler.py), with the procedure *)
(* nm_individual_address_check as their caller.                            *)
(*                                                                         *)
(* One task connects, sends requests one after the other and disconnects;  *)
(* Management.process runs as a callback for every telegram of the device  *)
(* and sends its acknowledges in background tasks.  A future that is set   *)
(* and the task that goes on with it are two steps: telegrams that arrive  *)
(* together are all processed before the task wakes up.  The bus delivers  *)
(* in order; the device and the bus are external.                          *)
(***************************************************************************)
EXTENDS Naturals, Sequences

CONSTANTS
    SeqMod,         \* transport sequence numbers count modulo this; 16 in the code
    MaxRequests,    \* bound: requests
    MaxConnections, \* bound: connections, one after the other
    MaxFaults       \* bound: lost telegrams, disconnects and repetitions by the device

ASSUME ConstantsAssumption ==
    /\ SeqMod \in Nat /\ SeqMod >= 2
    /\ {MaxRequests, MaxConnections, MaxFaults} \subseteq Nat

SeqNums  == 0..(SeqMod - 1)

(* Telegrams by their TPCI; request is the one a TData sends or answers.   *)
Telegrams == [tpci : {"TConnect", "TDisconnect", "TData", "TAck", "TNak", "con"},
              seq : SeqNums, request : 0..MaxRequests]

FromDevice == {t \in Telegrams : t.tpci # "TConnect"}

Telegram(tpci, n, request) == [tpci |-> tpci, seq |-> n, request |-> request]

NoAck      == [state |-> "None", seq |-> 0]
NoResponse == [state |-> "pending", request |-> 0]

VARIABLES
    task,       \* where the task is suspended, or "up" between two requests
    conn,       \* the P2PConnection object
    registered, \* it is in Management._connections
    confirmed,  \* _l_data_confirmation_event has woken the task
    requests,   \* requests so far; the current one has this number
    outcome,    \* how the last request of this connection ended
    verdict,    \* what nm_individual_address_check returned for it
    device,     \* the device: absent, refusing, or present
    toDevice,   \* telegrams on the way to the bus
    toTask,     \* telegrams and confirmations on the way to the client
    executed,   \* history: requests the device has executed
    heard,      \* history: what has arrived since connect() and before disconnect()
    connections,
    faults

vars == <<task, conn, registered, confirmed, requests, outcome, verdict, device,
          toDevice, toTask, executed, heard, connections, faults>>

ConnType ==
    [connected : BOOLEAN,           \* _connected
     ack       : [state : {"None", "pending", "cancelled", "TAck", "TNak"}, seq : SeqNums],
                                    \* _ack_waiter: None, or a future
     response  : [state : {"pending", "cancelled", "refused", "TData"},
                  request : 0..MaxRequests],    \* _response_waiter, a future
     sequence  : SeqNums,           \* next(sequence_number)
     current   : SeqNums,           \* seq_num of _send_data
     expected  : SeqNums,           \* _expected_sequence_number
     clean     : BOOLEAN]           \* history: it began with nothing of an earlier
                                    \* one under way, and no request has raised

NewConn == [connected |-> FALSE, ack |-> NoAck, response |-> NoResponse,
            sequence |-> 0, current |-> 0, expected |-> 0, clean |-> TRUE]

DeviceType ==
    [kind     : {"absent", "refuses", "present"},
     open     : BOOLEAN,
     expected : SeqNums,            \* the next request's number
     sequence : SeqNums,            \* the next response's number
     owes     : 0..MaxRequests,     \* request that is still to be answered
     last     : 0..MaxRequests]     \* request answered last

Init ==
    /\ task = "idle"
    /\ conn = NewConn
    /\ registered = FALSE
    /\ confirmed = FALSE
    /\ requests = 0
    /\ outcome = [what |-> "none", request |-> 0]
    /\ verdict = "none"
    /\ device \in [kind : {"absent", "refuses", "present"}, open : {FALSE},
                   expected : {0}, sequence : {0}, owes : {0}, last : {0}]
    /\ toDevice = <<>>
    /\ toTask = <<>>
    /\ executed = <<>>
    /\ heard = {}
    /\ connections = 0
    /\ faults = 0

Fault == faults < MaxFaults /\ faults' = faults + 1

Inc(n) == (n + 1) % SeqMod

busVars  == <<device, toDevice, toTask, executed>>
callVars == <<registered, requests, verdict, connections>>

-----------------------------------------------------------------------------
(* CEMIHandler.send_telegram: the event is cleared and the frame sent.     *)
SendTelegram(telegram) ==
    /\ confirmed' = FALSE
    /\ toDevice' = Append(toDevice, telegram)

(* It returns when the event was set, by whichever confirmation, or raises *)
(* ConfirmationError or CommunicationError; that a timeout beats a         *)
(* confirmation is a counted fault.                                        *)
SendReturns == confirmed /\ UNCHANGED faults

ConUnderWay == toDevice # <<>> \/ \E i \in 1..Len(toTask) : toTask[i].tpci = "con"

SendRaises == IF ConUnderWay \/ confirmed THEN Fault ELSE UNCHANGED faults

(* The device is done with the last connection.                            *)
NoDataUnderWay ==
    /\ ~device.open
    /\ \A i \in 1..Len(toDevice) : toDevice[i].tpci # "TData"
    /\ \A i \in 1..Len(toTask) : toTask[i].tpci # "TData"

-----------------------------------------------------------------------------
(* Management.connect and P2PConnection.connect.                           *)
Connect ==
    /\ task = "idle"
    /\ connections < MaxConnections
    /\ ~registered
    /\ connections' = connections + 1
    /\ task' = "connecting"
    /\ conn' = [NewConn EXCEPT !.clean = NoDataUnderWay]
    /\ outcome' = [what |-> "none", request |-> 0]
    /\ verdict' = "none"
    /\ heard' = {}
    /\ SendTelegram(Telegram("TConnect", 0, 0))
    /\ UNCHANGED <<registered, requests, device, toTask, executed, faults>>

Connected ==
    /\ task = "connecting"
    /\ SendReturns
    /\ task' = "up"
    /\ conn' = [conn EXCEPT !.connected = TRUE]
    /\ registered' = TRUE
    /\ UNCHANGED <<confirmed, requests, outcome, verdict, busVars, heard, connections>>

ConnectRaises ==
    /\ task = "connecting"
    /\ SendRaises
    /\ task' = "idle"
    /\ conn' = [conn EXCEPT !.response.state = "cancelled"]
    /\ UNCHANGED <<confirmed, outcome, callVars, busVars, heard>>

-----------------------------------------------------------------------------
(* P2PConnection.request.                                                  *)

(* The call ends with a result or an exception.                            *)
Ends(c, what) ==
    /\ task' = "up"
    /\ conn' = [c EXCEPT !.clean = @ /\ what = "response"]
    /\ outcome' = [what |-> what,
                   request |-> IF what = "response" THEN conn.response.request ELSE 0]
    /\ UNCHANGED <<confirmed, callVars, busVars, heard>>

(* The pause of the rate limit.                                            *)
Request ==
    /\ task = "up"
    /\ requests < MaxRequests
    /\ conn.connected
    /\ task' = "pausing"
    /\ UNCHANGED <<conn, confirmed, outcome, callVars, busVars, heard, faults>>

(* _send_data; the peer may have disconnected during the pause.            *)
SendData ==
    /\ task = "pausing"
    /\ requests < MaxRequests
    /\ conn.connected
    /\ requests' = requests + 1
    /\ task' = "send"
    /\ conn' = [conn EXCEPT !.ack = [NoAck EXCEPT !.state = "pending"],
                            !.current = conn.sequence, !.sequence = Inc(@)]
    /\ SendTelegram(Telegram("TData", conn.sequence, requests + 1))
    /\ UNCHANGED <<registered, outcome, verdict, device, toTask, executed, heard,
                   connections, faults>>

RequestRefused ==
    /\ task \in {"up", "pausing"}
    /\ ~conn.connected
    /\ outcome.what # "refused"
    /\ Ends(conn, "refused")
    /\ UNCHANGED faults

Sent ==
    /\ task \in {"send", "resend"}
    /\ SendReturns
    /\ task' = IF task = "send" THEN "ack" ELSE "ack2"
    /\ UNCHANGED <<conn, confirmed, outcome, callVars, busVars, heard>>

SendFails ==
    /\ task \in {"send", "resend"}
    /\ SendRaises
    /\ Ends([conn EXCEPT !.ack = NoAck], "error")

(* MANAGAMENT_ACK_TIMEOUT: the future is cancelled, the task wakes later.  *)
AckTimeout ==
    /\ task \in {"ack", "ack2"}
    /\ task' = IF task = "ack" THEN "late" ELSE "late2"
    /\ conn' = [conn EXCEPT !.ack.state = IF @ = "pending" THEN "cancelled" ELSE @]
    /\ UNCHANGED <<confirmed, outcome, callVars, busVars, heard, faults>>

(* Fault: the repetition takes the next sequence number.                   *)
ResendCounted ==
    /\ task = "late"
    /\ task' = "resend"
    /\ conn' = [conn EXCEPT !.ack = [NoAck EXCEPT !.state = "pending"],
                            !.current = conn.sequence, !.sequence = Inc(@)]
    /\ SendTelegram(Telegram("TData", conn.sequence, requests))
    /\ UNCHANGED <<outcome, callVars, device, toTask, executed, heard, faults>>

(* The telegram is sent once more, with a new future.                      *)
Resend ==
    /\ task = "late"
    /\ task' = "resend"
    /\ conn' = [conn EXCEPT !.ack = [NoAck EXCEPT !.state = "pending"]]
    /\ SendTelegram(Telegram("TData", conn.current, requests))
    /\ UNCHANGED <<outcome, callVars, device, toTask, executed, heard, faults>>

AckMissing ==
    /\ task = "late2"
    /\ Ends([conn EXCEPT !.ack = NoAck], "timeout")
    /\ UNCHANGED faults

(* A TNak, or the acknowledge of another number, ends the request.         *)
AckAwaited ==
    /\ task \in {"ack", "ack2"}
    /\ conn.ack.state \in {"TAck", "TNak"}
    /\ LET c == [conn EXCEPT !.ack = NoAck] IN
       IF conn.ack = [state |-> "TAck", seq |-> conn.current]
         THEN /\ task' = "receive"
              /\ conn' = c
              /\ UNCHANGED <<confirmed, outcome, callVars, busVars, heard>>
         ELSE Ends(c, "error")
    /\ UNCHANGED faults

(* Fault: the next request waits for the same future.                      *)
ReceivedKept ==
    /\ task = "receive"
    /\ conn.response.state \in {"TData", "refused"}
    /\ Ends(conn, IF conn.response.state = "TData" THEN "response" ELSE "refused")
    /\ UNCHANGED faults

(* _receive: the future is done, and replaced.  A response to another      *)
(* request is told apart at most by the type of its payload.               *)
Received ==
    /\ task = "receive"
    /\ conn.response.state \in {"TData", "refused"}
    /\ Ends([conn EXCEPT !.response = NoResponse],
            IF conn.response.state = "TData" THEN "response" ELSE "refused")
    /\ UNCHANGED faults

(* Fault: no MANAGAMENT_CONNECTION_TIMEOUT.                                *)
ReceiveTimeoutNever ==
    /\ task = "receive"
    /\ conn.response.state = "TData"
    /\ task' = "expired"
    /\ UNCHANGED <<conn, confirmed, outcome, callVars, busVars, heard, faults>>

(* MANAGAMENT_CONNECTION_TIMEOUT.                                          *)
ReceiveTimeout ==
    /\ task = "receive"
    /\ task' = "expired"
    /\ conn' = [conn EXCEPT !.response.state = IF @ = "pending" THEN "cancelled" ELSE @]
    /\ UNCHANGED <<confirmed, outcome, callVars, busVars, heard, faults>>

ReceiveFails ==
    /\ task = "expired"
    /\ Ends([conn EXCEPT !.response = NoResponse], "timeout")
    /\ UNCHANGED faults

Requesting ==
    \/ SendData \/ RequestRefused \/ Sent \/ SendFails \/ AckTimeout \/ Resend
    \/ AckMissing \/ AckAwaited \/ Received \/ ReceiveTimeout \/ ReceiveFails

-----------------------------------------------------------------------------
(* Management.disconnect and P2PConnection.disconnect, and what            *)
(* nm_individual_address_check returns after its one request.              *)

(* Fault: the disconnect of the peer is not reported.                      *)
DisconnectSilently ==
    /\ task = "up"
    /\ ~conn.connected
    /\ task' = "idle"
    /\ registered' = FALSE
    /\ verdict' = IF outcome.what = "timeout" THEN "free" ELSE "occupied"
    /\ UNCHANGED <<conn, confirmed, requests, outcome, busVars, heard, connections, faults>>

(* The peer has disconnected: the hook is called and an exception raised,  *)
(* which takes the place of the request's own result.                      *)
DisconnectRefused ==
    /\ task = "up"
    /\ ~conn.connected
    /\ task' = "idle"
    /\ registered' = FALSE
    /\ verdict' = "occupied"
    /\ UNCHANGED <<conn, confirmed, requests, outcome, busVars, heard, connections, faults>>

Disconnect ==
    /\ task = "up"
    /\ conn.connected
    /\ task' = "closing"
    /\ conn' = [conn EXCEPT !.connected = FALSE]
    /\ SendTelegram(Telegram("TDisconnect", 0, 0))
    /\ UNCHANGED <<outcome, callVars, device, toTask, executed, heard, faults>>

(* The finally clause runs whether the send succeeded or not.              *)
Removed ==
    /\ task = "closing"
    /\ task' = "idle"
    /\ conn' = [conn EXCEPT !.response.state = IF @ = "pending" THEN "cancelled" ELSE @]
    /\ registered' = FALSE
    /\ UNCHANGED <<confirmed, requests, outcome, busVars, heard, connections>>

Disconnected ==
    /\ Removed
    /\ SendReturns
    /\ verdict' = CASE outcome.what = "timeout" -> "free"
                    [] outcome.what = "response" -> "occupied"
                    [] OTHER -> "none"

DisconnectRaises ==
    /\ Removed
    /\ SendRaises
    /\ UNCHANGED verdict

-----------------------------------------------------------------------------
(* Callbacks: CEMIHandler.handle_cemi_frame and Management.process.        *)

(* P2PConnection.process, as an operator on the object.  To set a future   *)
(* that is done raises InvalidStateError in the callback; the object is    *)
(* left as it is.                                                          *)
Process(c, t) ==
    CASE t.tpci = "TDisconnect" ->
            [c EXCEPT !.connected = FALSE,
                      !.response.state = IF @ = "pending" THEN "refused" ELSE @]
      [] t.tpci \in {"TAck", "TNak"} ->
            IF c.ack.state = "pending"
              THEN [c EXCEPT !.ack = [state |-> t.tpci, seq |-> t.seq]]
              ELSE c
      [] t.tpci = "TData" ->
            IF c.response.state = "pending" /\ t.seq = c.expected
              THEN [c EXCEPT !.response = [state |-> "TData", request |-> t.request],
                             !.expected = Inc(@)]
              ELSE c

(* What the caller could have known: a telegram of the device has arrived, *)
(* or a TDisconnect has reached the connection.                            *)
Hears(t) ==
    heard' = IF task \in {"idle", "closing"} THEN heard
             ELSE heard \cup {"telegram"}
                        \cup (IF registered /\ t.tpci = "TDisconnect"
                                THEN {"disconnect"} ELSE {})

(* Every TData is acknowledged in a background task, which clears the      *)
(* event as well; a task that was woken stays awake.  Without a connection *)
(* the telegram is dropped.                                                *)
TelegramReceived ==
    /\ toTask # <<>>
    /\ Head(toTask).tpci # "con"
    /\ toTask' = Tail(toTask)
    /\ Hears(Head(toTask))
    /\ conn' = IF registered THEN Process(conn, Head(toTask)) ELSE conn
    /\ toDevice' = IF Head(toTask).tpci = "TData"
                     THEN Append(toDevice, Telegram("TAck", Head(toTask).seq, 0))
                     ELSE toDevice
    /\ UNCHANGED <<task, confirmed, outcome, callVars, device, executed, faults>>

(* An L_DATA.con sets the event, whichever telegram it confirms.           *)
ConfirmationReceived ==
    /\ toTask # <<>>
    /\ Head(toTask).tpci = "con"
    /\ toTask' = Tail(toTask)
    /\ confirmed' = (confirmed \/ task \in {"connecting", "send", "resend", "closing"})
    /\ UNCHANGED <<task, conn, outcome, callVars, device, toDevice, executed, heard, faults>>

-----------------------------------------------------------------------------
(* The bus and the device.                                                 *)

(* A repetition is acknowledged only, any other number is refused.         *)
DeviceTakesData(t) ==
    CASE t.seq = device.expected ->
            /\ device' = [device EXCEPT !.expected = Inc(@), !.owes = t.request]
            /\ executed' = Append(executed, t.request)
            /\ toTask' = toTask \o <<Telegram("con", 0, 0), Telegram("TAck", t.seq, 0)>>
      [] Inc(t.seq) = device.expected ->
            /\ toTask' = toTask \o <<Telegram("con", 0, 0), Telegram("TAck", t.seq, 0)>>
            /\ UNCHANGED <<device, executed>>
      [] OTHER ->
            /\ toTask' = toTask \o <<Telegram("con", 0, 0), Telegram("TNak", t.seq, 0)>>
            /\ UNCHANGED <<device, executed>>

(* The interface puts the next telegram on the bus and confirms it.        *)
BusTransmits ==
    /\ toDevice # <<>>
    /\ toDevice' = Tail(toDevice)
    /\ LET t == Head(toDevice) IN
       CASE t.tpci = "TConnect" /\ device.kind = "refuses" ->
               /\ toTask' = toTask \o <<Telegram("con", 0, 0), Telegram("TDisconnect", 0, 0)>>
               /\ UNCHANGED <<device, executed>>
         [] t.tpci = "TData" /\ device.open -> DeviceTakesData(t)
         [] OTHER ->
               /\ toTask' = Append(toTask, Telegram("con", 0, 0))
               /\ device' = CASE t.tpci = "TConnect" /\ device.kind = "present" ->
                                    [device EXCEPT !.open = TRUE, !.expected = 0,
                                                   !.sequence = 0, !.owes = 0, !.last = 0]
                              [] t.tpci = "TDisconnect" ->
                                    [device EXCEPT !.open = FALSE, !.owes = 0, !.last = 0]
                              [] OTHER -> device
               /\ UNCHANGED executed
    /\ UNCHANGED <<task, conn, confirmed, outcome, callVars, heard, faults>>

DeviceResponds ==
    /\ device.owes # 0
    /\ toTask' = Append(toTask, Telegram("TData", device.sequence, device.owes))
    /\ device' = [device EXCEPT !.owes = 0, !.last = device.owes, !.sequence = Inc(@)]
    /\ UNCHANGED <<task, conn, confirmed, outcome, callVars, toDevice, executed, heard, faults>>

(* Its response was not acknowledged in time.                              *)
DeviceRepeats ==
    /\ Fault
    /\ device.last # 0
    /\ device.owes = 0
    /\ toTask' = Append(toTask, Telegram("TData", (device.sequence + SeqMod - 1) % SeqMod,
                                         device.last))
    /\ UNCHANGED <<task, conn, confirmed, outcome, callVars, device, toDevice, executed, heard>>

DeviceDisconnects ==
    /\ Fault
    /\ device.open
    /\ device' = [device EXCEPT !.open = FALSE, !.owes = 0, !.last = 0]
    /\ toTask' = Append(toTask, Telegram("TDisconnect", 0, 0))
    /\ UNCHANGED <<task, conn, confirmed, outcome, callVars, toDevice, executed, heard>>

(* The bus loses a telegram; the interface may still confirm it.           *)
TelegramLost ==
    /\ Fault
    /\ \/ toDevice # <<>> /\ toDevice' = Tail(toDevice) /\ UNCHANGED toTask
       \/ toTask # <<>> /\ toTask' = Tail(toTask) /\ UNCHANGED toDevice
    /\ UNCHANGED <<task, conn, confirmed, outcome, callVars, device, executed, heard>>

Bus == TelegramReceived \/ ConfirmationReceived \/ BusTransmits \/ DeviceResponds

-----------------------------------------------------------------------------

Next ==
    \/ Connect \/ Connected \/ ConnectRaises
    \/ Request \/ Requesting
    \/ DisconnectRefused \/ Disconnect \/ Disconnected \/ DisconnectRaises
    \/ Bus
    \/ DeviceRepeats \/ DeviceDisconnects \/ TelegramLost

Spec == Init /\ [][Next]_vars

(* The task wakes up, its timeouts fire, and the bus delivers.  Nothing    *)
(* makes the application connect, send a request or disconnect.            *)
Fairness ==
    /\ WF_vars(Connected \/ ConnectRaises \/ Requesting \/ Disconnected \/ DisconnectRaises)
    /\ WF_vars(Bus)

FairSpec == Spec /\ Fairness

-----------------------------------------------------------------------------
(* Properties.                                                             *)

TypeOK ==
    /\ task \in {"idle", "connecting", "up", "pausing", "send", "ack", "late", "resend",
                 "ack2", "late2", "receive", "expired", "closing"}
    /\ conn \in ConnType
    /\ {registered, confirmed} \subseteq BOOLEAN
    /\ requests \in 0..MaxRequests
    /\ outcome \in [what : {"none", "response", "timeout", "refused", "error"},
                    request : 0..MaxRequests]
    /\ verdict \in {"none", "free", "occupied"}
    /\ device \in DeviceType
    /\ toDevice \in Seq(Telegrams)
    /\ toTask \in Seq(FromDevice)
    /\ executed \in Seq(0..MaxRequests)
    /\ heard \subseteq {"telegram", "disconnect"}
    /\ connections \in 0..MaxConnections
    /\ faults \in 0..MaxFaults

(* request() returns the response to its own request, over repetitions of  *)
(* either side and stale acknowledges, while no request of the connection  *)
(* has raised and unless telegrams of an earlier one are under way: "A     *)
(* response has to be processed by `_receive` before sending the next      *)
(* telegram." (management.py:311)                                          *)
ResponseMatches ==
    outcome.what = "response" /\ conn.clean /\ task = "up" => outcome.request = requests

(* The device executes no request twice, although a telegram is sent again *)
(* when its acknowledge is late or lost.                                   *)
ExecutedOnce ==
    \A i, j \in 1..Len(executed) : i < j => executed[i] < executed[j]

(* A connection that was closed, by either side and whatever failed, is    *)
(* removed from Management: the address can be connected again.            *)
ClosedIsRemoved == task = "idle" => ~registered

(* "if Disconnect is received immediately, IA is occupied"                 *)
(* (nm_individual_address_check.py): a TDisconnect that reached the        *)
(* connection makes the address occupied, however the request times out.   *)
FreeMeansNotRefused == verdict = "free" => "disconnect" \notin heard

(* Every request ends, with a response or an exception.                    *)
RequestEnds == (task \notin {"idle", "up"}) ~> (task \in {"idle", "up"})

=============================================================================
