------------------------------- MODULE Secure -------------------------------
(***************************************************************************)
(* Data Secure telegrams through a secure session: the frames of the bus   *)
(* devices arrive in the wrappers of a SecureSession and are checked by    *)
(* DataSecure in the same callback; outgoing telegrams take a number of    *)
(* DataSecure and then one of the session.                                 *)
(***************************************************************************)
EXTENDS Integers, Sequences

CONSTANTS
    MaxConnections, MaxSequence, MaxServerSequence,
    Devices, Strangers, SecureGroups, PlainGroups, KeyringNumber, MaxNumber, MaxClock,
    MaxDeviceNumber     \* bound: the numbers that a device has used for telegrams

VARIABLES
    transport, connections, closing, task, response, initialized, key, sequence, received,
    keepalive, handler, serverSequence, used, reused, stopFailed,
    table, sending, clock, sentAt, delivered, highest, reusedNumber,
    crashed             \* did an exception leave the receive callback?

Session == INSTANCE SecureSession
Data == INSTANCE DataSecure

\* The keyring holds numbers that the devices have used.
ASSUME SecureAssumption ==
    /\ Session!SecureSessionAssumption /\ Data!DataSecureAssumption
    /\ MaxDeviceNumber \in Nat /\ KeyringNumber <= MaxDeviceNumber

counters == <<sequence, keepalive, used, reused>>
sessionVars == <<transport, connections, closing, task, response, initialized, key, received,
                 handler, serverSequence, counters, stopFailed>>
dataVars == <<table, sending, clock, sentAt, delivered, highest, reusedNumber>>
vars == <<sessionVars, dataVars, crashed>>

Init == Session!Init /\ Data!Init /\ crashed = FALSE

\* What may be on the bus: telegrams of the devices, in any order and again and
\* again; damaged ones carry any number.  Plain telegrams carry none.
SecureFrames ==
    {f \in [src : Devices \cup Strangers, grp : SecureGroups \cup PlainGroups,
            secure : {TRUE}, data : BOOLEAN, seq : 1..(MaxDeviceNumber + 1),
            intact : BOOLEAN, known : BOOLEAN] :
        f.intact => f.seq <= MaxDeviceNumber}
PlainFrames ==
    [src : Devices \cup Strangers, grp : SecureGroups \cup PlainGroups, secure : {FALSE},
     data : {TRUE}, seq : {0}, intact : {TRUE}, known : {TRUE}]

\* A TUNNELLING_REQUEST in a wrapper.  Every callback on the way to
\* DataSecure.received_cemi is synchronous; when an exception leaves
\* data_received, asyncio closes the connection.
TunnellingRequest(f) ==
    /\ \E n \in 0..MaxServerSequence, intact \in BOOLEAN :
        /\ Session!Wrapper(n, intact)
        /\ IF Session!Accepted(n, intact)
           THEN /\ Data!ReceivedCemi(f)
                /\ crashed' = (crashed \/ Data!Raises(f))
                /\ closing' = (closing \/ Data!Raises(f))
           ELSE UNCHANGED <<dataVars, crashed, closing>>
    /\ UNCHANGED <<transport, connections, task, response, initialized, key, handler, counters,
                   stopFailed>>

\* CEMIHandler.send_telegram once the tunnel is established; _send_ready waits
\* for the reconnect task.
SendTelegram(g) ==
    /\ handler /\ task["reconnect"] = "idle"
    /\ IF Data!NumberLeft(g)
       THEN Data!OutgoingCemi(g) /\ Session!Send
       ELSE UNCHANGED <<dataVars, counters>>
    /\ UNCHANGED <<transport, connections, closing, task, response, initialized, key, received,
                   handler, serverSequence, stopFailed, crashed>>

\* XKNX is stopped and started again, in this process or another one, and makes
\* a new session.
Restart ==
    /\ Session!New /\ Data!Restart
    /\ UNCHANGED crashed

SessionStep ==
    /\ \/ Session!Connect \/ Session!ConnectionLost \/ Session!Disconnect
       \/ Session!KeepaliveExpires \/ Session!SessionResponse
       \/ \E status \in {"success", "close", "keepalive"} : Session!SessionStatus(status)
       \/ \E t \in Session!Tasks :
            \/ Session!TcpConnected(t) \/ Session!TcpRefused(t) \/ Session!RequestTimeout(t)
            \/ Session!Handshake(t) \/ Session!HandshakeFails(t)
            \/ Session!Authenticated(t) \/ Session!Rejected(t)
    /\ UNCHANGED <<dataVars, crashed>>

Next ==
    \/ SessionStep
    \/ Data!Tick /\ UNCHANGED <<sessionVars, crashed>>
    \/ Restart
    \/ \E f \in SecureFrames \cup PlainFrames : TunnellingRequest(f)
    \/ \E g \in SecureGroups \cup PlainGroups : SendTelegram(g)

Spec == Init /\ [][Next]_vars

---------------------------------------------------------------------------
(* Properties.                                                              *)

\* No sequence number is used twice with one key, neither by the session (over
\* reconnects and two tasks in connect()) nor by Data Secure (over restarts),
\* unless the numbers were used up and the session could not be stopped.
NonceUnique == (reused => stopFailed) /\ ~reusedNumber

\* The numbers a later frame has to exceed were really used by its sender: no
\* damaged frame, and no frame of an earlier session, makes a genuine one look
\* old, in the session or in the table of Data Secure.
NumbersGenuine ==
    /\ received < serverSequence \/ stopFailed
    /\ \A d \in Devices : table[d] <= MaxDeviceNumber

\* Between two restarts every secure telegram of a device is taken at most once
\* and in the order it was sent, whatever the bus and the server repeat.  What is
\* taken once more after a restart is newer than the keyring.
TakenOnceInOrder ==
    \A d \in Devices : \A i \in DOMAIN delivered[d] :
        /\ delivered[d][i] > KeyringNumber
        /\ \A j \in DOMAIN delivered[d] : i < j => delivered[d][i] < delivered[d][j]

\* The keepalive timer runs while the session is initialized and has a number
\* left for its frame, and never otherwise: a session that was stopped sends
\* nothing more.
KeepaliveWhileInitialized ==
    /\ keepalive => initialized
    /\ initialized /\ sequence <= MaxSequence => keepalive

\* cemi_handler.py, handle_raw_cemi: "a malformed frame must never crash the
\* receive loop".
ReceiveLoopSurvives == ~crashed
=============================================================================
