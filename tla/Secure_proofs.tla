---------------------------- MODULE Secure_proofs ----------------------------
(***************************************************************************)
(* Proofs about Secure, for any number of connections, devices, groups and *)
(* numbers.                                                                *)
(*                                                                         *)
(* The session and the Data Secure state have an inductive invariant each. *)
(* That of the session says where its two tasks can be together as long as *)
(* stop() has not failed: a task that is about to open a connection finds  *)
(* no transport, so that no counter is reset while a key is in use.  That  *)
(* of Data Secure relates the numbers to the wall clock they started from. *)
(***************************************************************************)
EXTENDS Secure, TLAPS

Places == {"new", "idle", "tcp", "session", "authenticate", "failed"}
Responses == {"none", "session", "success", "failure"}

SessionType ==
    /\ connections \in 0..MaxConnections /\ transport \in 0..connections
    /\ task \in [Session!Tasks -> Places]
    /\ response \in [Session!Tasks -> Responses]
    /\ key \in 0..connections /\ sequence \in Nat
    /\ received \in Int /\ serverSequence \in Nat
    /\ used \in [1..MaxConnections -> Int]

(* A task that waits for a response has had a connection, and an           *)
(* initialized session has a key; those to come are unused.                *)
KeysKnown ==
    /\ \A t \in Session!Tasks : task[t] \in {"session", "authenticate"} => connections > 0
    /\ initialized => key > 0
    /\ \A k \in 1..MaxConnections : k > connections => used[k] = -1

(* A task that opens a connection is alone in connect(), or the other one  *)
(* waits on a transport that is gone; a transport belongs to a task or to  *)
(* a session that is up.                                                   *)
OneConnecting ==
    /\ task["connect"] \in {"new", "tcp"} =>
            transport = Session!None /\ task["reconnect"] = "idle"
    /\ task["reconnect"] = "tcp" => transport = Session!None
    /\ initialized => transport # Session!None /\ key = connections
    /\ transport # Session!None =>
            handler \/ \E t \in Session!Tasks : task[t] \in {"session", "authenticate"}

(* Only numbers below the next one were used with the newest key.          *)
NumbersFresh ==
    /\ connections > 0 => used[connections] < sequence
    /\ reused = FALSE

(* The number received last is one of the newest key.                      *)
NumbersReceived ==
    /\ received < serverSequence
    /\ key = connections \/ received = -1

Regular == OneConnecting /\ NumbersFresh /\ NumbersReceived

SessionInv ==
    /\ SessionType /\ KeysKnown /\ KeepaliveWhileInitialized
    /\ ~stopFailed => Regular

DataType ==
    /\ table \in [Devices -> Nat] /\ delivered \in [Devices -> Seq(Nat)]
    /\ clock \in Nat /\ sentAt \in Nat /\ sending \in Nat /\ highest \in Nat

(* The wall clock is not behind the numbers, but for the one just used.    *)
ClockAhead ==
    /\ highest <= sentAt /\ sentAt <= clock
    /\ highest < sending
    /\ sending <= clock \/ (sending = clock + 1 /\ sentAt = clock)
    /\ reusedNumber = FALSE

(* What was taken from a device is not above its entry, which only grows.  *)
TableCovers ==
    \A d \in Devices :
        /\ KeyringNumber <= table[d] /\ table[d] <= MaxDeviceNumber
        /\ \A i \in DOMAIN delivered[d] : delivered[d][i] <= table[d]

DataInv == DataType /\ ClockAhead /\ TableCovers /\ TakenOnceInOrder

-----------------------------------------------------------------------------
(* The session.                                                            *)

(* Encrypting leaves the keys to come alone, and counts.                   *)
LEMMA EncryptType ==
    ASSUME SessionType, KeysKnown, NEW k \in 1..connections, NEW n \in Nat,
           Session!Encrypt(k, n), connections' = connections
    PROVE  /\ sequence' \in Nat /\ used' \in [1..MaxConnections -> Int]
           /\ \A j \in 1..MaxConnections : j > connections => used'[j] = -1
<1>1. /\ k \in 1..MaxConnections /\ n \in Nat /\ used \in [1..MaxConnections -> Int]
      /\ connections \in Nat /\ MaxSequence \in Nat /\ MaxConnections \in Nat
      /\ k <= connections
      /\ \A j \in 1..MaxConnections : j > connections => used[j] = -1
  BY SecureAssumption DEF SessionType, KeysKnown, Session!SecureSessionAssumption
<1>2. CASE n > MaxSequence
  BY <1>1, <1>2 DEF Session!Encrypt
<1>3. CASE ~(n > MaxSequence)
  BY <1>1, <1>3 DEF Session!Encrypt
<1> QED BY <1>2, <1>3

(* A frame encrypted with the newest key and the next number is new.       *)
LEMMA EncryptFresh ==
    ASSUME SessionType, NumbersFresh, connections > 0,
           Session!Encrypt(connections, sequence), connections' = connections
    PROVE  NumbersFresh'
<1>1. /\ connections \in 1..MaxConnections /\ sequence \in Nat
      /\ used \in [1..MaxConnections -> Int] /\ MaxSequence \in Nat /\ MaxConnections \in Nat
  BY SecureAssumption DEF SessionType, Session!SecureSessionAssumption
<1>2. CASE sequence > MaxSequence
  BY <1>1, <1>2 DEF Session!Encrypt, NumbersFresh
<1>3. CASE ~(sequence > MaxSequence)
  <2>1. /\ sequence' = sequence + 1
        /\ used' = [used EXCEPT ![connections] =
                        IF sequence > used[connections] THEN sequence ELSE used[connections]]
        /\ reused' = (reused \/ sequence <= used[connections])
    BY <1>3 DEF Session!Encrypt
  <2>2. used[connections] < sequence /\ used[connections] \in Int
    BY <1>1 DEF NumbersFresh
  <2>3. ~(sequence <= used[connections])
    BY <1>1, <2>2
  <2>4. reused' = FALSE
    BY <2>1, <2>3, Zenon DEF NumbersFresh
  <2> QED BY <1>1, <2>1, <2>2, <2>4 DEF NumbersFresh
<1> QED BY <1>2, <1>3

(* stop() leaves a session without transport, key and keepalive timer; or  *)
(* it raises, and the session stays as it is.                              *)
LEMMA StopFresh ==
    ASSUME SessionInv, NEW lost, Session!Stop(lost), connections' = connections
    PROVE  \/ /\ stopFailed' = TRUE
              /\ UNCHANGED <<transport, initialized, sequence, keepalive, used, reused>>
           \/ /\ sequence' \in Nat /\ used' \in [1..MaxConnections -> Int]
              /\ \A j \in 1..MaxConnections : j > connections => used'[j] = -1
              /\ ~stopFailed => NumbersFresh'
              /\ transport' = 0 /\ initialized' = FALSE /\ keepalive' = FALSE
              /\ stopFailed' = stopFailed
<1>1. CASE Session!StopRaises
  BY <1>1 DEF Session!Stop, Session!counters
<1>2. CASE ~Session!StopRaises /\ transport # Session!None /\ initialized
  <2>1. key \in 1..connections /\ sequence \in Nat /\ SessionType /\ KeysKnown
    BY <1>2 DEF SessionInv, KeysKnown, SessionType
  <2>2. Session!Encrypt(key, sequence)
    BY <1>2 DEF Session!Stop
  <2>3. ASSUME ~stopFailed
        PROVE  NumbersFresh'
    <3>1. key = connections /\ NumbersFresh /\ connections > 0
      BY <1>2, <2>1, <2>3 DEF SessionInv, Regular, OneConnecting, SessionType
    <3> QED BY <2>1, <2>2, <3>1, EncryptFresh
  <2>4. /\ sequence' \in Nat /\ used' \in [1..MaxConnections -> Int]
        /\ \A j \in 1..MaxConnections : j > connections => used'[j] = -1
    BY <2>1, <2>2, EncryptType
  <2> QED BY <1>2, <2>3, <2>4 DEF Session!Stop, Session!None
<1>3. CASE ~Session!StopRaises /\ ~(transport # Session!None /\ initialized)
  <2>1. UNCHANGED <<sequence, used, reused>>
    BY <1>3 DEF Session!Stop
  <2> QED BY <1>3, <2>1 DEF Session!Stop, SessionInv, SessionType, KeysKnown, Regular,
          NumbersFresh, Session!None
<1> QED BY <1>1, <1>2, <1>3

(* What has to hold of the tasks after stop() for the invariant to hold.   *)
LEMMA StopInv ==
    ASSUME SessionInv, NEW lost, Session!Stop(lost),
           UNCHANGED <<connections, key, received, serverSequence>>,
           task' \in [Session!Tasks -> Places], response' \in [Session!Tasks -> Responses],
           ~stopFailed /\ task'["connect"] \in {"new", "tcp"} => task'["reconnect"] = "idle",
           \A t \in Session!Tasks : task'[t] \in {"session", "authenticate"} => connections > 0
    PROVE  SessionInv'
<1>1. CASE /\ stopFailed' = TRUE
           /\ UNCHANGED <<transport, initialized, sequence, keepalive, used, reused>>
  BY <1>1 DEF SessionInv, SessionType, KeysKnown, KeepaliveWhileInitialized
<1>2. CASE /\ sequence' \in Nat /\ used' \in [1..MaxConnections -> Int]
           /\ \A j \in 1..MaxConnections : j > connections => used'[j] = -1
           /\ ~stopFailed => NumbersFresh'
           /\ transport' = 0 /\ initialized' = FALSE /\ keepalive' = FALSE
           /\ stopFailed' = stopFailed
  <2>1. SessionType' /\ KeysKnown' /\ KeepaliveWhileInitialized'
    BY <1>2 DEF SessionInv, SessionType, KeysKnown, KeepaliveWhileInitialized
  <2>2. ASSUME ~stopFailed
        PROVE  Regular'
    BY <1>2, <2>2 DEF SessionInv, Regular, OneConnecting, NumbersReceived, Session!None
  <2> QED BY <1>2, <2>1, <2>2 DEF SessionInv
<1> QED BY <1>1, <1>2, StopFresh

(* A task that fails in connect() and stops the transport.                 *)
LEMMA FailedInv ==
    ASSUME SessionInv, NEW t \in Session!Tasks, Session!Failed(t), Session!Stop(FALSE),
           task[t] \in {"tcp", "session", "authenticate"},
           response' \in [Session!Tasks -> Responses],
           UNCHANGED <<connections, key, received, serverSequence>>
    PROVE  SessionInv'
<1>1. /\ task' \in [Session!Tasks -> Places]
      /\ ~stopFailed /\ task'["connect"] \in {"new", "tcp"} => task'["reconnect"] = "idle"
      /\ \A u \in Session!Tasks : task'[u] \in {"session", "authenticate"} => connections > 0
  BY DEF Session!Failed, SessionInv, SessionType, KeysKnown, Regular, OneConnecting,
     Session!Tasks, Places
<1> QED BY <1>1, StopInv

(* Steps of connect() and disconnect().                                    *)
LEMMA ConnectInv ==
    ASSUME SessionInv, Session!Connect \/ Session!ConnectionLost \/ Session!Disconnect
    PROVE  SessionInv'
<1>1. CASE Session!Connect
  <2>1. /\ UNCHANGED <<transport, connections, closing, response, initialized, key, received,
                      handler, serverSequence, sequence, keepalive, used, reused, stopFailed>>
        /\ task' = [task EXCEPT !["connect"] = "tcp"]
        /\ task["connect"] = "new" \/ (Session!AtRest /\ Session!Stopped)
    BY <1>1 DEF Session!Connect, Session!counters
  <2>2. SessionType' /\ KeysKnown' /\ KeepaliveWhileInitialized'
    BY <2>1 DEF SessionInv, SessionType, KeysKnown, KeepaliveWhileInitialized, Session!Tasks, Places
  <2>3. ASSUME ~stopFailed
        PROVE  OneConnecting'
    <3>1. transport = Session!None /\ task["reconnect"] = "idle"
      BY <2>1, <2>3 DEF SessionInv, Regular, OneConnecting, Session!AtRest, Session!Stopped,
         Session!Tasks
    <3> QED BY <2>1, <2>3, <3>1 DEF SessionInv, SessionType, Regular, OneConnecting, Session!Tasks
  <2> QED BY <2>1, <2>2, <2>3 DEF SessionInv, Regular, NumbersFresh, NumbersReceived
<1>2. CASE Session!ConnectionLost
  <2>1. PICK own \in BOOLEAN : Session!Stop(own)
    BY <1>2 DEF Session!ConnectionLost
  <2>2. /\ task' \in [Session!Tasks -> Places]
        /\ ~stopFailed /\ task'["connect"] \in {"new", "tcp"} => task'["reconnect"] = "idle"
        /\ \A t \in Session!Tasks : task'[t] \in {"session", "authenticate"} => connections > 0
        /\ response' = response
        /\ UNCHANGED <<connections, key, received, serverSequence>>
    BY <1>2 DEF Session!ConnectionLost, SessionInv, SessionType, KeysKnown, Regular,
       OneConnecting, Session!Tasks, Places
  <2> QED BY <2>1, <2>2, StopInv DEF SessionInv, SessionType
<1>3. CASE Session!Disconnect
  <2>1. /\ task' \in [Session!Tasks -> Places]
        /\ task'["connect"] \in {"new", "tcp"} => task'["reconnect"] = "idle"
        /\ \A t \in Session!Tasks : task'[t] \in {"session", "authenticate"} => connections > 0
        /\ response' \in [Session!Tasks -> Responses]
        /\ Session!Stop(FALSE) /\ UNCHANGED <<connections, key, received, serverSequence>>
    BY <1>3 DEF Session!Disconnect, SessionInv, SessionType, KeysKnown, Session!Tasks, Places,
       Responses
  <2> QED BY <2>1, StopInv
<1> QED BY <1>1, <1>2, <1>3

(* A frame of the session that is up, with or without a number for it.     *)
LEMMA EncryptInv ==
    ASSUME SessionInv, initialized, Session!Encrypt(key, sequence),
           keepalive' => sequence <= MaxSequence \/ keepalive,
           sequence <= MaxSequence => keepalive',
           UNCHANGED <<transport, connections, closing, task, response, initialized, key,
                       received, handler, serverSequence, stopFailed>>
    PROVE  SessionInv'
<1>1. key \in 1..connections /\ sequence \in Nat /\ SessionType /\ KeysKnown
  BY DEF SessionInv, KeysKnown, SessionType
<1>2. /\ sequence' \in Nat /\ used' \in [1..MaxConnections -> Int]
      /\ \A j \in 1..MaxConnections : j > connections => used'[j] = -1
  BY <1>1, EncryptType
<1>3. SessionType' /\ KeysKnown'
  BY <1>2 DEF SessionInv, SessionType, KeysKnown
<1>4. sequence' <= MaxSequence => sequence <= MaxSequence
  BY <1>1, SecureAssumption DEF Session!Encrypt, Session!SecureSessionAssumption
<1>5. KeepaliveWhileInitialized'
  BY <1>4 DEF KeepaliveWhileInitialized
<1>6. ASSUME ~stopFailed
      PROVE  Regular'
  <2>1. key = connections /\ NumbersFresh /\ connections > 0 /\ Regular
    BY <1>1, <1>6 DEF SessionInv, Regular, OneConnecting, SessionType
  <2>2. NumbersFresh'
    BY <1>1, <2>1, EncryptFresh
  <2> QED BY <2>1, <2>2 DEF Regular, OneConnecting, NumbersReceived
<1> QED BY <1>3, <1>5, <1>6 DEF SessionInv

LEMMA SessionUnchanged ==
    ASSUME SessionInv, UNCHANGED sessionVars
    PROVE  SessionInv'
BY DEF sessionVars, counters, SessionInv, SessionType, KeysKnown, Regular, OneConnecting,
   NumbersFresh, NumbersReceived, KeepaliveWhileInitialized

LEMMA SendInv ==
    ASSUME SessionInv, Session!Send,
           UNCHANGED <<transport, connections, closing, task, response, initialized, key,
                       received, handler, serverSequence, stopFailed>>
    PROVE  SessionInv'
<1>1. CASE initialized
  <2>1. Session!Encrypt(key, sequence) /\ keepalive' = (keepalive \/ sequence <= MaxSequence)
    BY <1>1 DEF Session!Send
  <2> QED BY <1>1, <2>1, EncryptInv
<1>2. CASE ~initialized
  BY <1>2, SessionUnchanged DEF Session!Send, Session!counters, sessionVars, counters
<1> QED BY <1>1, <1>2

LEMMA KeepaliveExpiresInv ==
    ASSUME SessionInv, Session!KeepaliveExpires
    PROVE  SessionInv'
<1>1. initialized
  BY DEF Session!KeepaliveExpires, SessionInv, KeepaliveWhileInitialized
<1>2. Session!Encrypt(key, sequence) /\ keepalive' = (initialized /\ sequence <= MaxSequence)
  BY <1>1 DEF Session!KeepaliveExpires
<1> QED BY <1>1, <1>2, EncryptInv DEF Session!KeepaliveExpires

(* The counters are reset for a new connection, which nobody uses yet, if  *)
(* the session before was stopped.                                         *)
LEMMA TcpConnectedInv ==
    ASSUME SessionInv, NEW t \in Session!Tasks, Session!TcpConnected(t)
    PROVE  SessionInv'
<1>1. /\ connections' = connections + 1 /\ transport' = connections + 1
      /\ connections \in Nat /\ connections' \in 0..MaxConnections
      /\ received' = -1 /\ UNCHANGED <<initialized, key, handler, stopFailed>>
      /\ task' = [task EXCEPT ![t] = "session"] /\ response' = [response EXCEPT ![t] = "none"]
  BY SecureAssumption DEF Session!TcpConnected, SessionInv, SessionType,
     Session!SecureSessionAssumption
<1>2. CASE initialized
  <2>1. stopFailed
    BY <1>2 DEF Session!TcpConnected, SessionInv, Regular, OneConnecting, Session!Tasks
  <2>2. /\ Session!Encrypt(key, 0) /\ keepalive' = TRUE /\ UNCHANGED serverSequence
        /\ key \in 1..connections
    BY <1>2 DEF Session!TcpConnected, SessionInv, KeysKnown, SessionType
  <2>3. sequence' \in Nat /\ used' \in [1..MaxConnections -> Int]
    BY <1>1, <2>2, SecureAssumption DEF Session!Encrypt, SessionInv, SessionType,
       Session!SecureSessionAssumption
  <2>4. \A j \in 1..MaxConnections : j > connections' => used'[j] = -1
    <3>1. \A j \in 1..MaxConnections : j # key => used'[j] = used[j]
      BY <2>2 DEF Session!Encrypt, SessionInv, SessionType
    <3> QED BY <1>1, <2>2, <3>1 DEF SessionInv, KeysKnown, SessionType
  <2>5. SessionType' /\ KeysKnown'
    BY <1>1, <2>2, <2>3, <2>4 DEF SessionInv, SessionType, KeysKnown, Session!Tasks, Places,
       Responses
  <2> QED BY <1>1, <1>2, <2>1, <2>2, <2>5 DEF SessionInv, KeepaliveWhileInitialized
<1>3. CASE ~initialized
  <2>1. sequence' = 0 /\ serverSequence' = 0 /\ UNCHANGED <<keepalive, used, reused>>
    BY <1>3 DEF Session!TcpConnected
  <2>2. SessionType' /\ KeysKnown'
    BY <1>1, <2>1 DEF SessionInv, SessionType, KeysKnown, Session!Tasks, Places, Responses
  <2>3. ASSUME ~stopFailed
        PROVE  Regular'
    <3>1. NumbersFresh'
      BY <1>1, <2>1, <2>3 DEF SessionInv, Regular, NumbersFresh, KeysKnown, SessionType
    <3>2. OneConnecting'
      BY <1>1, <1>3, <2>3 DEF SessionInv, SessionType, Regular, OneConnecting, Session!Tasks,
         Session!None, Session!TcpConnected
    <3> QED BY <1>1, <2>1, <3>1, <3>2 DEF Regular, NumbersReceived
  <2> QED BY <1>1, <1>3, <2>1, <2>2, <2>3 DEF SessionInv, KeepaliveWhileInitialized
<1> QED BY <1>2, <1>3

(* The key of the newest connection is new.                                *)
LEMMA HandshakeInv ==
    ASSUME SessionInv, NEW t \in Session!Tasks, Session!Handshake(t)
    PROVE  SessionInv'
<1>1. /\ connections \in 1..MaxConnections /\ connections \in 1..connections
      /\ sequence \in Nat /\ Session!Encrypt(connections, sequence)
      /\ UNCHANGED <<transport, closing, connections, received>> /\ key' = connections
      /\ SessionType /\ KeysKnown
  BY DEF Session!Handshake, SessionInv, SessionType, KeysKnown
<1>2. /\ sequence' \in Nat /\ used' \in [1..MaxConnections -> Int]
      /\ \A j \in 1..MaxConnections : j > connections => used'[j] = -1
  BY <1>1, EncryptType
<1>3. /\ task' \in [Session!Tasks -> Places] /\ response' \in [Session!Tasks -> Responses]
      /\ serverSequence' \in Nat
      /\ \A u \in Session!Tasks : task'[u] \in {"session", "authenticate"} => connections > 0
  BY <1>1 DEF Session!Handshake, Session!Failed, SessionType, KeysKnown, Session!Tasks, Places,
     Responses
<1>4. SessionType' /\ KeysKnown'
  BY <1>1, <1>2, <1>3 DEF SessionType, KeysKnown
<1>5. KeepaliveWhileInitialized'
  <2>1. sequence > MaxSequence => sequence' = sequence
    BY <1>1 DEF Session!Encrypt
  <2>2. sequence \in Nat /\ MaxSequence \in Nat
    BY <1>1, SecureAssumption DEF Session!SecureSessionAssumption
  <2> QED BY <2>1, <2>2 DEF Session!Handshake, SessionInv, KeepaliveWhileInitialized
<1>6. ASSUME ~stopFailed'
      PROVE  Regular'
  <2>1. ~stopFailed /\ Regular
    BY <1>6 DEF Session!Handshake, SessionInv, SessionType
  <2>2. NumbersFresh'
    BY <1>1, <2>1, EncryptFresh DEF Regular
  <2>3. NumbersReceived'
    BY <1>1, <2>1 DEF Session!Handshake, Regular, NumbersReceived, SessionType
  <2>4. OneConnecting'
    <3>1. /\ response[t] = "session" /\ task[t] = "session" /\ t \in {"connect", "reconnect"}
          /\ task \in [Session!Tasks -> Places] /\ OneConnecting
      BY <1>1, <2>1 DEF Session!Handshake, SessionType, Regular, Session!Tasks
    <3>2. CASE transport # Session!None /\ sequence <= MaxSequence
      <4>1. task' = [task EXCEPT ![t] = "authenticate"]
        BY <1>1, <3>2, SecureAssumption DEF Session!Handshake, Session!SecureSessionAssumption
      <4>2. task'[t] = "authenticate"
        BY <3>1, <4>1 DEF Session!Tasks
      <4> QED BY <4>2, <1>1, <3>1, <3>2, <4>1 DEF OneConnecting, Session!Tasks
    <3>3. CASE ~(transport # Session!None /\ sequence <= MaxSequence)
      <4>1. transport = Session!None
        BY <1>1, <1>6, <3>3, SecureAssumption DEF Session!Handshake, Session!SecureSessionAssumption
      <4>2. /\ task' = [task EXCEPT ![t] = IF t = "reconnect" THEN "tcp" ELSE "failed"]
            /\ initialized' = FALSE
        BY <3>3, <4>1 DEF Session!Handshake, Session!Failed
      <4> QED BY <1>1, <3>1, <4>1, <4>2 DEF OneConnecting, Session!Tasks
    <3> QED BY <3>2, <3>3
  <2> QED BY <2>2, <2>3, <2>4 DEF Regular
<1> QED BY <1>4, <1>5, <1>6 DEF SessionInv

(* What arrives: a number is stored after its wrapper was decrypted.       *)
LEMMA WrapperInv ==
    ASSUME SessionInv, NEW n \in 0..MaxServerSequence, NEW intact \in BOOLEAN,
           Session!Wrapper(n, intact)
    PROVE  /\ received' \in Int /\ serverSequence' \in Nat
           /\ ~stopFailed => received' < serverSequence' /\ key = connections
BY SecureAssumption DEF SessionInv, SessionType, Regular, OneConnecting, NumbersReceived,
   Session!Wrapper, Session!Unwrap, Session!Accepted, Session!SecureSessionAssumption

LEMMA ReceivedInv ==
    ASSUME SessionInv, received' \in Int, serverSequence' \in Nat,
           ~stopFailed => received' < serverSequence' /\ key = connections,
           response' \in [Session!Tasks -> Responses],
           UNCHANGED <<transport, connections, task, initialized, key, handler, counters,
                       stopFailed>>
    PROVE  SessionInv'
BY DEF counters, SessionInv, SessionType, KeysKnown, Regular, OneConnecting, NumbersFresh,
   NumbersReceived, KeepaliveWhileInitialized

LEMMA SessionStatusInv ==
    ASSUME SessionInv, NEW status, Session!SessionStatus(status)
    PROVE  SessionInv'
<1>1. PICK n \in 0..MaxServerSequence, intact \in BOOLEAN :
        /\ Session!Wrapper(n, intact)
        /\ IF Session!Accepted(n, intact)
           THEN response' = [t \in Session!Tasks |->
                                IF task[t] = "authenticate"
                                THEN IF status = "success" THEN "success" ELSE "failure"
                                ELSE response[t]]
           ELSE UNCHANGED response
  BY DEF Session!SessionStatus
<1>2. /\ received' \in Int /\ serverSequence' \in Nat
      /\ ~stopFailed => received' < serverSequence' /\ key = connections
  BY <1>1, WrapperInv
<1>3. response' \in [Session!Tasks -> Responses]
  BY <1>1 DEF SessionInv, SessionType, Responses
<1> QED BY <1>2, <1>3, ReceivedInv DEF Session!SessionStatus, Session!counters, counters

LEMMA SessionStepInv ==
    ASSUME SessionInv, SessionStep
    PROVE  SessionInv'
<1>1. CASE Session!Connect \/ Session!ConnectionLost \/ Session!Disconnect
  BY <1>1, ConnectInv
<1>2. CASE Session!KeepaliveExpires
  BY <1>2, KeepaliveExpiresInv
<1>3. CASE Session!SessionResponse
  <2>1. response' \in [Session!Tasks -> Responses]
    BY <1>3 DEF Session!SessionResponse, SessionInv, SessionType, Responses
  <2> QED BY <1>3, <2>1 DEF Session!SessionResponse, Session!counters, SessionInv, SessionType,
          KeysKnown, Regular, OneConnecting, NumbersFresh, NumbersReceived,
          KeepaliveWhileInitialized
<1>4. ASSUME NEW status, Session!SessionStatus(status)
      PROVE  SessionInv'
  BY <1>4, SessionStatusInv
<1>5. ASSUME NEW t \in Session!Tasks, Session!TcpConnected(t)
      PROVE  SessionInv'
  BY <1>5, TcpConnectedInv
<1>6. ASSUME NEW t \in Session!Tasks, Session!TcpRefused(t) \/ Session!RequestTimeout(t)
      PROVE  SessionInv'
  BY <1>6, FailedInv DEF Session!TcpRefused, Session!RequestTimeout, SessionInv, SessionType
<1>7. ASSUME NEW t \in Session!Tasks, Session!Handshake(t)
      PROVE  SessionInv'
  BY <1>7, HandshakeInv
<1>8. ASSUME NEW t \in Session!Tasks, Session!HandshakeFails(t) \/ Session!Rejected(t)
      PROVE  SessionInv'
  <2>1. response' \in [Session!Tasks -> Responses]
    BY <1>8 DEF Session!HandshakeFails, Session!Rejected, SessionInv, SessionType, Responses
  <2> QED BY <2>1, <1>8, FailedInv DEF Session!HandshakeFails, Session!Rejected
<1>9. ASSUME NEW t \in Session!Tasks, Session!Authenticated(t)
      PROVE  SessionInv'
  <2>1. /\ UNCHANGED <<transport, connections, closing, initialized, key, received,
                      serverSequence, sequence, keepalive, used, reused, stopFailed>>
        /\ handler' = TRUE /\ task' = [task EXCEPT ![t] = "idle"]
        /\ response' = [response EXCEPT ![t] = "none"] /\ task[t] = "authenticate"
    BY <1>9 DEF Session!Authenticated, Session!counters
  <2>2. SessionType' /\ KeysKnown' /\ KeepaliveWhileInitialized'
    BY <2>1 DEF SessionInv, SessionType, KeysKnown, KeepaliveWhileInitialized, Session!Tasks,
       Places, Responses
  <2>3. Regular => Regular'
    BY <2>1, <2>2 DEF SessionInv, SessionType, Regular, OneConnecting, NumbersFresh,
       NumbersReceived, Session!Tasks
  <2> QED BY <2>1, <2>2, <2>3 DEF SessionInv
<1> QED BY <1>1, <1>2, <1>3, <1>4, <1>5, <1>6, <1>7, <1>8, <1>9 DEF SessionStep

-----------------------------------------------------------------------------
(* Data Secure.                                                            *)

(* A telegram is believed once, and its number is one the device has used. *)
LEMMA ReceivedCemiInv ==
    ASSUME DataInv, NEW f \in SecureFrames \cup PlainFrames, Data!ReceivedCemi(f)
    PROVE  DataInv'
<1>1. CASE ~Data!Authentic(f)
  BY <1>1 DEF Data!ReceivedCemi, DataInv, DataType, ClockAhead, TableCovers, TakenOnceInOrder
<1>2. CASE Data!Authentic(f)
  <2> DEFINE d == f.src
  <2>1. d \in Devices /\ f.seq > table[d] /\ f.secure /\ f.intact
    BY <1>2 DEF Data!Authentic, Data!CheckSequenceNumber
  <2>2. f \in SecureFrames
    BY <2>1 DEF PlainFrames
  <2>3. f.seq \in 1..(MaxDeviceNumber + 1) /\ f.seq <= MaxDeviceNumber
    BY <2>1, <2>2 DEF SecureFrames
  <2>4. /\ d \in Devices /\ f.seq \in Nat /\ f.seq <= MaxDeviceNumber /\ f.seq > table[d]
        /\ table[d] \in Nat /\ delivered[d] \in Seq(Nat)
    BY <2>1, <2>3, SecureAssumption DEF DataInv, DataType
  <2>5. /\ table' = [table EXCEPT ![d] = f.seq]
        /\ delivered' = IF f.known THEN [delivered EXCEPT ![d] = Append(delivered[d], f.seq)]
                        ELSE delivered
        /\ UNCHANGED <<sending, clock, sentAt, highest, reusedNumber>>
    BY <1>2 DEF Data!ReceivedCemi
  <2>6. DataType' /\ ClockAhead'
    BY <2>4, <2>5 DEF DataInv, DataType, ClockAhead
  <2>7. \A i \in DOMAIN delivered[d] : delivered[d][i] \in Nat /\ delivered[d][i] < f.seq
    BY <2>4 DEF DataInv, TableCovers, DataType
  <2>8. TableCovers' /\ TakenOnceInOrder'
    <3>1. ASSUME NEW e \in Devices, e # d
          PROVE  table'[e] = table[e] /\ delivered'[e] = delivered[e]
      BY <2>4, <2>5, <3>1 DEF DataInv, DataType
    <3>2. table'[d] = f.seq /\ KeyringNumber <= f.seq
      <4>1. KeyringNumber <= table[d] /\ KeyringNumber \in Nat
        BY <2>4, SecureAssumption DEF DataInv, TableCovers, Data!DataSecureAssumption
      <4> QED BY <2>4, <2>5, <4>1 DEF DataInv, DataType
    <3>3. CASE ~f.known
      BY <2>4, <2>5, <2>7, <3>1, <3>2, <3>3 DEF DataInv, TableCovers, TakenOnceInOrder
    <3>4. CASE f.known
      <4>1. delivered'[d] = Append(delivered[d], f.seq)
        BY <2>4, <2>5, <3>4 DEF DataInv, DataType
      <4>2. /\ \A i \in DOMAIN delivered'[d] : delivered'[d][i] <= f.seq
            /\ \A i \in DOMAIN delivered'[d] : delivered'[d][i] > KeyringNumber
            /\ \A i, j \in DOMAIN delivered'[d] : i < j => delivered'[d][i] < delivered'[d][j]
        <5>1. \A i, j \in DOMAIN delivered[d] : i < j => delivered[d][i] < delivered[d][j]
          BY <2>4 DEF DataInv, TakenOnceInOrder
        <5> DEFINE old == delivered[d]
        <5>2. old \in Seq(Nat) /\ Len(old) \in Nat /\ DOMAIN old = 1..Len(old)
          BY <2>4
        <5>3. /\ \A i \in DOMAIN old : old[i] \in Nat /\ old[i] < f.seq
              /\ \A i \in DOMAIN old : old[i] > KeyringNumber
              /\ \A i, j \in DOMAIN old : i < j => old[i] < old[j]
              /\ f.seq > KeyringNumber /\ KeyringNumber \in Nat
          <6>1. \A i \in DOMAIN old : old[i] > KeyringNumber
            BY <2>4 DEF DataInv, TakenOnceInOrder
          <6>2. KeyringNumber <= table[d] /\ KeyringNumber \in Nat
            BY <2>4, SecureAssumption DEF DataInv, TableCovers, Data!DataSecureAssumption
          <6>3. f.seq > KeyringNumber
            BY <2>4, <6>2
          <6> QED BY <2>7, <5>1, <6>1, <6>2, <6>3
        <5> HIDE DEF old
        <5>4. /\ \A i \in DOMAIN Append(old, f.seq) :
                    \/ i \in DOMAIN old /\ Append(old, f.seq)[i] = old[i]
                    \/ i = Len(old) + 1 /\ Append(old, f.seq)[i] = f.seq
          BY <2>4, <5>2
        <5>5. /\ \A i \in DOMAIN Append(old, f.seq) : Append(old, f.seq)[i] <= f.seq
              /\ \A i \in DOMAIN Append(old, f.seq) : Append(old, f.seq)[i] > KeyringNumber
              /\ \A i, j \in DOMAIN Append(old, f.seq) :
                    i < j => Append(old, f.seq)[i] < Append(old, f.seq)[j]
          BY <2>4, <5>2, <5>3, <5>4
        <5> QED BY <4>1, <5>5 DEF old
      <4> QED BY <2>4, <3>1, <3>2, <4>2 DEF DataInv, TableCovers, TakenOnceInOrder
    <3> QED BY <3>3, <3>4
  <2> QED BY <2>6, <2>8 DEF DataInv
<1> QED BY <1>1, <1>2

(* A number is used once: a restart takes a new one from the clock.        *)
LEMMA DataStepInv ==
    ASSUME DataInv
    PROVE  /\ Data!Tick => DataInv'
           /\ Data!Restart => DataInv'
           /\ \A g : Data!OutgoingCemi(g) => DataInv'
<1>1. ASSUME Data!Tick
      PROVE  DataInv'
  BY <1>1, SecureAssumption DEF Data!Tick, DataInv, DataType, ClockAhead, TableCovers,
     TakenOnceInOrder
<1>2. ASSUME Data!Restart
      PROVE  DataInv'
  <2>1. DataType' /\ ClockAhead'
    BY <1>2, SecureAssumption DEF Data!Restart, Data!InitialSequenceNumber, DataInv, DataType,
       ClockAhead, Data!DataSecureAssumption
  <2>2. \A d \in Devices : table'[d] = KeyringNumber /\ DOMAIN delivered'[d] = {}
    BY <1>2 DEF Data!Restart
  <2> QED BY <2>1, <2>2, SecureAssumption DEF DataInv, TableCovers, TakenOnceInOrder,
          Data!DataSecureAssumption
<1>3. ASSUME NEW g, Data!OutgoingCemi(g)
      PROVE  DataInv'
  <2>1. TableCovers' /\ TakenOnceInOrder'
    BY <1>3 DEF Data!OutgoingCemi, DataInv, TableCovers, TakenOnceInOrder
  <2>2. CASE g \notin SecureGroups
    BY <1>3, <2>1, <2>2 DEF Data!OutgoingCemi, DataInv, DataType, ClockAhead
  <2>3. CASE g \in SecureGroups
    <3>1. ~(sending <= highest) /\ clock > sentAt
      BY <1>3, <2>3 DEF Data!OutgoingCemi, DataInv, DataType, ClockAhead
    <3>2. reusedNumber' = FALSE
      BY <1>3, <2>3, <3>1, Zenon DEF Data!OutgoingCemi, DataInv, ClockAhead
    <3> QED BY <1>3, <2>1, <2>3, <3>1, <3>2 DEF Data!OutgoingCemi, DataInv, DataType, ClockAhead
  <2> QED BY <2>2, <2>3
<1> QED BY <1>1, <1>2, <1>3

-----------------------------------------------------------------------------
(* The composition.                                                        *)

LEMMA InitInv == Init => SessionInv /\ DataInv
<1> SUFFICES ASSUME Init
             PROVE  SessionInv /\ DataInv
  OBVIOUS
<1>1. SessionInv
  <2>1. SessionType /\ KeysKnown
    <3>1. /\ task = [t \in Session!Tasks |-> IF t = "connect" THEN "new" ELSE "idle"]
          /\ response = [t \in Session!Tasks |-> "none"]
          /\ used = [k \in 1..MaxConnections |-> -1]
          /\ connections = 0 /\ transport = 0 /\ key = 0 /\ sequence = 0 /\ received = -1
          /\ serverSequence = 0 /\ stopFailed = FALSE /\ initialized = FALSE
          /\ MaxConnections \in Nat
      BY SecureAssumption DEF Init, Session!Init, Session!None, Session!SecureSessionAssumption
    <3>2. SessionType
      <4>1. task \in [Session!Tasks -> Places]
        BY <3>1 DEF Places
      <4>2. response \in [Session!Tasks -> Responses]
        BY <3>1 DEF Responses
      <4>3. used \in [1..MaxConnections -> Int]
        BY <3>1
      <4>4. connections \in 0..MaxConnections /\ transport \in 0..connections /\ key \in 0..connections
        BY <3>1
      <4> QED BY <3>1, <4>1, <4>2, <4>3, <4>4 DEF SessionType
    <3>3. KeysKnown
      BY <3>1 DEF KeysKnown
    <3> QED BY <3>2, <3>3
  <2>2. Regular /\ KeepaliveWhileInitialized
    BY SecureAssumption DEF Init, Session!Init, Regular, OneConnecting, NumbersFresh,
       NumbersReceived, KeepaliveWhileInitialized, Session!Tasks, Session!None
  <2> QED BY <2>1, <2>2 DEF SessionInv
<1>2. DataInv
  BY SecureAssumption DEF Init, Data!Init, DataInv, DataType, ClockAhead, TableCovers,
     TakenOnceInOrder, Data!DataSecureAssumption
<1> QED BY <1>1, <1>2

LEMMA DataUnchanged ==
    ASSUME DataInv, UNCHANGED dataVars
    PROVE  DataInv'
BY DEF dataVars, DataInv, DataType, ClockAhead, TableCovers, TakenOnceInOrder

LEMMA TunnellingRequestInv ==
    ASSUME SessionInv, DataInv, NEW f \in SecureFrames \cup PlainFrames, TunnellingRequest(f)
    PROVE  SessionInv' /\ DataInv'
<1>1. PICK n \in 0..MaxServerSequence, intact \in BOOLEAN :
        /\ Session!Wrapper(n, intact)
        /\ IF Session!Accepted(n, intact) THEN Data!ReceivedCemi(f) ELSE UNCHANGED dataVars
  BY DEF TunnellingRequest
<1>2. /\ received' \in Int /\ serverSequence' \in Nat
      /\ ~stopFailed => received' < serverSequence' /\ key = connections
  BY <1>1, WrapperInv
<1>3. SessionInv'
  <2>1. response' \in [Session!Tasks -> Responses]
    BY DEF TunnellingRequest, SessionInv, SessionType
  <2> QED BY <1>2, <2>1, ReceivedInv DEF TunnellingRequest
<1>4. DataInv'
  BY <1>1, ReceivedCemiInv, DataUnchanged
<1> QED BY <1>3, <1>4

(* Another session object starts as the first one did.                     *)
LEMMA RestartInv ==
    ASSUME SessionInv, Restart
    PROVE  SessionInv'
<1>1. SessionType' /\ KeysKnown'
  <2>1. /\ task' = [t \in Session!Tasks |-> IF t = "connect" THEN "new" ELSE "idle"]
        /\ response' = [t \in Session!Tasks |-> "none"]
        /\ used' = [k \in 1..MaxConnections |-> -1]
        /\ connections' = connections /\ transport' = 0 /\ key' = 0 /\ sequence' = 0
        /\ received' = -1 /\ serverSequence' = 0 /\ stopFailed' = FALSE /\ initialized' = FALSE
        /\ MaxConnections \in Nat /\ connections \in 0..MaxConnections
    BY SecureAssumption DEF Restart, Session!New, Session!None, Session!SecureSessionAssumption,
       SessionInv, SessionType
  <2>2. SessionType'
    <3>1. task' \in [Session!Tasks -> Places]
      BY <2>1 DEF Places
    <3>2. response' \in [Session!Tasks -> Responses]
      BY <2>1 DEF Responses
    <3>3. used' \in [1..MaxConnections -> Int]
      BY <2>1
    <3>4. connections' \in 0..MaxConnections /\ transport' \in 0..connections'
          /\ key' \in 0..connections'
      BY <2>1
    <3> QED BY <2>1, <3>1, <3>2, <3>3, <3>4 DEF SessionType
  <2>3. KeysKnown'
    BY <2>1 DEF KeysKnown
  <2> QED BY <2>2, <2>3
<1>2. KeepaliveWhileInitialized'
  BY DEF Restart, Session!New, KeepaliveWhileInitialized
<1>3. Regular'
  BY SecureAssumption DEF Restart, Session!New, SessionInv, SessionType, Regular,
     OneConnecting, NumbersFresh, NumbersReceived, Session!Tasks, Session!None,
     Session!SecureSessionAssumption
<1> QED BY <1>1, <1>2, <1>3 DEF SessionInv

LEMMA SendTelegramInv ==
    ASSUME SessionInv, DataInv, NEW g \in SecureGroups \cup PlainGroups, SendTelegram(g)
    PROVE  SessionInv' /\ DataInv'
<1>1. CASE Data!NumberLeft(g)
  BY <1>1, SendInv, DataStepInv DEF SendTelegram
<1>2. CASE ~Data!NumberLeft(g)
  BY <1>2, SessionUnchanged, DataUnchanged DEF SendTelegram, sessionVars
<1> QED BY <1>1, <1>2

LEMMA NextInv == SessionInv /\ DataInv /\ [Next]_vars => (SessionInv /\ DataInv)'
<1> SUFFICES ASSUME SessionInv, DataInv, [Next]_vars
             PROVE  SessionInv' /\ DataInv'
  OBVIOUS
<1>1. CASE SessionStep
  BY <1>1, SessionStepInv, DataUnchanged DEF SessionStep
<1>2. CASE Data!Tick /\ UNCHANGED <<sessionVars, crashed>>
  BY <1>2, DataStepInv, SessionUnchanged
<1>3. CASE Restart
  BY <1>3, RestartInv, DataStepInv DEF Restart
<1>4. ASSUME NEW f \in SecureFrames \cup PlainFrames, TunnellingRequest(f)
      PROVE  SessionInv' /\ DataInv'
  BY <1>4, TunnellingRequestInv
<1>5. ASSUME NEW g \in SecureGroups \cup PlainGroups, SendTelegram(g)
      PROVE  SessionInv' /\ DataInv'
  BY <1>5, SendTelegramInv
<1>6. CASE UNCHANGED vars
  BY <1>6, SessionUnchanged, DataUnchanged DEF vars
<1> QED BY <1>1, <1>2, <1>3, <1>4, <1>5, <1>6 DEF Next

LEMMA Invariance == Spec => [](SessionInv /\ DataInv)
BY InitInv, NextInv, PTL DEF Spec

(* No sequence number is used twice with one key: SecureSession counts on  *)
(* through two tasks in connect() as long as stop() has not failed at the  *)
(* end of the numbers, DataSecure through restarts.                        *)
THEOREM NoncesUnique == Spec => []NonceUnique
<1>1. SessionInv /\ DataInv => NonceUnique
  BY Zenon DEF SessionInv, Regular, NumbersFresh, DataInv, ClockAhead, NonceUnique
<1> QED BY <1>1, Invariance, PTL

(* The numbers a frame is compared with were used by its sender: they are  *)
(* stored after a wrapper was decrypted and a telegram authenticated.      *)
THEOREM ComparedNumbersGenuine == Spec => []NumbersGenuine
<1>1. SessionInv /\ DataInv => NumbersGenuine
  BY DEF SessionInv, Regular, NumbersReceived, DataInv, TableCovers, NumbersGenuine
<1> QED BY <1>1, Invariance, PTL

(* Between two restarts received_cemi takes a telegram of a device at most *)
(* once and in the order it was sent; after a restart it takes none again  *)
(* that is not newer than the keyring.                                     *)
THEOREM TelegramsTakenOnce == Spec => []TakenOnceInOrder
<1>1. DataInv => TakenOnceInOrder
  BY DEF DataInv
<1> QED BY <1>1, Invariance, PTL

(* The keepalive timer follows the session: it never runs without one, and *)
(* with one until the numbers are used up, through every failure of stop().*)
THEOREM KeepaliveFollows == Spec => []KeepaliveWhileInitialized
<1>1. SessionInv => KeepaliveWhileInitialized
  BY DEF SessionInv
<1> QED BY <1>1, Invariance, PTL

=============================================================================
