--------------------------- MODULE SecureSession ----------------------------
(***************************************************************************)
(* A secure unicast session (xknx/io/ip_secure.py, SecureSession) and what *)
(* SecureTunnel does with it (xknx/io/tunnel.py).  Two tasks may be inside *)
(* connect() of one session object: the attempt of the application, and    *)
(* the reconnect task that is started when the TCP connection is lost      *)
(* meanwhile.  The tunnelling server is external.                          *)
(***************************************************************************)
EXTENDS Integers

CONSTANTS
    MaxConnections,     \* bound: TCP connections
    MaxSequence,        \* the largest value of the 6 octets of a sequence number
    MaxServerSequence   \* bound: wrappers of the server in one session

SecureSessionAssumption ==
    {MaxConnections, MaxSequence, MaxServerSequence} \subseteq Nat

Tasks == {"connect", "reconnect"}
None == 0               \* self.transport is None

VARIABLES
    transport,          \* number of the TCP connection, or None
    connections,        \* TCP connections so far
    closing,            \* the TCP connection is lost or about to be closed
    task,               \* where a task is in connect(): "new", "idle", "tcp",
                        \*   "session", "authenticate" or "failed"
    response,           \* the response its request has received
    initialized,
    key,                \* _key: the connection whose handshake made it
    sequence,           \* _sequence_number
    received,           \* _sequence_number_received
    keepalive,          \* _keepalive_task is running
    handler,            \* _session_status_handler is registered
    serverSequence,     \* wrappers the server has sent in this connection
    \* Observers.
    used,               \* highest sequence number used with each key
    reused,             \* was a pair of key and number used twice?
    stopFailed          \* has stop() raised?

counters == <<sequence, keepalive, used, reused>>
vars == <<transport, connections, closing, task, response, initialized, key, received,
          handler, serverSequence, counters, stopFailed>>

Init ==
    /\ transport = None /\ connections = 0 /\ closing = FALSE
    /\ task = [t \in Tasks |-> IF t = "connect" THEN "new" ELSE "idle"]
    /\ response = [t \in Tasks |-> "none"]
    /\ initialized = FALSE /\ key = None
    /\ sequence = 0 /\ received = -1
    /\ keepalive = FALSE /\ handler = FALSE
    /\ serverSequence = 0
    /\ used = [k \in 1..MaxConnections |-> -1] /\ reused = FALSE
    /\ stopFailed = FALSE

\* Another object takes the place of one that is at rest and was stopped; the
\* keys of that one are not used again.
AtRest == task["connect"] \in {"idle", "failed"} /\ task["reconnect"] = "idle"
Stopped == transport = None \/ ~handler
New ==
    /\ AtRest /\ Stopped
    /\ transport' = None /\ UNCHANGED connections /\ closing' = FALSE
    /\ task' = [t \in Tasks |-> IF t = "connect" THEN "new" ELSE "idle"]
    /\ response' = [t \in Tasks |-> "none"]
    /\ initialized' = FALSE /\ key' = None
    /\ sequence' = 0 /\ received' = -1
    /\ keepalive' = FALSE /\ handler' = FALSE
    /\ serverSequence' = 0
    /\ used' = [k \in 1..MaxConnections |-> -1] /\ reused' = FALSE
    /\ stopFailed' = FALSE

---------------------------------------------------------------------------
(* Sending.                                                                 *)

\* send() of a frame when the session uses key k and number n: the frame is
\* encrypted and the keepalive timer starts anew before the transport is tried.
\* An overflow of the number raises IPSecureError first.
Encrypt(k, n) ==
    IF n > MaxSequence THEN UNCHANGED <<used, reused>> /\ sequence' = n
    ELSE /\ sequence' = n + 1
         /\ used' = [used EXCEPT ![k] = IF n > @ THEN n ELSE @]
         /\ reused' = (reused \/ n <= used[k])
Send ==
    IF initialized
    THEN Encrypt(key, sequence) /\ keepalive' = (keepalive \/ sequence <= MaxSequence)
    ELSE UNCHANGED counters

\* stop() at the end of the numbers: STATUS_CLOSE cannot be encrypted.
StopRaises == transport # None /\ initialized /\ sequence > MaxSequence

\* Mutant: the session is still taken for initialized.
StopInitialized(lost) ==
    /\ handler' = FALSE
    /\ IF transport # None /\ initialized THEN Encrypt(key, sequence)
       ELSE UNCHANGED <<sequence, used, reused>>
    /\ keepalive' = FALSE /\ transport' = None /\ closing' = FALSE
    /\ UNCHANGED <<initialized, stopFailed>>
\* stop(): the status handler is unregistered, the session is closed and the
\* connection too, unless the closing frame raises; lost: there is no TCP
\* connection any more.
Stop(lost) ==
    /\ handler' = FALSE
    /\ IF StopRaises
       THEN /\ closing' = (closing \/ lost) /\ stopFailed' = TRUE
            /\ UNCHANGED <<transport, initialized, counters>>
       ELSE /\ IF transport # None /\ initialized THEN Encrypt(key, sequence)
               ELSE UNCHANGED <<sequence, used, reused>>
            /\ keepalive' = FALSE /\ initialized' = FALSE
            /\ transport' = None /\ closing' = FALSE
            /\ UNCHANGED stopFailed

---------------------------------------------------------------------------
(* Connecting.                                                              *)

\* The application calls connect(), again only after stop() was called.
Connect ==
    /\ task["connect"] = "new" \/ (AtRest /\ Stopped)
    /\ task' = [task EXCEPT !["connect"] = "tcp"]
    /\ UNCHANGED <<transport, connections, closing, response, initialized, key, received, handler,
                   serverSequence, counters, stopFailed>>

\* TCPTransport.connect returns; the counters are reset and the SessionRequest
\* is sent, in a wrapper of the old session if stop() has failed.  A task that
\* was woken runs before the next connection is there.
TcpConnected(t) ==
    /\ task[t] = "tcp" /\ connections < MaxConnections
    /\ \A u \in Tasks : response[u] = "none"
    /\ connections' = connections + 1 /\ transport' = connections' /\ closing' = FALSE
    /\ serverSequence' = IF initialized THEN serverSequence ELSE 0
    /\ received' = -1
    /\ task' = [task EXCEPT ![t] = "session"] /\ response' = [response EXCEPT ![t] = "none"]
    /\ IF initialized
       THEN Encrypt(key, 0) /\ keepalive' = TRUE
       ELSE sequence' = 0 /\ UNCHANGED <<keepalive, used, reused>>
    /\ UNCHANGED <<initialized, key, handler, stopFailed>>

\* Tunnel.connect after an exception: the transport is stopped; only the
\* reconnect task tries again.  It makes no difference that stop() may raise
\* in the except clause.
Failed(t) == task' = [task EXCEPT ![t] = IF t = "reconnect" THEN "tcp" ELSE "failed"]
TcpRefused(t) ==
    /\ task[t] = "tcp"
    /\ Failed(t) /\ Stop(FALSE)
    /\ UNCHANGED <<connections, response, key, received, serverSequence>>
RequestTimeout(t) ==
    /\ task[t] \in {"session", "authenticate"} /\ response[t] = "none"
    /\ Failed(t) /\ Stop(FALSE)
    /\ UNCHANGED <<connections, response, key, received, serverSequence>>

\* handshake() makes the key; SessionAuthenticate is the first wrapped frame.
\* When its send() fails, without a transport or a number, connect() fails at
\* once; then stop() fails as well if it was the number.
Handshake(t) ==
    /\ task[t] = "session" /\ response[t] = "session"
    /\ response' = [response EXCEPT ![t] = "none"]
    /\ key' = connections
    /\ serverSequence' = IF key = connections THEN serverSequence ELSE 0
    /\ Encrypt(connections, sequence)
    /\ CASE transport # None /\ sequence <= MaxSequence ->
                /\ initialized' = TRUE /\ keepalive' = TRUE
                /\ task' = [task EXCEPT ![t] = "authenticate"]
                /\ UNCHANGED <<handler, stopFailed>>
         [] transport # None /\ sequence > MaxSequence ->
                /\ initialized' = TRUE /\ handler' = FALSE /\ stopFailed' = TRUE
                /\ Failed(t)
                /\ UNCHANGED keepalive
         [] OTHER ->
                /\ initialized' = FALSE /\ keepalive' = FALSE /\ handler' = FALSE
                /\ Failed(t)
                /\ UNCHANGED stopFailed
    /\ UNCHANGED <<transport, closing, connections, received>>
\* The MAC of the SessionResponse is wrong.
HandshakeFails(t) ==
    /\ task[t] = "session" /\ response[t] = "session"
    /\ response' = [response EXCEPT ![t] = "none"]
    /\ Failed(t) /\ Stop(FALSE)
    /\ UNCHANGED <<connections, key, received, serverSequence>>

Authenticated(t) ==
    /\ task[t] = "authenticate" /\ response[t] = "success"
    /\ response' = [response EXCEPT ![t] = "none"]
    /\ task' = [task EXCEPT ![t] = "idle"]
    /\ handler' = TRUE
    /\ UNCHANGED <<transport, connections, closing, initialized, key, received, serverSequence,
                   counters, stopFailed>>
Rejected(t) ==
    /\ task[t] = "authenticate" /\ response[t] = "failure"
    /\ response' = [response EXCEPT ![t] = "none"]
    /\ Failed(t) /\ Stop(FALSE)
    /\ UNCHANGED <<connections, key, received, serverSequence>>

\* TCPTransport._connection_lost, called for this connection (own) or late for
\* one that was closed before: the session is stopped and _tunnel_lost starts
\* the reconnect task unless it is running.  When stop() raises, nothing is
\* started; nor does a reconnect task go on that stops the transport itself.
ConnectionLost ==
    /\ transport # None
    /\ \E own \in BOOLEAN : Stop(own)
    /\ task' = IF task["reconnect"] = "idle" /\ ~StopRaises
               THEN [task EXCEPT !["reconnect"] = "tcp"] ELSE task
    /\ UNCHANGED <<connections, response, key, received, serverSequence>>

\* Tunnel.disconnect cancels the reconnect task.
Disconnect ==
    /\ task["connect"] # "new"
    /\ task' = [task EXCEPT !["reconnect"] = "idle"]
    /\ response' = [response EXCEPT !["reconnect"] = "none"]
    /\ Stop(FALSE)
    /\ UNCHANGED <<connections, key, received, serverSequence>>

\* _session_keepalive, 50 s after the last frame; a request has timed out by then.
\* The timer starts anew with its frame; without a number the exception ends it.
KeepaliveExpires ==
    /\ keepalive /\ \A t \in Tasks : task[t] \notin {"session", "authenticate"}
    /\ IF initialized THEN Encrypt(key, sequence) ELSE UNCHANGED <<sequence, used, reused>>
    /\ keepalive' = (initialized /\ sequence <= MaxSequence)
    /\ UNCHANGED <<transport, connections, closing, task, response, initialized, key, received,
                   handler, serverSequence, stopFailed>>

---------------------------------------------------------------------------
(* Receiving.                                                               *)

Readable == transport # None /\ ~closing

\* A plain SessionResponse reaches every request that waits for one.
SessionResponse ==
    /\ Readable
    /\ \E t \in Tasks : task[t] = "session" /\ response[t] = "none"
    /\ response' = [t \in Tasks |-> IF task[t] = "session" THEN "session" ELSE response[t]]
    /\ UNCHANGED <<transport, connections, closing, task, initialized, key, received, handler,
                   serverSequence, counters, stopFailed>>

\* A wrapper numbered n; intact: it decrypts with this session's key.
Accepted(n, intact) == n > received /\ intact

\* Mutant: the number is stored before the frame is decrypted.
UnwrapEarly(n, intact) == received' = IF n > received THEN n ELSE received
Unwrap(n, intact) == received' = IF Accepted(n, intact) THEN n ELSE received

\* What the server sends, or seems to: its next wrapper, an earlier one again,
\* or one that does not decrypt.
Wrapper(n, intact) ==
    /\ Readable /\ initialized
    /\ n \in 0..MaxServerSequence
    /\ intact => n <= serverSequence
    /\ serverSequence' = IF intact /\ n = serverSequence THEN serverSequence + 1 ELSE serverSequence
    /\ Unwrap(n, intact)

\* A wrapped SessionStatus answers Authenticate, and closes the transport of a
\* session that is up.
SessionStatus(status) ==
    /\ \E n \in 0..MaxServerSequence, intact \in BOOLEAN :
        /\ Wrapper(n, intact)
        /\ IF Accepted(n, intact)
           THEN /\ response' = [t \in Tasks |->
                                  IF task[t] = "authenticate"
                                  THEN IF status = "success" THEN "success" ELSE "failure"
                                  ELSE response[t]]
                /\ closing' = (handler /\ status = "close")
           ELSE UNCHANGED <<response, closing>>
    /\ UNCHANGED <<transport, connections, task, initialized, key, handler, counters, stopFailed>>
=============================================================================
