----------------------------- MODULE Connections -----------------------------
(***************************************************************************)
(* Management._connections, the table of the point-to-point connections    *)
(* (management/management.py), with several callers: connect() looks an    *)
(* address up, awaits the TConnect and only then stores its P2PConnection; *)
(* disconnect() takes whatever object is stored, awaits the TDisconnect    *)
(* and removes the entry of the address.  What is done with one connection *)
(* is the module Management; here a call of send_telegram returns, raises  *)
(* or is cancelled.  A caller that has connected disconnects in the end,   *)
(* as the context manager connection() makes it.                           *)
(***************************************************************************)
CONSTANTS
    Callers,
    Addresses,
    None            \* no entry, no address

ASSUME ConnectionsAssumption == None \notin Callers

VARIABLES
    at,             \* where a caller is: "out", "connecting", "open", "closing"
    address,        \* the address it is, or was last, concerned with, or None
    alive,          \* _connected of the P2PConnection object it has created last
    table,          \* _connections: whose object is stored for an address
    raced           \* history: two callers were connecting to it since it was free

tableVars == <<at, address, alive, table, raced>>

TableInit ==
    /\ at = [c \in Callers |-> "out"]
    /\ address = [c \in Callers |-> None]
    /\ alive = [c \in Callers |-> FALSE]
    /\ table = [a \in Addresses |-> None]
    /\ raced = [a \in Addresses |-> FALSE]

Inside(c, a) == at[c] # "out" /\ address[c] = a

---------------------------------------------------------------------------
(* Management.connect.                                                      *)

Open(c, a) ==
    /\ at[c] = "out"
    /\ at' = [at EXCEPT ![c] = "connecting"]
    /\ address' = [address EXCEPT ![c] = a]
    /\ alive' = [alive EXCEPT ![c] = FALSE]
    /\ raced' = [raced EXCEPT ![a] =
                    @ \/ \E d \in Callers : Inside(d, a) /\ at[d] = "connecting"]
    /\ UNCHANGED table

ConnectTo(c, a) == table[a] = None /\ Open(c, a)

\* P2PConnection.connect returns; the hook is set with the entry.
StoreConnection(c) ==
    /\ at[c] = "connecting"
    /\ at' = [at EXCEPT ![c] = "open"]
    /\ alive' = [alive EXCEPT ![c] = TRUE]
    /\ table' = [table EXCEPT ![address[c]] = c]
    /\ UNCHANGED <<address, raced>>

\* The call is over; when it was the last one the address is free.
Leave(c) ==
    /\ at' = [at EXCEPT ![c] = "out"]
    /\ raced' = [raced EXCEPT ![address[c]] =
                    @ /\ \E d \in Callers \ {c} : Inside(d, address[c])]
    /\ UNCHANGED address

\* send_telegram raises, or the caller is cancelled.
ConnectFails(c) ==
    /\ at[c] = "connecting"
    /\ Leave(c)
    /\ UNCHANGED <<alive, table>>

---------------------------------------------------------------------------
(* Management.disconnect and P2PConnection.disconnect.                      *)

\* remove_connection_hook; that there is no entry is logged.
RemoveConnection(a) == table' = [table EXCEPT ![a] = None]

\* Mutant: ManagementConnectionRefused is raised before the hook is called.
DisconnectObjectKept(c, d) ==
    IF alive[d]
    THEN /\ at' = [at EXCEPT ![c] = "closing"]
         /\ alive' = [alive EXCEPT ![d] = FALSE]
         /\ UNCHANGED <<address, table, raced>>
    ELSE Leave(c) /\ UNCHANGED <<alive, table>>

\* P2PConnection.disconnect of the object of d, by caller c.
DisconnectObject(c, d) ==
    IF alive[d]
    THEN /\ at' = [at EXCEPT ![c] = "closing"]
         /\ alive' = [alive EXCEPT ![d] = FALSE]
         /\ UNCHANGED <<address, table, raced>>
    ELSE /\ RemoveConnection(address[c])
         /\ Leave(c)
         /\ UNCHANGED alive

\* Of the connection that is stored for the address, whosever it is.
DisconnectStored(c) ==
    /\ at[c] = "open"
    /\ LET stored == table[address[c]]
       IN  IF stored = None THEN Leave(c) /\ UNCHANGED <<alive, table>>
                            ELSE DisconnectObject(c, stored)

\* Of the caller's own P2PConnection.
DisconnectOwn(c) == at[c] = "open" /\ DisconnectObject(c, c)

\* The finally clause, after the TDisconnect is sent, or has failed, or the
\* caller was cancelled.
DisconnectEnds(c) ==
    /\ at[c] = "closing"
    /\ RemoveConnection(address[c])
    /\ Leave(c)
    /\ UNCHANGED alive

---------------------------------------------------------------------------
\* Management.process of a TDisconnect of the device.
PeerDisconnects(a) ==
    /\ table[a] # None
    /\ alive' = [alive EXCEPT ![table[a]] = FALSE]
    /\ UNCHANGED <<at, address, table, raced>>

TableNext ==
    \/ \E c \in Callers :
        \/ \E a \in Addresses : ConnectTo(c, a)
        \/ StoreConnection(c) \/ ConnectFails(c)
        \/ DisconnectStored(c) \/ DisconnectOwn(c) \/ DisconnectEnds(c)
    \/ \E a \in Addresses : PeerDisconnects(a)

TableSpec == TableInit /\ [][TableNext]_tableVars

---------------------------------------------------------------------------
(* Properties.                                                              *)

TableTypeOK ==
    /\ at \in [Callers -> {"out", "connecting", "open", "closing"}]
    /\ address \in [Callers -> Addresses \cup {None}]
    /\ \A c \in Callers : at[c] # "out" => address[c] \in Addresses
    /\ alive \in [Callers -> BOOLEAN]
    /\ table \in [Addresses -> Callers \cup {None}]
    /\ raced \in [Addresses -> BOOLEAN]

\* However the calls for an address overlap, fail, are cancelled or take away
\* each other's connection, an entry is never left behind by a caller that is
\* through: an address that nobody uses can be connected again.
EntryHasUser ==
    \A a \in Addresses :
        table[a] # None => Inside(table[a], a) /\ at[table[a]] \in {"open", "closing"}

\* The await between look-up and store is the only way to lose exclusiveness:
\* while no two callers were connecting to an address together, one caller at
\* most is concerned with it, and the entry is its own until it has closed it.
Exclusive ==
    \A a \in Addresses : ~raced[a] =>
        /\ \A c, d \in Callers : Inside(c, a) /\ Inside(d, a) => c = d
        /\ \A c \in Callers : Inside(c, a) /\ at[c] \in {"open", "closing"} => table[a] = c

=============================================================================
