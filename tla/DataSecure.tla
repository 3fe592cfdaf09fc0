----------------------------- MODULE DataSecure -----------------------------
(***************************************************************************)
(* KNX Data Secure (xknx/secure/data_secure.py): the sequence numbers of   *)
(* the devices whose telegrams are received, and the number that is used   *)
(* for sending, which starts from the wall clock.                          *)
(***************************************************************************)
EXTENDS Integers, Sequences

CONSTANTS
    Devices,            \* senders of the keyring
    Strangers,          \* devices that are not in it
    SecureGroups,       \* group addresses that have a key
    PlainGroups,
    KeyringNumber,      \* last valid number of a device in the keyring
    MaxNumber,          \* _SEQUENCE_NUMBER_MAX
    MaxClock            \* bound: the wall clock, in units of a sequence number

DataSecureAssumption ==
    /\ KeyringNumber \in Nat /\ MaxNumber \in Nat /\ MaxClock \in Nat
    /\ Devices \cap Strangers = {} /\ SecureGroups \cap PlainGroups = {}

VARIABLES
    table,              \* _individual_address_table
    sending,            \* _sequence_number_sending
    clock, sentAt,      \* the wall clock, and what it was at the last telegram
    \* Observers.
    delivered,          \* numbers of the telegrams a device was believed
    highest,            \* highest number ever used for sending
    reusedNumber        \* was one of them used twice?

vars == <<table, sending, clock, sentAt, delivered, highest, reusedNumber>>

InitialSequenceNumber == clock

Init ==
    /\ table = [d \in Devices |-> KeyringNumber]
    /\ clock = 1 /\ sending = 1 /\ sentAt = 0
    /\ delivered = [d \in Devices |-> <<>>]
    /\ highest = 0 /\ reusedNumber = FALSE

Tick ==
    /\ clock < MaxClock /\ clock' = clock + 1
    /\ UNCHANGED <<table, sending, sentAt, delivered, highest, reusedNumber>>

\* data_secure_init: nothing is persisted, the table starts from the keyring
\* and the number from the clock.  A restart takes longer than a tick.
Restart ==
    /\ clock > sentAt
    /\ table' = [d \in Devices |-> KeyringNumber]
    /\ sending' = InitialSequenceNumber
    /\ delivered' = [d \in Devices |-> <<>>]
    /\ UNCHANGED <<clock, sentAt, highest, reusedNumber>>

---------------------------------------------------------------------------
(* Receiving.  A frame is [src, grp, secure, data, seq, intact, known]:    *)
(* data says that its service is S_A_DATA without tool access or broadcast, *)
(* intact that it authenticates, known that APCI.from_knx decodes what was  *)
(* decrypted.                                                               *)

\* Mutant: the last valid number passes once more.
CheckSequenceNumberEqual(f) == f.src \in Devices /\ f.seq >= table[f.src]
CheckSequenceNumber(f) == f.src \in Devices /\ f.seq > table[f.src]

\* Would received_cemi return, rather than raise DataSecureError?
Authentic(f) ==
    f.secure /\ f.data /\ f.grp \in SecureGroups /\ CheckSequenceNumber(f) /\ f.intact
PlainAccepted(f) == ~f.secure /\ f.grp \notin SecureGroups

\* APCI.from_knx raises ConversionError, which nobody catches, after the table
\* was updated.
Raises(f) == Authentic(f) /\ ~f.known

\* CEMIHandler.handle_cemi_frame for an L_DATA_IND to a group address.
ReceivedCemi(f) ==
    /\ table' = IF Authentic(f) THEN [table EXCEPT ![f.src] = f.seq] ELSE table
    /\ delivered' = IF Authentic(f) /\ f.known
                    THEN [delivered EXCEPT ![f.src] = Append(@, f.seq)] ELSE delivered
    /\ UNCHANGED <<sending, clock, sentAt, highest, reusedNumber>>

---------------------------------------------------------------------------
(* Sending.                                                                 *)

\* get_sequence_number raises DataSecureError once the numbers are used up.
NumberLeft(g) == g \in SecureGroups => sending <= MaxNumber

\* outgoing_cemi; a telegram takes at least a tick on the bus.
OutgoingCemi(g) ==
    /\ IF g \in SecureGroups
       THEN /\ clock > sentAt
            /\ sending' = sending + 1 /\ sentAt' = clock
            /\ highest' = IF sending > highest THEN sending ELSE highest
            /\ reusedNumber' = (reusedNumber \/ sending <= highest)
       ELSE UNCHANGED <<sending, sentAt, highest, reusedNumber>>
    /\ UNCHANGED <<table, clock, delivered>>
=============================================================================
