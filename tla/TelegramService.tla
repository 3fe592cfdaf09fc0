-------------------------- MODULE TelegramService --------------------------
(***************************************************************************)
(* What xknx.telegrams promises to the rest of the library, without tasks  *)
(* and without the second queue: telegrams are numbered in the order in    *)
(* which they are put, those of one direction are handled in this order,   *)
(* and a join() returns with the step that handles the last telegram.      *)
(***************************************************************************)
EXTENDS Naturals

VARIABLES
    accepted,   \* telegrams put; the last one has this number
    inbox,      \* numbers of the incoming telegrams not handled yet
    outbox,     \* numbers of the outgoing telegrams not handled yet
    handled,    \* numbers handled
    waiting     \* a stop() waits in join()

vars == <<accepted, inbox, outbox, handled, waiting>>

Init == accepted = 0 /\ inbox = {} /\ outbox = {} /\ handled = {} /\ waiting = FALSE

Accept ==
    /\ accepted' = accepted + 1
    /\ \/ inbox' = inbox \cup {accepted'} /\ UNCHANGED outbox
       \/ outbox' = outbox \cup {accepted'} /\ UNCHANGED inbox
    /\ UNCHANGED <<handled, waiting>>

IsFirst(id, box) == id \in box /\ \A other \in box : id <= other

Handle(id) ==
    /\ handled' = handled \cup {id}
    /\ waiting' = (waiting /\ (inbox' # {} \/ outbox' # {}))
    /\ UNCHANGED accepted

HandleIncoming ==
    \E id \in inbox : /\ IsFirst(id, inbox)
                      /\ inbox' = inbox \ {id}
                      /\ UNCHANGED outbox
                      /\ Handle(id)

HandleOutgoing ==
    \E id \in outbox : /\ IsFirst(id, outbox)
                       /\ outbox' = outbox \ {id}
                       /\ UNCHANGED inbox
                       /\ Handle(id)

Join ==
    /\ ~waiting
    /\ inbox # {} \/ outbox # {}
    /\ waiting' = TRUE
    /\ UNCHANGED <<accepted, inbox, outbox, handled>>

Next == Accept \/ HandleIncoming \/ HandleOutgoing \/ Join

Spec == Init /\ [][Next]_vars

=============================================================================
