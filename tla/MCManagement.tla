---------------------------- MODULE MCManagement ----------------------------
(***************************************************************************)
(* management.py seen twice: a behaviour shows either what one caller does *)
(* with its connections in detail (Management), or how several callers     *)
(* share the table of connections (Connections).                           *)
(***************************************************************************)
EXTENDS Management, Connections

MCInit == Init /\ TableInit

MCNext ==
    \/ TableInit /\ Next /\ UNCHANGED tableVars
    \/ Init /\ TableNext /\ UNCHANGED vars

MCSpec == MCInit /\ [][MCNext]_<<vars, tableVars>> /\ Fairness
=============================================================================
