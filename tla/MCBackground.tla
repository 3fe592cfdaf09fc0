---------------------------- MODULE MCBackground ----------------------------
(***************************************************************************)
(* Background with one value that is read when it expires and one that is  *)
(* read periodically, or with jobs.  The updater and the registry share    *)
(* nothing but XKNX and the connection, so that each is taken alone.       *)
(***************************************************************************)
EXTENDS Background, TLC

CONSTANTS v1, v2

MCValues == {v1, v2}
MCKind == v1 :> "EXPIRE" @@ v2 :> "PERIODICALLY"

MCInit == Init /\ (jobs = {} \/ (jobs = Jobs /\ registered = {}))
MCNext == Next /\ (jobs = {} \/ UNCHANGED <<registered, queued, outgoing>>)

MCSpec == MCInit /\ [][MCNext]_vars /\ Fairness
=============================================================================
