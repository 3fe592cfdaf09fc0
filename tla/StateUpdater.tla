---------------------------- MODULE StateUpdater ----------------------------
(***************************************************************************)
(* The state updater (xknx/core/state_updater.py) with the reads it makes  *)
(* (RemoteValue.read_state, xknx/core/value_reader.py).  Every remote      *)
(* value has a tracker with at most one task; a task that wants to read    *)
(* takes a permit of the semaphore, waits until nothing else is to be sent *)
(* and then awaits a shielded ValueReader, which outlives the task.        *)
(*                                                                         *)
(* A cancelled task leaves its semaphore in the step that cancels it.      *)
(***************************************************************************)
EXTENDS Naturals, FiniteSets

CONSTANTS
    Values,         \* remote values
    Kind,           \* their tracker types: "INIT", "EXPIRE" or "PERIODICALLY"
    ParallelReads   \* parallel_reads

StateUpdaterAssumption ==
    /\ Kind \in [Values -> {"INIT", "EXPIRE", "PERIODICALLY"}]
    /\ ParallelReads \in Nat \ {0}

VARIABLES
    listening,      \* is the callback for the connection state registered?
    started,
    registered,     \* keys of _workers
    task,           \* of a tracker: [loop, at], at: "none", "new", "sleep",
                    \*   "sem", "join", "joined" or "read"
    permits,        \* of _semaphore
    ahead,          \* pairs of trackers that wait for a permit, the first ahead of the second
    readers,        \* ValueReaders under way for a value
    queued,         \* telegrams in xknx.telegrams, on their way to
    outgoing        \* the outgoing queue: put but not yet done

trackers == <<task, permits, ahead>>
vars == <<listening, started, registered, trackers, readers, queued, outgoing>>

NoTask == [loop |-> FALSE, at |-> "none"]
StartInit == [loop |-> FALSE, at |-> "new"]     \* _start_init, not yet run
UpdateLoop == [loop |-> TRUE, at |-> "sleep"]   \* _update_loop

Init ==
    /\ listening = FALSE /\ started = FALSE /\ registered \in SUBSET Values
    /\ task = [v \in Values |-> NoTask]
    /\ permits = ParallelReads /\ ahead = {}
    /\ readers = [v \in Values |-> 0]
    /\ queued = 0 /\ outgoing = 0

---------------------------------------------------------------------------
(* Trackers.                                                                *)

Holds(v) == task[v].at \in {"join", "joined", "read"}

\* Mutant: a cancelled task keeps its permit when it waits for the queue.
ReplaceLeaks(vs, new) ==
    /\ task' = [v \in Values |-> IF v \in vs THEN new ELSE task[v]]
    /\ ahead' = ahead \cap ((Values \ vs) \X (Values \ vs))
    /\ permits' = permits + Cardinality({v \in vs : task[v].at = "read"})
\* stop() of the trackers of vs, and a new task instead.
Replace(vs, new) ==
    /\ task' = [v \in Values |-> IF v \in vs THEN new ELSE task[v]]
    /\ ahead' = ahead \cap ((Values \ vs) \X (Values \ vs))
    /\ permits' = permits + Cardinality({v \in vs : Holds(v)})

\* Behind all that wait for a permit already.
Enqueue(v) ==
    /\ task' = [task EXCEPT ![v].at = "sem"]
    /\ ahead' = ahead \cup ({u \in Values : task[u].at = "sem"} \X {v})

\* The tasks' next steps.
Run(v) ==
    /\ task[v].at = "new"
    /\ Enqueue(v)
    /\ UNCHANGED <<listening, started, registered, permits, readers, queued, outgoing>>
\* An update interval of at least a minute outlasts every reader and what it sent.
SleepOver(v) ==
    /\ task[v].at = "sleep" /\ readers[v] = 0 /\ queued = 0 /\ outgoing = 0
    /\ Enqueue(v)
    /\ UNCHANGED <<listening, started, registered, permits, readers, queued, outgoing>>
Acquire(v) ==
    /\ task[v].at = "sem" /\ (\A u \in Values : <<u, v>> \notin ahead) /\ permits > 0
    /\ ahead' = {p \in ahead : p[1] # v} /\ permits' = permits - 1
    /\ task' = [task EXCEPT ![v].at = IF outgoing = 0 THEN "joined" ELSE "join"]
    /\ UNCHANGED <<listening, started, registered, readers, queued, outgoing>>
\* read_state: a ValueReader registers its callback and queues a GroupValueRead.
Read(v) ==
    /\ task[v].at = "joined"
    /\ task' = [task EXCEPT ![v].at = "read"]
    /\ readers' = [readers EXCEPT ![v] = @ + 1] /\ queued' = queued + 1
    /\ UNCHANGED <<listening, started, registered, permits, ahead, outgoing>>

\* Mutant: only an expiring tracker goes on after its first read.
ReadDoneOnce(v) ==
    Replace({v}, IF task[v].loop \/ Kind[v] = "EXPIRE" THEN UpdateLoop ELSE NoTask)
\* After the read: _update_loop sleeps again, _start_init resets the tracker.
ReadDone(v) ==
    Replace({v}, IF task[v].loop \/ Kind[v] # "INIT" THEN UpdateLoop ELSE NoTask)

---------------------------------------------------------------------------
(* The readers.                                                             *)

Awaited(v) == IF task[v].at = "read" THEN 1 ELSE 0

\* ValueReader.read after timeout_in_seconds; its task may be gone already.
ReaderTimeout(v) ==
    /\ readers[v] > 0
    /\ readers' = [readers EXCEPT ![v] = @ - 1]
    /\ \/ task[v].at = "read" /\ ReadDone(v)
       \/ readers[v] > Awaited(v) /\ UNCHANGED trackers
    /\ UNCHANGED <<listening, started, registered, queued, outgoing>>

\* A write or response for one of the value's addresses: the readers end if it
\* is the state address, and RemoteValue.process tells the updater if it could
\* decode the payload.
Telegram(v, stateAddress, decodable) ==
    /\ readers' = IF stateAddress THEN [readers EXCEPT ![v] = 0] ELSE readers
    /\ IF decodable /\ started /\ v \in registered /\ Kind[v] = "EXPIRE"
       THEN Replace({v}, UpdateLoop)
       ELSE IF stateAddress /\ task[v].at = "read" THEN ReadDone(v) ELSE UNCHANGED trackers
    /\ UNCHANGED <<listening, started, registered, queued, outgoing>>

\* The telegram queue: every task that waits in join() is woken when the last
\* telegram is done, and goes on even if another one is put meanwhile.
Dispatch ==
    /\ queued > 0 /\ queued' = queued - 1 /\ outgoing' = outgoing + 1
    /\ UNCHANGED <<listening, started, registered, trackers, readers>>
OutgoingDone ==
    /\ outgoing > 0 /\ outgoing' = outgoing - 1
    /\ task' = IF outgoing = 1
               THEN [v \in Values |-> [task[v] EXCEPT !.at = IF @ = "join" THEN "joined" ELSE @]]
               ELSE task
    /\ UNCHANGED <<listening, started, registered, permits, ahead, readers, queued>>
OtherTraffic ==
    /\ outgoing' = outgoing + 1
    /\ UNCHANGED <<listening, started, registered, trackers, readers, queued>>

---------------------------------------------------------------------------
(* The updater.                                                             *)

rest == <<readers, queued, outgoing>>

Register(v) ==
    /\ v \notin registered
    /\ registered' = registered \cup {v}
    /\ IF started THEN Replace({v}, StartInit) ELSE UNCHANGED trackers
    /\ UNCHANGED <<listening, started, rest>>
Unregister(v) ==
    /\ v \in registered
    /\ registered' = registered \ {v}
    /\ Replace({v}, NoTask)
    /\ UNCHANGED <<listening, started, rest>>

Start(connected) ==
    /\ listening' = TRUE
    /\ IF connected
       THEN started' = TRUE /\ Replace(registered, StartInit)
       ELSE UNCHANGED <<started, trackers>>
    /\ UNCHANGED <<registered, rest>>
Stop ==
    /\ listening' = FALSE /\ started' = FALSE
    /\ Replace(registered, NoTask)
    /\ UNCHANGED <<registered, rest>>

\* connection_state_change_callback, once it is registered.
ConnectionStateChange(connected) ==
    /\ IF listening /\ connected # started
       THEN /\ started' = connected
            /\ Replace(registered, IF connected THEN StartInit ELSE NoTask)
       ELSE UNCHANGED <<started, trackers>>
    /\ UNCHANGED <<listening, registered, rest>>
=============================================================================
