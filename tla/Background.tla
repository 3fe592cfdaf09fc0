----------------------------- MODULE Background -----------------------------
(***************************************************************************)
(* What XKNX does in the background: the state updater and the task        *)
(* registry, driven by the connection manager                              *)
(* (xknx/core/connection_manager.py) and by XKNX.start and stop            *)
(* (xknx/xknx.py).  The interface runs in a thread of its own: its state   *)
(* changes wait in the event loop before they are applied.                 *)
(***************************************************************************)
EXTENDS Naturals, Sequences, FiniteSets

CONSTANTS
    Values, Kind, ParallelReads,
    Jobs, RestartAfterReconnect, WaitForConnection, RepeatAfter,
    MaxChanges,     \* bound: state changes of the interface
    MaxInputs,      \* bound: telegrams, requests of the devices
    MaxStarts       \* bound: XKNX.start

VARIABLES
    listening, started, registered, task, permits, ahead, readers, queued, outgoing,
    following, tasks, job,
    xknx,           \* "stopped", "connecting" (inside start), "started" or
                    \*   "stopping" (inside stop)
    pending,        \* state changes the event loop still has to apply
    state,          \* _state; the event `connected` is set iff it is CONNECTED
    changes, inputs, starts,
    jobs,           \* the jobs that the devices have
    requested       \* observer: jobs that devices have started since start or stop

Updater == INSTANCE StateUpdater
Registry == INSTANCE TaskRegistry

ASSUME BackgroundAssumption ==
    /\ Updater!StateUpdaterAssumption /\ Registry!TaskRegistryAssumption
    /\ {MaxChanges, MaxInputs, MaxStarts} \subseteq Nat

updaterVars == <<listening, started, registered, task, permits, ahead, readers, queued, outgoing>>
registryVars == <<following, tasks, job>>
counters == <<changes, inputs, starts, jobs, requested>>
vars == <<updaterVars, registryVars, xknx, pending, state, counters>>

Connected == state = "CONNECTED"

Init ==
    /\ Updater!Init /\ Registry!Init
    /\ xknx = "stopped" /\ pending = <<>> /\ state = "DISCONNECTED"
    /\ changes = 0 /\ inputs = 0 /\ starts = 0
    /\ jobs \in SUBSET Jobs /\ requested = {}

---------------------------------------------------------------------------
(* XKNX and the connection manager.                                         *)

\* start: the registry first, then the interface, which reports its state.
XknxStart ==
    /\ xknx = "stopped" /\ starts < MaxStarts /\ starts' = starts + 1
    /\ xknx' = "connecting"
    /\ Registry!Start
    /\ UNCHANGED <<updaterVars, pending, state, changes, inputs, jobs, requested>>
\* The interface cannot connect: start raises, the registry's callback stays.
XknxStartFails ==
    /\ xknx = "connecting" /\ xknx' = "stopped"
    /\ UNCHANGED <<updaterVars, registryVars, pending, state, counters>>
\* Once it was connected (it may be lost again), the updater and the device tasks:
\* some jobs are started with XKNX, the others when their device asks for them.
XknxStarted ==
    /\ xknx = "connecting" /\ xknx' = "started"
    /\ Updater!Start(Connected)
    /\ \E js \in SUBSET jobs :
        tasks' = tasks \cup js /\ Registry!Become(js, "delay") /\ UNCHANGED following
    /\ requested' = {}
    /\ UNCHANGED <<pending, state, changes, inputs, starts, jobs>>
\* stop: the registry and the updater first; then the telegrams are awaited.
XknxStop ==
    /\ xknx = "started" /\ xknx' = "stopping"
    /\ Registry!Stop /\ Updater!Stop
    /\ requested' = {}
    /\ UNCHANGED <<pending, state, changes, inputs, starts, jobs>>
\* At last the interface is disconnected, and reports it.
XknxStopped ==
    /\ xknx = "stopping" /\ xknx' = "stopped"
    /\ pending' = Append(pending, "DISCONNECTED")
    /\ UNCHANGED <<updaterVars, registryVars, state, counters>>

\* connection_state_changed, called by the interface.
Report(s) ==
    /\ xknx # "stopped" \/ s = "DISCONNECTED"
    /\ changes < MaxChanges /\ changes' = changes + 1
    /\ pending' = Append(pending, s)
    /\ UNCHANGED <<updaterVars, registryVars, xknx, state, inputs, starts, jobs, requested>>

\* _connection_state_changed: the callbacks run in the order of registration.
ConnectionStateChanged ==
    /\ pending # <<>> /\ pending' = Tail(pending)
    /\ state' = Head(pending)
    /\ IF Head(pending) = state THEN UNCHANGED <<updaterVars, registryVars>>
       ELSE /\ Registry!ConnectionStateChanged(Head(pending) = "CONNECTED")
            /\ Updater!ConnectionStateChange(Head(pending) = "CONNECTED")
    /\ UNCHANGED <<xknx, counters>>

---------------------------------------------------------------------------
(* Steps of the components.                                                 *)

Input ==
    /\ inputs < MaxInputs /\ inputs' = inputs + 1
    /\ UNCHANGED <<xknx, pending, state, changes, starts, jobs>>
Internal == UNCHANGED <<xknx, pending, state, counters>>

TelegramReceived ==
    /\ Input /\ UNCHANGED <<registryVars, requested>>
    /\ \E v \in Values, stateAddress, decodable \in BOOLEAN :
        Updater!Telegram(v, stateAddress, decodable)
OtherTraffic == Input /\ Updater!OtherTraffic /\ UNCHANGED <<registryVars, requested>>
\* Devices are added and removed.
Membership(v) ==
    /\ Input /\ UNCHANGED <<registryVars, requested>>
    /\ Updater!Register(v) \/ Updater!Unregister(v)
\* A device starts or removes a task of its own, whether XKNX is started or not.
JobRequest(j) ==
    /\ j \in jobs
    /\ Input /\ UNCHANGED updaterVars
    /\ \/ Registry!StartTask(j) /\ requested' = requested \cup {j}
       \/ Registry!RemoveTask(j) /\ UNCHANGED requested

UpdaterStep(v) ==
    /\ Updater!Run(v) \/ Updater!Acquire(v) \/ Updater!Read(v)
    /\ Internal /\ UNCHANGED registryVars
SleepOver(v) == Updater!SleepOver(v) /\ Internal /\ UNCHANGED registryVars
ReaderTimeout(v) == Updater!ReaderTimeout(v) /\ Internal /\ UNCHANGED registryVars
QueueStep ==
    /\ Updater!Dispatch \/ Updater!OutgoingDone
    /\ Internal /\ UNCHANGED registryVars
JobStep(j) ==
    /\ Registry!DelayOver(j, Connected) \/ Registry!Woken(j) \/ Registry!TargetDone(j)
    /\ Internal /\ UNCHANGED updaterVars
RepeatOver(j) == Registry!RepeatOver(j) /\ Internal /\ UNCHANGED updaterVars

Next ==
    \/ XknxStart \/ XknxStartFails \/ XknxStarted \/ XknxStop \/ XknxStopped
    \/ \E s \in {"DISCONNECTED", "CONNECTING", "CONNECTED"} : Report(s)
    \/ ConnectionStateChanged
    \/ TelegramReceived \/ QueueStep \/ OtherTraffic
    \/ \E v \in Values : UpdaterStep(v) \/ SleepOver(v) \/ ReaderTimeout(v) \/ Membership(v)
    \/ \E j \in Jobs : JobStep(j) \/ RepeatOver(j) \/ JobRequest(j)

\* The event loop runs what is ready, sleeps and timeouts end, and the telegram
\* queue sends what it has.
Fairness ==
    /\ WF_vars(ConnectionStateChanged) /\ WF_vars(QueueStep)
    /\ \A v \in Values :
        WF_vars(UpdaterStep(v)) /\ WF_vars(SleepOver(v)) /\ WF_vars(ReaderTimeout(v))
    /\ \A j \in Jobs : WF_vars(JobStep(j)) /\ WF_vars(RepeatOver(j))

Spec == Init /\ [][Next]_vars /\ Fairness

---------------------------------------------------------------------------
(* Properties.                                                              *)

\* While XKNX is started the trackers follow the connection: the updater is on
\* exactly when the last applied state is CONNECTED, no task is left of a value
\* that was removed or of a connection that is gone, and a tracker that reads
\* again and again has always a task.
TrackersFollow ==
    /\ xknx = "started" => (started <=> Connected)
    /\ \A v \in Values :
        /\ task[v] # Updater!NoTask => started /\ v \in registered
        /\ started /\ v \in registered /\ Kind[v] # "INIT" => task[v] # Updater!NoTask

\* At most parallel_reads trackers are between taking a permit and the end of
\* their read, and a tracker that is cancelled, stopped or removed on the way
\* gives its permit back once: none is lost and none is made up.
PermitsConserved ==
    /\ permits \in Nat
    /\ permits + Cardinality({v \in Values : Updater!Holds(v)}) = ParallelReads

\* While XKNX is not started no job runs but those that a device has started
\* meanwhile (also after the registry was stopped, while stop() still waits): all
\* others were cancelled by stop(), and no change of the connection brings one
\* back.  None runs that was removed, and none goes on waiting for a connection
\* that stands: its wake-up cannot be missed.
JobsFollow ==
    \A j \in Jobs :
        /\ xknx # "started" /\ job[j] # "none" => j \in requested
        /\ job[j] # "none" => j \in tasks
        /\ job[j] = "wait" => ~Connected

\* A tracker that wants to read its value comes to read it, is updated or is
\* stopped: permits are never lost to cancelled tasks, and join() returns.
ReadsInTheEnd ==
    \A v \in Values : task[v].at \in {"new", "sem", "join"} ~> task[v].at \notin {"new", "sem", "join"}

\* While the connection stands and the registry follows it, a job that was
\* registered comes to run its target, wherever the start or a loss of the
\* connection has met it: in its delay, waiting for the connection, returned early
\* or cancelled.
JobsResume ==
    \A j \in Jobs :
        (Connected /\ following > 0 /\ j \in tasks /\ job[j] \notin {"target", "repeat", "done"})
            ~> (job[j] = "target" \/ ~Connected \/ j \notin tasks)
=============================================================================
