-------------------------- MODULE Background_proofs --------------------------
(***************************************************************************)
(* Proofs about Background for any set of values with their trackers, any  *)
(* number of permits and any set of jobs.                                  *)
(***************************************************************************)
EXTENDS Background, FiniteSetTheorems, TLAPS

Places == {"none", "new", "sleep", "sem", "join", "joined", "read"}
TaskType ==
    /\ task \in [Values -> [loop : BOOLEAN, at : Places]]
    /\ \A v \in Values : task[v].at = "none" => ~task[v].loop
    /\ registered \subseteq Values
    /\ listening \in BOOLEAN /\ started \in BOOLEAN

(* The updater hears of the connection exactly while XKNX is started; then *)
(* it is on with the connection, and otherwise it is off.                  *)
UpdaterFollows ==
    /\ listening <=> xknx = "started"
    /\ started => listening
    /\ listening => (started <=> Connected)

(* The trackers with a task are registered at an updater that is on.       *)
TasksFollow ==
    \A v \in Values :
        /\ task[v].at # "none" => started /\ v \in registered
        /\ started /\ v \in registered /\ Kind[v] # "INIT" => task[v].at # "none"

TrackerInv == TaskType /\ UpdaterFollows /\ TasksFollow

Holders == {v \in Values : Updater!Holds(v)}
HoldersFinite == IsFiniteSet(Holders)

---------------------------------------------------------------------------
(* Replace, the one way in which tasks are stopped and restarted.           *)

NewTasks == {Updater!NoTask, Updater!StartInit, Updater!UpdateLoop}

LEMMA NewTasksTyped ==
    ASSUME NEW new \in NewTasks
    PROVE  /\ new \in [loop : BOOLEAN, at : Places]
           /\ new.at = "none" => ~new.loop
           /\ new.at = "none" <=> new = Updater!NoTask
           /\ new.at \notin {"join", "joined", "read", "sem"}
<1>1. CASE new = Updater!NoTask
  BY <1>1 DEF Places, Updater!NoTask
<1>2. CASE new = Updater!StartInit
  BY <1>2 DEF Places, Updater!NoTask, Updater!StartInit
<1>3. CASE new = Updater!UpdateLoop
  BY <1>3 DEF Places, Updater!NoTask, Updater!UpdateLoop
<1> QED BY <1>1, <1>2, <1>3 DEF NewTasks

LEMMA ReplaceTasks ==
    ASSUME NEW vs \in SUBSET Values, NEW new \in NewTasks, TaskType, Updater!Replace(vs, new)
    PROVE  /\ task' \in [Values -> [loop : BOOLEAN, at : Places]]
           /\ \A v \in Values : task'[v].at = "none" => ~task'[v].loop
           /\ \A v \in vs : task'[v] = new
           /\ \A v \in Values \ vs : task'[v] = task[v]
BY NewTasksTyped DEF TaskType, Updater!Replace

LEMMA SameCardinality == \A S : Updater!Cardinality(S) = Cardinality(S)
BY Zenon DEF Updater!Cardinality, Cardinality

(* What the trackers of vs held comes back, and nothing else.              *)
LEMMA ReplacePermits ==
    ASSUME NEW vs \in SUBSET Values, NEW new \in NewTasks, TaskType,
           HoldersFinite, PermitsConserved, Updater!Replace(vs, new)
    PROVE  HoldersFinite' /\ PermitsConserved'
<1> DEFINE held == {v \in vs : Updater!Holds(v)}
<1>1. Holders' = Holders \ held
  <2>1. \A v \in vs : task'[v].at \notin {"join", "joined", "read"}
    BY ReplaceTasks, NewTasksTyped
  <2>2. \A v \in Values \ vs : task'[v] = task[v]
    BY ReplaceTasks
  <2> QED BY <2>1, <2>2 DEF Holders, Updater!Holds
<1>2. held = Holders \cap held /\ held \in SUBSET Holders
  BY DEF Holders
<1>3. IsFiniteSet(Holders) /\ IsFiniteSet(held)
  BY <1>2, FS_Subset DEF HoldersFinite
<1>4. Cardinality(held) \in Nat /\ Cardinality(Holders) \in Nat /\ Cardinality(held) <= Cardinality(Holders)
  BY <1>2, <1>3, FS_Subset, FS_CardinalityType
<1>5. IsFiniteSet(Holders') /\ Cardinality(Holders') = Cardinality(Holders) - Cardinality(held)
  BY <1>1, <1>2, <1>3, FS_Difference
<1>6. permits' = permits + Cardinality(held)
  BY SameCardinality, Zenon DEF Updater!Replace
<1> HIDE DEF held
<1>7. permits \in Nat /\ permits + Cardinality(Holders) = ParallelReads
  BY DEF PermitsConserved, Holders
<1>8. permits' \in Nat /\ permits' + Cardinality(Holders') = ParallelReads
  BY <1>4, <1>5, <1>6, <1>7
<1> QED BY <1>5, <1>8 DEF HoldersFinite, PermitsConserved, Holders

---------------------------------------------------------------------------
(* The trackers.                                                            *)

(* A step that leaves the updater on or off as it is and gives tasks to    *)
(* trackers only that have one already, or whose value is registered at an *)
(* updater that is on.                                                     *)
LEMMA KeepsTasks ==
    ASSUME TrackerInv, UNCHANGED <<listening, started, registered, xknx, state>>,
           NEW vs \in SUBSET Values,
           \A v \in Values \ vs : task'[v] = task[v],
           \A v \in vs : started /\ v \in registered,
           \A v \in vs : task'[v].at = "none" => Kind[v] = "INIT",
           task' \in [Values -> [loop : BOOLEAN, at : Places]],
           \A v \in vs : task'[v].at = "none" => ~task'[v].loop
    PROVE  TrackerInv'
<1>1. TaskType'
  BY DEF TrackerInv, TaskType
<1>2. UpdaterFollows'
  BY DEF TrackerInv, UpdaterFollows, Connected
<1>3. TasksFollow'
  BY DEF TrackerInv, TasksFollow
<1> QED BY <1>1, <1>2, <1>3 DEF TrackerInv

(* A task that goes on from one place to the next.                         *)
LEMMA MovesOn ==
    ASSUME TrackerInv, UNCHANGED <<listening, started, registered, xknx, state>>,
           NEW v \in Values, NEW p \in Places \ {"none"}, task[v].at # "none",
           task' = [task EXCEPT ![v].at = p]
    PROVE  TrackerInv'
<1>1. /\ task' \in [Values -> [loop : BOOLEAN, at : Places]]
      /\ task'[v].at = p
      /\ \A u \in Values \ {v} : task'[u] = task[u]
  BY DEF TrackerInv, TaskType
<1>2. /\ \A u \in {v} : started /\ u \in registered
      /\ \A u \in {v} : task'[u].at = "none" => Kind[u] = "INIT"
      /\ \A u \in {v} : task'[u].at = "none" => ~task'[u].loop
  BY <1>1 DEF TrackerInv, TasksFollow
<1>3. {v} \in SUBSET Values
  OBVIOUS
<1> QED BY <1>1, <1>2, <1>3, KeepsTasks

LEMMA ReadDoneReplaces ==
    ASSUME NEW v \in Values, TrackerInv, task[v].at = "read", Updater!ReadDone(v)
    PROVE  /\ started /\ v \in registered
           /\ \E new \in NewTasks :
                Updater!Replace({v}, new) /\ (new.at = "none" => Kind[v] = "INIT")
BY DEF Updater!ReadDone, NewTasks, TrackerInv, TasksFollow, Updater!UpdateLoop

LEMMA ReplacesOne ==
    ASSUME NEW v \in Values, NEW new \in NewTasks, TrackerInv,
           UNCHANGED <<listening, started, registered, xknx, state>>,
           Updater!Replace({v}, new), started, v \in registered, new.at = "none" => Kind[v] = "INIT"
    PROVE  TrackerInv'
<1>1. TaskType /\ {v} \in SUBSET Values
  BY DEF TrackerInv
<1>2. /\ task' \in [Values -> [loop : BOOLEAN, at : Places]]
      /\ \A u \in Values : task'[u].at = "none" => ~task'[u].loop
      /\ \A u \in {v} : task'[u] = new
      /\ \A u \in Values \ {v} : task'[u] = task[u]
  BY <1>1, ReplaceTasks
<1> QED BY <1>1, <1>2, KeepsTasks

LEMMA TrackerUnchanged ==
    ASSUME TrackerInv, UNCHANGED <<listening, started, registered, task, xknx, state>>
    PROVE  TrackerInv'
BY DEF TrackerInv, TaskType, UpdaterFollows, TasksFollow, Connected

(* What the event loop and the telegrams do to the trackers.               *)
LEMMA TelegramTracker ==
    ASSUME TrackerInv, TelegramReceived
    PROVE  TrackerInv'
<1>1. PICK v \in Values, a, d \in BOOLEAN : Updater!Telegram(v, a, d)
  BY DEF TelegramReceived
<1>2. UNCHANGED <<listening, started, registered, xknx, state>>
  BY <1>1 DEF TelegramReceived, Input, Updater!Telegram
<1>3. CASE started /\ v \in registered /\ Kind[v] = "EXPIRE" /\ Updater!Replace({v}, Updater!UpdateLoop)
  <2>1. Updater!UpdateLoop \in NewTasks /\ Updater!UpdateLoop.at # "none"
    BY DEF NewTasks, Updater!UpdateLoop
  <2> QED BY <1>2, <1>3, <2>1, ReplacesOne
<1>4. CASE task[v].at = "read" /\ Updater!ReadDone(v)
  BY <1>2, <1>4, ReadDoneReplaces, ReplacesOne
<1>5. CASE UNCHANGED task
  BY <1>2, <1>5, TrackerUnchanged
<1> QED BY <1>1, <1>3, <1>4, <1>5 DEF Updater!Telegram, Updater!trackers

LEMMA StepTracker ==
    ASSUME TrackerInv, NEW v \in Values, UpdaterStep(v) \/ SleepOver(v) \/ ReaderTimeout(v)
    PROVE  TrackerInv'
<1>1. UNCHANGED <<listening, started, registered, xknx, state>>
  BY DEF UpdaterStep, SleepOver, ReaderTimeout, Internal, Updater!Run, Updater!Acquire,
     Updater!Read, Updater!SleepOver, Updater!ReaderTimeout
<1>2. CASE Updater!Run(v) \/ Updater!SleepOver(v) \/ Updater!Acquire(v) \/ Updater!Read(v)
  <2>1. task[v].at # "none" /\ \E p \in Places \ {"none"} : task' = [task EXCEPT ![v].at = p]
    BY <1>2 DEF Updater!Run, Updater!SleepOver, Updater!Acquire, Updater!Read, Updater!Enqueue, Places
  <2> QED BY <1>1, <2>1, MovesOn
<1>3. CASE Updater!ReaderTimeout(v) /\ task[v].at = "read" /\ Updater!ReadDone(v)
  BY <1>1, <1>3, ReadDoneReplaces, ReplacesOne
<1>4. CASE UNCHANGED task
  BY <1>1, <1>4, TrackerUnchanged
<1> QED BY <1>2, <1>3, <1>4 DEF UpdaterStep, SleepOver, ReaderTimeout, Updater!ReaderTimeout, Updater!trackers

LEMMA QueueTracker ==
    ASSUME TrackerInv, QueueStep
    PROVE  TrackerInv'
<1>1. UNCHANGED <<listening, started, registered, xknx, state>>
  BY DEF QueueStep, Internal, Updater!Dispatch, Updater!OutgoingDone
<1>2. CASE UNCHANGED task
  BY <1>1, <1>2, TrackerUnchanged
<1>3. CASE task' = [v \in Values |-> [task[v] EXCEPT !.at = IF @ = "join" THEN "joined" ELSE @]]
  <2>1. \A v \in Values : /\ task'[v] \in [loop : BOOLEAN, at : Places]
                          /\ task'[v].at = "none" <=> task[v].at = "none"
                          /\ task'[v].loop = task[v].loop
    BY <1>3 DEF TrackerInv, TaskType, Places
  <2>2. task' \in [Values -> [loop : BOOLEAN, at : Places]]
    BY <1>3, <2>1
  <2> QED BY <1>1, <2>1, <2>2 DEF TrackerInv, TaskType, UpdaterFollows, TasksFollow, Connected
<1> QED BY <1>2, <1>3 DEF QueueStep, Updater!Dispatch, Updater!OutgoingDone, Updater!trackers

(* Values come and go.                                                     *)
LEMMA MembershipTracker ==
    ASSUME TrackerInv, NEW v \in Values, Membership(v)
    PROVE  TrackerInv'
<1>1. UNCHANGED <<listening, started, xknx, state>> /\ {v} \in SUBSET Values
  BY DEF Membership, Input, Updater!Register, Updater!Unregister
<1>2. TaskType /\ UpdaterFollows'
  BY <1>1 DEF TrackerInv, UpdaterFollows, Connected
<1>3. CASE Updater!Register(v) /\ started
  <2>1. Updater!StartInit \in NewTasks /\ Updater!StartInit.at # "none"
    BY DEF NewTasks, Updater!StartInit
  <2>2. Updater!Replace({v}, Updater!StartInit) /\ registered' = registered \cup {v}
    BY <1>3 DEF Updater!Register
  <2>3. /\ task' \in [Values -> [loop : BOOLEAN, at : Places]]
        /\ \A u \in Values : task'[u].at = "none" => ~task'[u].loop
        /\ \A u \in {v} : task'[u] = Updater!StartInit
        /\ \A u \in Values \ {v} : task'[u] = task[u]
    BY <1>1, <1>2, <2>1, <2>2, ReplaceTasks
  <2>4. TaskType'
    BY <1>1, <2>2, <2>3 DEF TrackerInv, TaskType
  <2>5. TasksFollow'
    BY <1>1, <1>3, <2>1, <2>2, <2>3 DEF TrackerInv, TasksFollow
  <2> QED BY <1>2, <2>4, <2>5 DEF TrackerInv
<1>4. CASE Updater!Register(v) /\ ~started
  <2>1. UNCHANGED task /\ registered' = registered \cup {v}
    BY <1>4 DEF Updater!Register, Updater!trackers
  <2> QED BY <1>1, <1>2, <1>4, <2>1 DEF TrackerInv, TaskType, TasksFollow
<1>5. CASE Updater!Unregister(v)
  <2>1. Updater!NoTask \in NewTasks /\ Updater!NoTask.at = "none"
    BY DEF NewTasks, Updater!NoTask
  <2>2. Updater!Replace({v}, Updater!NoTask) /\ registered' = registered \ {v}
    BY <1>5 DEF Updater!Unregister
  <2>3. /\ task' \in [Values -> [loop : BOOLEAN, at : Places]]
        /\ \A u \in Values : task'[u].at = "none" => ~task'[u].loop
        /\ \A u \in {v} : task'[u] = Updater!NoTask
        /\ \A u \in Values \ {v} : task'[u] = task[u]
    BY <1>1, <1>2, <2>1, <2>2, ReplaceTasks
  <2>4. TaskType'
    BY <1>1, <2>2, <2>3 DEF TrackerInv, TaskType
  <2>5. TasksFollow'
    BY <1>1, <2>1, <2>2, <2>3 DEF TrackerInv, TasksFollow
  <2> QED BY <1>2, <2>4, <2>5 DEF TrackerInv
<1> QED BY <1>3, <1>4, <1>5 DEF Membership

(* The updater is switched: all that are registered get the same.          *)
LEMMA SwitchTasks ==
    ASSUME TrackerInv, UNCHANGED registered, listening' \in BOOLEAN, started' \in BOOLEAN,
           NEW new \in NewTasks, Updater!Replace(registered, new),
           started' <=> new.at # "none"
    PROVE  TaskType' /\ TasksFollow'
<1>1. TaskType /\ registered \in SUBSET Values
  BY DEF TrackerInv, TaskType
<1>2. /\ task' \in [Values -> [loop : BOOLEAN, at : Places]]
      /\ \A u \in Values : task'[u].at = "none" => ~task'[u].loop
      /\ \A u \in registered : task'[u] = new
      /\ \A u \in Values \ registered : task'[u] = task[u]
  BY <1>1, ReplaceTasks
<1>3. TaskType'
  BY <1>1, <1>2 DEF TaskType
<1>4. TasksFollow'
  BY <1>2 DEF TrackerInv, TasksFollow
<1> QED BY <1>3, <1>4

LEMMA StartStopAt ==
    /\ Updater!StartInit \in NewTasks /\ Updater!StartInit.at # "none"
    /\ Updater!NoTask \in NewTasks /\ Updater!NoTask.at = "none"
BY DEF NewTasks, Updater!StartInit, Updater!NoTask

LEMMA XknxTracker ==
    ASSUME TrackerInv, XknxStart \/ XknxStartFails \/ XknxStarted \/ XknxStop \/ XknxStopped
    PROVE  TrackerInv'
<1>1. CASE XknxStart \/ XknxStartFails \/ XknxStopped
  BY <1>1 DEF XknxStart, XknxStartFails, XknxStopped, updaterVars, TrackerInv, TaskType, UpdaterFollows,
     TasksFollow, Connected
<1>2. CASE XknxStarted
  <2>1. ~listening /\ ~started
    BY <1>2 DEF XknxStarted, TrackerInv, UpdaterFollows
  <2>2. listening' = TRUE /\ xknx' = "started" /\ UNCHANGED <<registered, state>>
    BY <1>2 DEF XknxStarted, Updater!Start
  <2>3. CASE Connected
    <3>1. started' = TRUE /\ Updater!Replace(registered, Updater!StartInit)
      BY <1>2, <2>3 DEF XknxStarted, Updater!Start
    <3>2. TaskType' /\ TasksFollow'
      BY <2>2, <3>1, StartStopAt, SwitchTasks
    <3>3. UpdaterFollows'
      BY <2>2, <2>3, <3>1 DEF UpdaterFollows, Connected
    <3> QED BY <3>2, <3>3 DEF TrackerInv
  <2>4. CASE ~Connected
    <3>1. UNCHANGED <<started, task>>
      BY <1>2, <2>4 DEF XknxStarted, Updater!Start, Updater!trackers
    <3> QED BY <2>1, <2>2, <2>4, <3>1 DEF TrackerInv, TaskType, UpdaterFollows, TasksFollow, Connected
  <2> QED BY <2>3, <2>4
<1>3. CASE XknxStop
  <2>1. /\ listening' = FALSE /\ started' = FALSE /\ xknx' = "stopping"
        /\ UNCHANGED <<registered, state>> /\ Updater!Replace(registered, Updater!NoTask)
    BY <1>3 DEF XknxStop, Updater!Stop
  <2>2. TaskType' /\ TasksFollow'
    BY <2>1, StartStopAt, SwitchTasks
  <2>3. UpdaterFollows'
    BY <2>1 DEF UpdaterFollows
  <2> QED BY <2>2, <2>3 DEF TrackerInv
<1> QED BY <1>1, <1>2, <1>3

LEMMA ConnectionTracker ==
    ASSUME TrackerInv, ConnectionStateChanged
    PROVE  TrackerInv'
<1> DEFINE on == Head(pending) = "CONNECTED"
<1>1. state' = Head(pending) /\ UNCHANGED xknx
  BY DEF ConnectionStateChanged
<1>2. CASE Head(pending) = state
  BY <1>1, <1>2, TrackerUnchanged DEF ConnectionStateChanged, updaterVars
<1>3. CASE Head(pending) # state
  <2>1. Updater!ConnectionStateChange(on)
    BY <1>3 DEF ConnectionStateChanged
  <2>2. on \in BOOLEAN /\ (Connected' <=> on) /\ UNCHANGED <<listening, registered>>
    BY <1>1, <2>1 DEF Connected, Updater!ConnectionStateChange
  <2>3. CASE listening /\ on # started
    <3>1. started' = on /\ Updater!Replace(registered, IF on THEN Updater!StartInit ELSE Updater!NoTask)
      BY <2>1, <2>3 DEF Updater!ConnectionStateChange
    <3>2. TaskType' /\ TasksFollow'
      BY <2>2, <3>1, StartStopAt, SwitchTasks DEF TrackerInv, TaskType
    <3>3. UpdaterFollows'
      BY <1>1, <2>2, <2>3, <3>1 DEF TrackerInv, UpdaterFollows
    <3> QED BY <3>2, <3>3 DEF TrackerInv
  <2>4. CASE ~(listening /\ on # started)
    <3>1. UNCHANGED <<started, task>>
      BY <2>1, <2>4 DEF Updater!ConnectionStateChange, Updater!trackers
    <3>2. UpdaterFollows'
      BY <1>1, <2>2, <2>4, <3>1 DEF TrackerInv, UpdaterFollows, TaskType
    <3> QED BY <2>2, <3>1, <3>2 DEF TrackerInv, TaskType, TasksFollow
  <2> QED BY <2>3, <2>4
<1> QED BY <1>2, <1>3

LEMMA TrackerStep == TrackerInv /\ [Next]_vars => TrackerInv'
<1> SUFFICES ASSUME TrackerInv, [Next]_vars
             PROVE  TrackerInv'
  OBVIOUS
<1>1. CASE XknxStart \/ XknxStartFails \/ XknxStarted \/ XknxStop \/ XknxStopped
  BY <1>1, XknxTracker
<1>2. CASE ConnectionStateChanged
  BY <1>2, ConnectionTracker
<1>3. CASE TelegramReceived
  BY <1>3, TelegramTracker
<1>4. CASE QueueStep
  BY <1>4, QueueTracker
<1>5. ASSUME NEW v \in Values, UpdaterStep(v) \/ SleepOver(v) \/ ReaderTimeout(v)
      PROVE  TrackerInv'
  BY <1>5, StepTracker
<1>6. ASSUME NEW v \in Values, Membership(v)
      PROVE  TrackerInv'
  BY <1>6, MembershipTracker
<1>7. CASE OtherTraffic \/ \E s \in {"DISCONNECTED", "CONNECTING", "CONNECTED"} : Report(s)
  BY <1>7, TrackerUnchanged DEF OtherTraffic, Input, Updater!OtherTraffic, Updater!trackers, Report, updaterVars
<1>8. ASSUME NEW j \in Jobs, JobStep(j) \/ RepeatOver(j) \/ JobRequest(j)
      PROVE  TrackerInv'
  BY <1>8, TrackerUnchanged DEF JobStep, RepeatOver, JobRequest, Internal, Input, updaterVars
<1>9. CASE UNCHANGED vars
  BY <1>9, TrackerUnchanged DEF vars, updaterVars
<1> QED BY <1>1, <1>2, <1>3, <1>4, <1>5, <1>6, <1>7, <1>8, <1>9 DEF Next

LEMMA TrackerInit == Init => TrackerInv
<1> SUFFICES ASSUME Init
             PROVE  TrackerInv
  OBVIOUS
<1>1. /\ task \in [Values -> [loop : BOOLEAN, at : Places]]
      /\ \A v \in Values : task[v].at = "none" /\ ~task[v].loop
  BY DEF Init, Updater!Init, Updater!NoTask, Places
<1> QED BY <1>1 DEF Init, Updater!Init, TrackerInv, TaskType, UpdaterFollows, TasksFollow, Connected

LEMMA TrackerInvariance == Spec => []TrackerInv
BY TrackerInit, TrackerStep, PTL DEF Spec

(* While XKNX is started the trackers follow the connection, in whatever   *)
(* order changes, starts, stops, telegrams and registrations arrive.       *)
THEOREM TrackersAreInStep == Spec => []TrackersFollow
<1>1. TrackerInv => TrackersFollow
  BY DEF TrackerInv, TaskType, UpdaterFollows, TasksFollow, TrackersFollow, Updater!NoTask
<1> QED BY <1>1, TrackerInvariance, PTL

---------------------------------------------------------------------------
(* The permits of the semaphore.                                            *)

PermitsInv == HoldersFinite /\ PermitsConserved

LEMMA SameHolders ==
    ASSUME PermitsInv, UNCHANGED permits,
           \A v \in Values : Updater!Holds(v)' <=> Updater!Holds(v)
    PROVE  PermitsInv'
<1>1. Holders' = Holders
  BY DEF Holders
<1> QED BY <1>1 DEF PermitsInv, HoldersFinite, PermitsConserved, Holders

LEMMA ReplaceKeepsPermits ==
    ASSUME PermitsInv, TaskType, NEW vs \in SUBSET Values, NEW new \in NewTasks,
           Updater!Replace(vs, new)
    PROVE  PermitsInv'
BY ReplacePermits DEF PermitsInv

(* Only who waits takes a permit, and holds it from then on.               *)
LEMMA AcquirePermits ==
    ASSUME PermitsInv, TaskType, NEW v \in Values, Updater!Acquire(v)
    PROVE  PermitsInv'
<1>1. /\ task[v].at = "sem" /\ permits > 0 /\ permits' = permits - 1
      /\ task'[v].at \in {"join", "joined"}
      /\ \A u \in Values \ {v} : task'[u] = task[u]
  BY DEF Updater!Acquire, TaskType
<1>2. Holders' = Holders \cup {v} /\ v \notin Holders
  BY <1>1 DEF Holders, Updater!Holds
<1>3. IsFiniteSet(Holders) /\ Cardinality(Holders) \in Nat
  BY FS_CardinalityType DEF PermitsInv, HoldersFinite
<1>4. IsFiniteSet(Holders') /\ Cardinality(Holders') = Cardinality(Holders) + 1
  BY <1>2, <1>3, FS_AddElement
<1>5. permits \in Nat /\ permits + Cardinality(Holders) = ParallelReads
  BY DEF PermitsInv, PermitsConserved, Holders
<1>6. permits' \in Nat /\ permits' + Cardinality(Holders') = ParallelReads
  BY <1>1, <1>3, <1>4, <1>5
<1> QED BY <1>4, <1>6 DEF PermitsInv, HoldersFinite, PermitsConserved, Holders

LEMMA PermitsStep == PermitsInv /\ TrackerInv /\ [Next]_vars => PermitsInv'
<1> SUFFICES ASSUME PermitsInv, TrackerInv, [Next]_vars
             PROVE  PermitsInv'
  OBVIOUS
<1>0. TaskType /\ registered \in SUBSET Values
  BY DEF TrackerInv, TaskType
<1>s. UNCHANGED <<task, permits>> => PermitsInv'
  BY SameHolders DEF Updater!Holds
<1>1. CASE XknxStart \/ XknxStartFails \/ XknxStopped
  BY <1>1, <1>s DEF XknxStart, XknxStartFails, XknxStopped, updaterVars
<1>2. CASE XknxStarted
  BY <1>0, <1>2, <1>s, StartStopAt, ReplaceKeepsPermits DEF XknxStarted, Updater!Start, Updater!trackers
<1>3. CASE XknxStop
  BY <1>0, <1>3, StartStopAt, ReplaceKeepsPermits DEF XknxStop, Updater!Stop
<1>4. CASE ConnectionStateChanged
  BY <1>0, <1>4, <1>s, StartStopAt, ReplaceKeepsPermits DEF ConnectionStateChanged, updaterVars,
     Updater!ConnectionStateChange, Updater!trackers
<1>5. CASE TelegramReceived
  <2>1. PICK v \in Values, a, d \in BOOLEAN : Updater!Telegram(v, a, d)
    BY <1>5 DEF TelegramReceived
  <2>2. CASE Updater!Replace({v}, Updater!UpdateLoop)
    BY <1>0, <2>2, ReplaceKeepsPermits DEF NewTasks
  <2>3. CASE task[v].at = "read" /\ Updater!ReadDone(v)
    <3>1. PICK new \in NewTasks : Updater!Replace({v}, new)
      BY <2>3, ReadDoneReplaces
    <3> QED BY <1>0, <3>1, ReplaceKeepsPermits
  <2> QED BY <1>s, <2>1, <2>2, <2>3 DEF Updater!Telegram, Updater!trackers
<1>6. CASE QueueStep
  <2>1. UNCHANGED permits
    BY <1>6 DEF QueueStep, Updater!Dispatch, Updater!OutgoingDone, Updater!trackers
  <2>2. \A v \in Values : Updater!Holds(v)' <=> Updater!Holds(v)
    BY <1>0, <1>6 DEF QueueStep, Updater!Dispatch, Updater!OutgoingDone, Updater!trackers,
       Updater!Holds, TaskType
  <2> QED BY <2>1, <2>2, SameHolders
<1>7. ASSUME NEW v \in Values, UpdaterStep(v) \/ SleepOver(v) \/ ReaderTimeout(v)
      PROVE  PermitsInv'
  <2>1. CASE Updater!Acquire(v)
    BY <1>0, <2>1, AcquirePermits
  <2>2. CASE Updater!Run(v) \/ Updater!SleepOver(v) \/ Updater!Read(v)
    <3>1. UNCHANGED permits
      BY <2>2 DEF Updater!Run, Updater!SleepOver, Updater!Read
    <3>2. \A u \in Values : Updater!Holds(u)' <=> Updater!Holds(u)
      BY <1>0, <2>2 DEF Updater!Run, Updater!SleepOver, Updater!Read, Updater!Enqueue, Updater!Holds, TaskType
    <3> QED BY <3>1, <3>2, SameHolders
  <2>3. CASE Updater!ReaderTimeout(v) /\ task[v].at = "read" /\ Updater!ReadDone(v)
    <3>1. PICK new \in NewTasks : Updater!Replace({v}, new)
      BY <2>3, ReadDoneReplaces
    <3> QED BY <1>0, <3>1, ReplaceKeepsPermits
  <2>4. CASE UNCHANGED <<task, permits>>
    BY <1>s, <2>4
  <2> QED BY <1>7, <2>1, <2>2, <2>3, <2>4 DEF UpdaterStep, SleepOver, ReaderTimeout,
     Updater!ReaderTimeout, Updater!trackers
<1>8. ASSUME NEW v \in Values, Membership(v)
      PROVE  PermitsInv'
  BY <1>0, <1>8, <1>s, StartStopAt, ReplaceKeepsPermits DEF Membership, Updater!Register,
     Updater!Unregister, Updater!trackers
<1>9. CASE OtherTraffic \/ \E s \in {"DISCONNECTED", "CONNECTING", "CONNECTED"} : Report(s)
  BY <1>9, <1>s DEF OtherTraffic, Updater!OtherTraffic, Updater!trackers, Report, updaterVars
<1>10. ASSUME NEW j \in Jobs, JobStep(j) \/ RepeatOver(j) \/ JobRequest(j)
       PROVE  PermitsInv'
  BY <1>10, <1>s DEF JobStep, RepeatOver, JobRequest, updaterVars
<1>11. CASE UNCHANGED vars
  BY <1>11, <1>s DEF vars, updaterVars
<1> QED BY <1>1, <1>2, <1>3, <1>4, <1>5, <1>6, <1>7, <1>8, <1>9, <1>10, <1>11 DEF Next

LEMMA PermitsInit == Init => PermitsInv
<1> SUFFICES ASSUME Init
             PROVE  PermitsInv
  OBVIOUS
<1>1. Holders = {} /\ permits = ParallelReads
  BY DEF Init, Updater!Init, Updater!NoTask, Holders, Updater!Holds
<1>2. ParallelReads \in Nat
  BY BackgroundAssumption DEF Updater!StateUpdaterAssumption
<1> QED BY <1>1, <1>2, FS_EmptySet DEF PermitsInv, HoldersFinite, PermitsConserved, Holders

(* However often trackers are cancelled, stopped or removed, what they     *)
(* hold and what is left are always the parallel_reads permits: reading    *)
(* never comes to a standstill for want of a permit that nobody holds.     *)
THEOREM PermitsAreConserved == Spec => []PermitsConserved
<1>1. PermitsInv => PermitsConserved
  BY DEF PermitsInv
<1> QED BY <1>1, PermitsInit, PermitsStep, TrackerInvariance, PTL DEF Spec

---------------------------------------------------------------------------
(* The tasks of the devices.                                                *)

JobsInv ==
    /\ tasks \subseteq Jobs /\ jobs \subseteq Jobs
    /\ xknx # "started" => tasks \subseteq requested
    /\ job \in [Jobs -> {"none", "delay", "wait", "woken", "returned", "target", "repeat", "done"}]
    /\ \A j \in Jobs :
        /\ job[j] # "none" => j \in tasks
        /\ job[j] = "wait" => ~Connected

LEMMA JobsStep == JobsInv /\ [Next]_vars => JobsInv'
<1> SUFFICES ASSUME JobsInv, [Next]_vars
             PROVE  JobsInv'
  OBVIOUS
<1>1. CASE XknxStart \/ XknxStartFails \/ XknxStopped
  BY <1>1 DEF XknxStart, XknxStartFails, XknxStopped, Registry!Start, registryVars, counters,
     JobsInv, Connected
<1>2. CASE XknxStarted
  <2>1. PICK js \in SUBSET jobs :
          tasks' = tasks \cup js /\ Registry!Become(js, "delay")
    BY <1>2 DEF XknxStarted
  <2>2. xknx' = "started" /\ UNCHANGED <<state, jobs>>
    BY <1>2 DEF XknxStarted
  <2> QED BY <2>1, <2>2 DEF Registry!Become, JobsInv, Connected
<1>3. CASE XknxStop
  BY <1>3 DEF XknxStop, Registry!Stop, Registry!Become, JobsInv
<1>4. CASE ConnectionStateChanged
  <2>1. CASE Head(pending) = state
    BY <1>4, <2>1 DEF ConnectionStateChanged, registryVars, counters, JobsInv, Connected
  <2>2. CASE Head(pending) # state
    <3> DEFINE on == Head(pending) = "CONNECTED"
    <3>1. /\ Registry!ConnectionStateChanged(on) /\ state' = Head(pending)
          /\ UNCHANGED <<xknx, jobs, requested>>
      BY <1>4, <2>2 DEF ConnectionStateChanged, counters
    <3> HIDE DEF on
    <3>2. (Connected' <=> on) /\ UNCHANGED tasks
      BY <3>1 DEF Connected, on, Registry!ConnectionStateChanged
    <3>3. \A j \in Jobs :
            /\ job'[j] \in {"delay", "none", "woken", job[j]}
            /\ job[j] = "none" /\ j \notin tasks => job'[j] = "none"
            /\ on => job'[j] # "wait"
      BY <3>1 DEF Registry!ConnectionStateChanged, Registry!Restarted
    <3>4. job' \in [Jobs -> {"none", "delay", "wait", "woken", "returned", "target", "repeat", "done"}]
      BY <3>1, <3>3 DEF Registry!ConnectionStateChanged, JobsInv
    <3> QED BY <3>1, <3>2, <3>3, <3>4 DEF JobsInv
  <2> QED BY <2>1, <2>2
<1>5. ASSUME NEW j \in Jobs, JobStep(j)
      PROVE  JobsInv'
  <2>1. UNCHANGED <<xknx, state, tasks, jobs, requested>> /\ job[j] # "none"
    BY <1>5 DEF JobStep, Internal, counters, Registry!DelayOver, Registry!Woken, Registry!TargetDone
  <2>2. PICK at \in {"wait", "returned", "target", "repeat", "done"} :
          Registry!Become({j}, at) /\ (at = "wait" => ~Connected)
    BY <1>5 DEF JobStep, Registry!DelayOver, Registry!Woken, Registry!TargetDone
  <2> QED BY <2>1, <2>2 DEF Registry!Become, JobsInv, Connected
<1>6. ASSUME NEW j \in Jobs, RepeatOver(j)
      PROVE  JobsInv'
  BY <1>6 DEF RepeatOver, Internal, counters, Registry!RepeatOver, Registry!Become, JobsInv, Connected
<1>7. ASSUME NEW j \in Jobs, JobRequest(j)
      PROVE  JobsInv'
  BY <1>7 DEF JobRequest, Input, Registry!StartTask, Registry!RemoveTask, Registry!Become,
     JobsInv, Connected
<1>8. CASE \/ \E s \in {"DISCONNECTED", "CONNECTING", "CONNECTED"} : Report(s)
           \/ TelegramReceived \/ QueueStep \/ OtherTraffic
           \/ \E v \in Values : UpdaterStep(v) \/ SleepOver(v) \/ ReaderTimeout(v) \/ Membership(v)
  <2>1. UNCHANGED <<registryVars, xknx, state, jobs, requested>>
    BY <1>8 DEF Report, TelegramReceived, QueueStep, OtherTraffic, UpdaterStep, SleepOver,
       ReaderTimeout, Membership, Internal, Input, counters
  <2> QED BY <2>1 DEF registryVars, JobsInv, Connected
<1>9. CASE UNCHANGED vars
  BY <1>9 DEF vars, registryVars, counters, JobsInv, Connected
<1> QED BY <1>1, <1>2, <1>3, <1>4, <1>5, <1>6, <1>7, <1>8, <1>9 DEF Next

LEMMA JobsInit == Init => JobsInv
BY DEF Init, Registry!Init, JobsInv

(* No task of a device outlives stop() or its removal, but those that are  *)
(* started after stop() has cleared the registry, and none is left waiting *)
(* for a connection that stands.                                           *)
THEOREM JobsAreInStep == Spec => []JobsFollow
<1>1. JobsInv => JobsFollow
  BY DEF JobsInv, JobsFollow
<1> QED BY <1>1, JobsInit, JobsStep, PTL DEF Spec

=============================================================================
