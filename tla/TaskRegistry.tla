---------------------------- MODULE TaskRegistry ----------------------------
(***************************************************************************)
(* The tasks of the devices (xknx/core/task_registry.py).  A task waits,   *)
(* then for the connection if it is asked to, runs its target and may      *)
(* repeat; some are cancelled with the connection and restarted with it.   *)
(***************************************************************************)
EXTENDS Naturals

CONSTANTS
    Jobs,
    RestartAfterReconnect, WaitForConnection, RepeatAfter   \* jobs with the option

TaskRegistryAssumption ==
    (RestartAfterReconnect \cup WaitForConnection \cup RepeatAfter) \subseteq Jobs

VARIABLES
    following,      \* how often the callback for the connection state is registered
    tasks,          \* tasks
    job             \* "none" (cancelled), "delay", "wait", "woken", "returned" (without
                    \*   its target), "target", "repeat" or "done"

vars == <<following, tasks, job>>

Init == following = 0 /\ tasks = {} /\ job = [j \in Jobs |-> "none"]

Become(js, at) == job' = [j \in Jobs |-> IF j \in js THEN at ELSE job[j]]

\* start_task cancels a task that is running.
StartTask(j) == tasks' = tasks \cup {j} /\ Become({j}, "delay") /\ UNCHANGED following
\* Mutant: the task is forgotten, but goes on.
RemoveRunning(j) == j \in tasks /\ tasks' = tasks \ {j} /\ UNCHANGED <<following, job>>
RemoveTask(j) ==
    /\ j \in tasks
    /\ tasks' = tasks \ {j} /\ Become({j}, "none")
    /\ UNCHANGED following

\* _start_internal.
DelayOver(j, connected) ==
    /\ job[j] = "delay"
    /\ Become({j}, CASE j \notin WaitForConnection \/ connected -> "target"
                     [] j \in WaitForConnection /\ ~connected /\ j \in RestartAfterReconnect -> "returned"
                     [] OTHER -> "wait")
    /\ UNCHANGED <<following, tasks>>
Woken(j) ==
    /\ job[j] = "woken"
    /\ Become({j}, "target")
    /\ UNCHANGED <<following, tasks>>
TargetDone(j) ==
    /\ job[j] = "target"
    /\ Become({j}, IF j \in RepeatAfter THEN "repeat" ELSE "done")
    /\ UNCHANGED <<following, tasks>>
RepeatOver(j) ==
    /\ job[j] = "repeat"
    /\ Become({j}, "delay")
    /\ UNCHANGED <<following, tasks>>

Start == following' = following + 1 /\ UNCHANGED <<tasks, job>>
Stop == following' = following - 1 /\ tasks' = {} /\ Become(tasks, "none")

\* Mutant: only a task that is still running is restarted.
RestartedRunning(j) == j \in RestartAfterReconnect /\ job[j] \notin {"none", "returned", "done"}
Restarted(j) == j \in RestartAfterReconnect

\* connection_state_changed_cb, after the event `connected` was set or cleared.
ConnectionStateChanged(connected) ==
    /\ job' = [j \in Jobs |->
                CASE connected /\ following > 0 /\ j \in tasks /\ Restarted(j) -> "delay"
                  [] ~connected /\ following > 0 /\ j \in tasks /\ j \in RestartAfterReconnect -> "none"
                  [] connected /\ job[j] = "wait" -> "woken"
                  [] OTHER -> job[j]]
    /\ UNCHANGED <<following, tasks>>
=============================================================================
