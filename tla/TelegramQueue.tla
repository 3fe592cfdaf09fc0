--------------------------- MODULE TelegramQueue ---------------------------
(***************************************************************************)
(* xknx/core/telegram_queue.py with the part of xknx/xknx.py that drives   *)
(* it: XKNX.start, XKNX.join and XKNX.stop.                                *)
(*                                                                         *)
(* Two asyncio tasks share two queues.  The consumer takes telegrams from  *)
(* xknx.telegrams, handles the incoming ones and moves the outgoing ones   *)
(* to outgoing_queue; the rate limiter takes them from there and sends     *)
(* them.  None closes both queues.  A telegram leaves xknx.telegrams'      *)
(* unfinished count only when it was handled, so that join() waits for     *)
(* both tasks.  The code between two awaits is one action; the cell        *)
(* "unfinished" of an asyncio.Queue and the waiters of its join() are      *)
(* part of the state.  The queues survive stop() and are used again by     *)
(* the next start().                                                       *)
(***************************************************************************)
EXTENDS Naturals, Sequences

CONSTANTS
    None,           \* the object that closes a queue
    RateLimit,      \* xknx.rate_limit # 0
    MaxTelegrams,   \* bound: telegrams put in a behaviour
    MaxStarts,      \* bound: calls of XKNX.start
    MaxIdleStops    \* bound: calls of XKNX.stop while nothing is running

(* Direction and destination of a telegram: received from the bus, to be   *)
(* sent to a GroupAddress, or to be sent to an InternalGroupAddress.       *)
Kinds == {"incoming", "group", "internal"}

Telegrams == [id : 1..MaxTelegrams, kind : Kinds]

ASSUME ConstantsAssumption ==
    /\ RateLimit \in BOOLEAN
    /\ MaxTelegrams \in Nat
    /\ MaxStarts \in Nat
    /\ MaxIdleStops \in Nat

ASSUME NoneAssumption == None \notin Telegrams

VARIABLES
    telegrams,      \* xknx.telegrams
    unfinished,     \* its count of unfinished tasks
    outgoing,       \* telegram_queue.outgoing_queue
    unfinishedOut,  \* its count of unfinished tasks
    consumer,       \* where _telegram_consumer is suspended
    limiter,        \* where _outgoing_rate_limiter is suspended
    current,        \* the telegram _outgoing_rate_limiter holds, or None
    rateTask,       \* _rate_limiter: the sleep task of the last bus telegram
    user,           \* where the task that calls start() and stop() is
    count,          \* telegrams put so far; the last one has this id
    handled,        \* history: ids whose task_done() was called
    sent,           \* history: ids given to cemi_handler.send_telegram
    cut,            \* history: count when stop() last put None
    starts,         \* calls of start() so far
    idleStops       \* calls of stop() without a running queue so far

queueVars == <<telegrams, unfinished, outgoing, unfinishedOut>>
taskVars  == <<consumer, limiter, current, rateTask>>
userVars  == <<user, cut, starts, idleStops>>
histVars  == <<count, handled, sent>>
vars      == <<queueVars, taskVars, userVars, histVars>>

-----------------------------------------------------------------------------

Init ==
    /\ telegrams = <<>>
    /\ unfinished = 0
    /\ outgoing = <<>>
    /\ unfinishedOut = 0
    /\ consumer = "off"
    /\ limiter = "off"
    /\ current = None
    /\ rateTask = "none"
    /\ user = "stopped"
    /\ count = 0
    /\ handled = {}
    /\ sent = <<>>
    /\ cut = 0
    /\ starts = 0
    /\ idleStops = 0

-----------------------------------------------------------------------------
(* Fault: only the None of a stop wakes join().                            *)
TaskDoneSilent ==
    /\ unfinished' = unfinished - 1
    /\ UNCHANGED user

(* asyncio.Queue.task_done for each queue.  The call that brings the count *)
(* to zero wakes whoever waits in join(); the woken task goes on even if   *)
(* the queue is filled again before it runs.                               *)

TaskDone ==
    /\ unfinished' = unfinished - 1
    /\ user' = IF unfinished = 1 /\ user = "joining" THEN "joined" ELSE user

TaskDoneOut ==
    /\ unfinishedOut' = unfinishedOut - 1
    /\ consumer' = IF unfinishedOut = 1 /\ consumer = "draining"
                     THEN "drained" ELSE consumer

(* The gathered pair of tasks has ended (or was never created).            *)
TasksOver == consumer \in {"off", "done"} /\ limiter \in {"off", "done"}

-----------------------------------------------------------------------------
(* Any task may put a telegram at any time: CEMIHandler.telegram_received  *)
(* an incoming one, a RemoteValue, the ValueReader or the application an   *)
(* outgoing one.                                                           *)
Put(kind) ==
    /\ count < MaxTelegrams
    /\ count' = count + 1
    /\ telegrams' = Append(telegrams, [id |-> count + 1, kind |-> kind])
    /\ unfinished' = unfinished + 1
    /\ UNCHANGED <<outgoing, unfinishedOut, taskVars, userVars, handled, sent>>

(* XKNX.start once the interface is connected: TelegramQueue.start.        *)
Start ==
    /\ user = "stopped"
    /\ starts < MaxStarts
    /\ TasksOver
    /\ starts' = starts + 1
    /\ user' = "running"
    /\ consumer' = "get"
    /\ limiter' = "get"
    /\ UNCHANGED <<queueVars, current, rateTask, cut, idleStops, histVars>>

(* TelegramQueue.stop up to its await.                                     *)
PutNone ==
    /\ telegrams' = Append(telegrams, None)
    /\ unfinished' = unfinished + 1
    /\ cut' = count
    /\ user' = "stopping"

(* XKNX.stop: join() returns at once when nothing is unfinished.  Nothing  *)
(* keeps the application from calling it without a running queue, after a  *)
(* failed start for example.                                               *)
Stop ==
    /\ \/ user = "running" /\ UNCHANGED idleStops
       \/ /\ user = "stopped"
          /\ idleStops < MaxIdleStops
          /\ idleStops' = idleStops + 1
    /\ IF unfinished = 0
         THEN PutNone
         ELSE user' = "joining" /\ UNCHANGED <<telegrams, unfinished, cut>>
    /\ UNCHANGED <<outgoing, unfinishedOut, taskVars, starts, histVars>>

(* join() of XKNX.stop has returned.                                       *)
StopJoined ==
    /\ user = "joined"
    /\ PutNone
    /\ UNCHANGED <<outgoing, unfinishedOut, taskVars, starts, idleStops, histVars>>

(* The await of the gathered tasks in TelegramQueue.stop returns.          *)
StopReturn ==
    /\ user = "stopping"
    /\ TasksOver
    /\ user' = "stopped"
    /\ UNCHANGED <<queueVars, taskVars, cut, starts, idleStops, histVars>>

-----------------------------------------------------------------------------
(* The loop of _telegram_consumer.                                         *)

ConsumerTake ==
    /\ consumer = "get"
    /\ telegrams # <<>>
    /\ telegrams' = Tail(telegrams)

(* process_telegram_incoming has no await: callbacks and devices run in    *)
(* the same step, whatever they raise is caught and task_done() called.    *)
ConsumeIncoming ==
    /\ ConsumerTake
    /\ Head(telegrams) # None
    /\ Head(telegrams).kind = "incoming"
    /\ TaskDone
    /\ handled' = handled \cup {Head(telegrams).id}
    /\ UNCHANGED <<outgoing, unfinishedOut, taskVars, cut, starts, idleStops,
                   count, sent>>

(* Fault: task_done() for every telegram the consumer took.                *)
ConsumeOutgoingDone ==
    /\ ConsumerTake
    /\ Head(telegrams) # None
    /\ Head(telegrams).kind # "incoming"
    /\ outgoing' = Append(outgoing, Head(telegrams))
    /\ unfinishedOut' = unfinishedOut + 1
    /\ TaskDone
    /\ UNCHANGED <<taskVars, cut, starts, idleStops, histVars>>

(* Fault: the consumer handles an internal telegram itself.                *)
ConsumeInternalHere ==
    /\ ConsumerTake
    /\ Head(telegrams) # None
    /\ Head(telegrams).kind # "incoming"
    /\ IF Head(telegrams).kind = "internal"
         THEN /\ TaskDone
              /\ handled' = handled \cup {Head(telegrams).id}
              /\ UNCHANGED <<outgoing, unfinishedOut>>
         ELSE /\ outgoing' = Append(outgoing, Head(telegrams))
              /\ unfinishedOut' = unfinishedOut + 1
              /\ UNCHANGED <<unfinished, user, handled>>
    /\ UNCHANGED <<taskVars, cut, starts, idleStops, count, sent>>

(* task_done() of an outgoing telegram is left to the rate limiter.        *)
ConsumeOutgoing ==
    /\ ConsumerTake
    /\ Head(telegrams) # None
    /\ Head(telegrams).kind # "incoming"
    /\ outgoing' = Append(outgoing, Head(telegrams))
    /\ unfinishedOut' = unfinishedOut + 1
    /\ UNCHANGED <<unfinished, taskVars, userVars, histVars>>

(* Fault: the rate limiter is cancelled instead of drained.                *)
ConsumeNoneCancel ==
    /\ ConsumerTake
    /\ Head(telegrams) = None
    /\ consumer' = "drained"
    /\ limiter' = "done"
    /\ outgoing' = <<>>
    /\ unfinishedOut' = 0
    /\ current' = None
    /\ UNCHANGED <<unfinished, rateTask, userVars, histVars>>

(* None closes the second queue behind everything that is in it.           *)
ConsumeNone ==
    /\ ConsumerTake
    /\ Head(telegrams) = None
    /\ outgoing' = Append(outgoing, None)
    /\ unfinishedOut' = unfinishedOut + 1
    /\ consumer' = "draining"
    /\ UNCHANGED <<unfinished, limiter, current, rateTask, userVars, histVars>>

ConsumerExit ==
    /\ consumer = "drained"
    /\ consumer' = "done"
    /\ TaskDone
    /\ UNCHANGED <<telegrams, outgoing, unfinishedOut, limiter, current,
                   rateTask, cut, starts, idleStops, histVars>>

Consumer == ConsumeIncoming \/ ConsumeOutgoing \/ ConsumeNone \/ ConsumerExit

-----------------------------------------------------------------------------
(* The loop of _outgoing_rate_limiter.                                     *)

LimiterTake ==
    /\ limiter = "get"
    /\ outgoing # <<>>
    /\ outgoing' = Tail(outgoing)

IsLimited(telegram) == RateLimit /\ telegram.kind = "group"

(* None: a sleep that is still pending is cancelled, and kept.             *)
LimiterExit ==
    /\ LimiterTake
    /\ Head(outgoing) = None
    /\ TaskDoneOut
    /\ limiter' = "done"
    /\ rateTask' = IF rateTask = "sleeping" THEN "cancelled" ELSE rateTask
    /\ UNCHANGED <<telegrams, unfinished, current, userVars, histVars>>

(* An InternalGroupAddress is neither limited nor sent: devices and        *)
(* callbacks run without an await.                                         *)
LimitInternal ==
    /\ LimiterTake
    /\ Head(outgoing) # None
    /\ Head(outgoing).kind = "internal"
    /\ TaskDoneOut
    /\ TaskDone
    /\ handled' = handled \cup {Head(outgoing).id}
    /\ UNCHANGED <<telegrams, limiter, current, rateTask, cut, starts,
                   idleStops, count, sent>>

(* process_telegram_outgoing up to the await in send_telegram.             *)
BeginSend(telegram) ==
    /\ limiter' = "send"
    /\ sent' = Append(sent, telegram.id)
    /\ rateTask' = IF IsLimited(telegram) THEN "sleeping" ELSE rateTask

(* No pause is due.                                                        *)
LimitNow ==
    /\ LimiterTake
    /\ Head(outgoing) # None
    /\ Head(outgoing).kind = "group"
    /\ IsLimited(Head(outgoing)) => rateTask \in {"none", "elapsed"}
    /\ current' = Head(outgoing)
    /\ BeginSend(Head(outgoing))
    /\ UNCHANGED <<telegrams, unfinished, unfinishedOut, consumer, userVars,
                   count, handled>>

(* The sleep task of the last bus telegram is awaited.  If an earlier stop *)
(* cancelled it, the await raises CancelledError, which is outside of the  *)
(* try statement and ends the task with the telegram in its hands.         *)
LimitAwait ==
    /\ LimiterTake
    /\ Head(outgoing) # None
    /\ IsLimited(Head(outgoing))
    /\ rateTask \in {"sleeping", "cancelled"}
    /\ current' = Head(outgoing)
    /\ limiter' = IF rateTask = "cancelled" THEN "dead" ELSE "limit"
    /\ UNCHANGED <<telegrams, unfinished, unfinishedOut, consumer, rateTask,
                   userVars, histVars>>

(* asyncio.sleep(1 / rate_limit) of the sleep task ends.                   *)
RateElapsed ==
    /\ rateTask = "sleeping"
    /\ rateTask' = "elapsed"
    /\ UNCHANGED <<queueVars, consumer, limiter, current, userVars, histVars>>

LimitResume ==
    /\ limiter = "limit"
    /\ rateTask = "elapsed"
    /\ BeginSend(current)
    /\ UNCHANGED <<queueVars, consumer, current, userVars, count, handled>>

(* Fault: a telegram whose send failed is queued again.                    *)
SendReturnRetry ==
    /\ limiter = "send"
    /\ limiter' = "get"
    /\ current' = None
    /\ outgoing' = Append(outgoing, current)
    /\ UNCHANGED <<telegrams, unfinished, unfinishedOut, consumer, rateTask,
                   userVars, histVars>>

(* Fault: an exception of send_telegram is not caught.                     *)
SendReturnRaise ==
    /\ limiter = "send"
    /\ limiter' = "dead"
    /\ UNCHANGED <<queueVars, consumer, current, rateTask, userVars, histVars>>

(* send_telegram returns or raises; devices and callbacks run after a      *)
(* success.  Every exception is caught and both task_done() are called.    *)
SendReturn ==
    /\ limiter = "send"
    /\ limiter' = "get"
    /\ current' = None
    /\ TaskDoneOut
    /\ TaskDone
    /\ handled' = handled \cup {current.id}
    /\ UNCHANGED <<telegrams, outgoing, rateTask, cut, starts, idleStops,
                   count, sent>>

Limiter ==
    \/ LimiterExit \/ LimitInternal \/ LimitNow
    \/ LimitAwait \/ LimitResume \/ SendReturn

-----------------------------------------------------------------------------

Next ==
    \/ \E kind \in Kinds : Put(kind)
    \/ Start \/ Stop \/ StopJoined \/ StopReturn
    \/ Consumer
    \/ Limiter
    \/ RateElapsed

(* The event loop runs every task that is ready, timers fire, and          *)
(* send_telegram ends: CEMIHandler waits for a confirmation for at most    *)
(* REQUEST_TO_CONFIRMATION_TIMEOUT.                                        *)
Fairness ==
    /\ WF_vars(Consumer)
    /\ WF_vars(Limiter)
    /\ WF_vars(RateElapsed)
    /\ WF_vars(StopJoined \/ StopReturn)

Spec == Init /\ [][Next]_vars

FairSpec == Spec /\ Fairness

-----------------------------------------------------------------------------
(* Properties.                                                             *)

TypeOK ==
    /\ telegrams \in Seq(Telegrams \cup {None})
    /\ unfinished \in Nat
    /\ outgoing \in Seq(Telegrams \cup {None})
    /\ unfinishedOut \in Nat
    /\ consumer \in {"off", "get", "draining", "drained", "done"}
    /\ limiter \in {"off", "get", "limit", "send", "done", "dead"}
    /\ current \in Telegrams \cup {None}
    /\ rateTask \in {"none", "sleeping", "elapsed", "cancelled"}
    /\ user \in {"stopped", "running", "joining", "joined", "stopping"}
    /\ count \in 0..MaxTelegrams
    /\ handled \subseteq 1..MaxTelegrams
    /\ sent \in Seq(1..MaxTelegrams)
    /\ cut \in 0..MaxTelegrams
    /\ starts \in 0..MaxStarts
    /\ idleStops \in 0..MaxIdleStops

Held == IF current = None THEN 0 ELSE 1

(* The two counters of unfinished tasks say what is really unfinished.  A  *)
(* None that waits in outgoing_queue, and the one whose task_done() the    *)
(* consumer owes after it, stand for the None taken from xknx.telegrams.   *)
Accounting ==
    /\ unfinishedOut = Len(outgoing) + Held
    /\ unfinished = Len(telegrams) + Len(outgoing) + Held
                      + (IF consumer = "drained" THEN 1 ELSE 0)

(* XKNX.join "Wait until all telegrams were processed" (xknx.py:159): it   *)
(* returns when nothing is unfinished, and then every telegram that was    *)
(* ever put was handled, the ones that went through the second queue too.  *)
JoinMeansHandled == unfinished = 0 => handled = 1..count

(* When stop() has returned, every telegram that was put before the None   *)
(* of this stop was handled, also one that was put after join() had been   *)
(* satisfied and before None was put (unless an earlier stop() without a   *)
(* running queue left its None, telegram_queue.py:132).                    *)
StopDrains == user = "stopped" /\ idleStops = 0 => 1..cut \subseteq handled

(* The bus sees the telegrams in the order in which they were put, each at *)
(* most once, over restarts and failed sends.                              *)
SentInOrder == \A i, j \in 1..Len(sent) : i < j => sent[i] < sent[j]

(* No stop() was called without a running queue, which leaves None in      *)
(* xknx.telegrams for the next start() (telegram_queue.py:132), and no     *)
(* stop() has cancelled a pause that the next start() will await (:185).   *)
Undisturbed == idleStops = 0 /\ rateTask # "cancelled"

(* What is put while XKNX is running gets handled: no failed send, pause   *)
(* or restart stalls the tasks ("prevent the sender Task from stalling",   *)
(* telegram_queue.py:198), unless it was disturbed.                        *)
RunningHandles ==
    \A i \in 1..MaxTelegrams :
        (user = "running" /\ i <= count /\ Undisturbed) ~> (i \in handled)

(* Under the same condition a stop() that waits in join() or for the tasks *)
(* returns.                                                                *)
StopReturns ==
    (user \in {"joining", "joined", "stopping"} /\ starts > 0 /\ Undisturbed)
        ~> user = "stopped"

-----------------------------------------------------------------------------
(* The promise to the rest of the library.                                 *)

(* The telegrams of a queue, and the one of the rate limiter, by their ids.*)
IdsOf(queue, kinds) ==
    {queue[i].id : i \in {j \in 1..Len(queue) :
                              queue[j] # None /\ queue[j].kind \in kinds}}

InHand == IF current = None THEN {} ELSE {current.id}

Service == INSTANCE TelegramService WITH
    accepted <- count,
    inbox <- IdsOf(telegrams, {"incoming"}),
    outbox <- InHand \cup IdsOf(outgoing, Kinds)
                     \cup IdsOf(telegrams, {"group", "internal"}),
    waiting <- user = "joining" /\ idleStops = 0

(* The two tasks and their two queues implement one FIFO per direction     *)
(* whose join() returns exactly with the last telegram, over restarts,     *)
(* failed sends and telegrams that arrive while stop() is running.  After  *)
(* a stop() without a running queue only the order of the FIFOs is left:   *)
(* join() then waits for a None as well.                                   *)
ImplementsService == Service!Spec

=============================================================================
