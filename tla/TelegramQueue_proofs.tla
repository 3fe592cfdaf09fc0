----------------------- MODULE TelegramQueue_proofs -----------------------
(***************************************************************************)
(* Proofs about TelegramQueue for every rate limit, every number of        *)
(* telegrams, of restarts and of stops without a running queue.            *)
(***************************************************************************)
EXTENDS TelegramQueue, TLAPS

Items == Telegrams \cup {None}

(* What the invariant says of a queue: it holds the telegram id, its ids   *)
(* are at most n, above n, or grow from its head to its tail.              *)
Holds(q, id)  == \E i \in 1..Len(q) : q[i] # None /\ q[i].id = id
AtMost(q, n)  == \A i \in 1..Len(q) : q[i] # None => q[i].id <= n
Above(q, n)   == \A i \in 1..Len(q) : q[i] # None => n < q[i].id
Increasing(q) == \A i, j \in 1..Len(q) :
                     i < j /\ q[i] # None /\ q[j] # None => q[i].id < q[j].id

(* Which pairs of places the two tasks can be in, and where None can be in *)
(* outgoing_queue: it is the last element, while the consumer waits in     *)
(* outgoing_queue.join().                                                  *)
Control ==
    /\ (current # None) <=> (limiter \in {"limit", "send", "dead"})
    /\ consumer \in {"get", "draining"} =>
           limiter \in {"get", "limit", "send", "dead"}
    /\ consumer \notin {"get", "draining"} =>
           limiter \in {"off", "done"} /\ outgoing = <<>>
    /\ consumer = "draining" => outgoing # <<>>
    /\ \A i \in 1..Len(outgoing) :
           outgoing[i] = None <=> (i = Len(outgoing) /\ consumer = "draining")

(* Nothing is lost: a telegram that was put is handled, or it is in one of *)
(* the queues or in the hands of the rate limiter.                         *)
Conservation ==
    \A id \in 1..count :
        \/ id \in handled
        \/ Holds(telegrams, id)
        \/ Holds(outgoing, id)
        \/ current # None /\ current.id = id

(* No id was invented.                                                     *)
Known ==
    /\ handled \subseteq 1..count
    /\ AtMost(telegrams, count)
    /\ AtMost(outgoing, count)
    /\ current # None => current.id <= count
    /\ \A i \in 1..Len(sent) : sent[i] <= count

(* Sent, held, in outgoing_queue, in xknx.telegrams: later places hold     *)
(* later ids, and within each queue the ids grow.                          *)
Ordered ==
    /\ Increasing(telegrams)
    /\ Increasing(outgoing)
    /\ \A i \in 1..Len(outgoing) :
           outgoing[i] # None => Above(telegrams, outgoing[i].id)
    /\ current # None =>
           Above(outgoing, current.id) /\ Above(telegrams, current.id)
    /\ limiter = "limit" => \A i \in 1..Len(sent) : sent[i] < current.id
    /\ \A i \in 1..Len(sent) :
           Above(outgoing, sent[i]) /\ Above(telegrams, sent[i])

(* The inductive invariant.                                                *)
Inv == TypeOK /\ Control /\ Accounting /\ Conservation /\ Known /\ Ordered
           /\ SentInOrder

-----------------------------------------------------------------------------
(* Queues.                                                                 *)

(* An asyncio.Queue of telegrams and None after put_nowait.                *)
LEMMA AppendItem ==
    ASSUME NEW q \in Seq(Items), NEW x \in Items
    PROVE  /\ Append(q, x) \in Seq(Items)
           /\ Append(q, x) # <<>>
           /\ Len(Append(q, x)) = Len(q) + 1
           /\ \A i \in 1..Len(q) : Append(q, x)[i] = q[i]
           /\ Append(q, x)[Len(q) + 1] = x
  OBVIOUS

(* An asyncio.Queue of telegrams and None after get.                       *)
LEMMA TailItem ==
    ASSUME NEW q \in Seq(Items), q # <<>>
    PROVE  /\ Tail(q) \in Seq(Items)
           /\ Len(q) \in Nat
           /\ Len(q) >= 1
           /\ Len(Tail(q)) = Len(q) - 1
           /\ Head(q) = q[1]
           /\ Head(q) \in Items
           /\ Head(q) # None => Head(q).id \in 1..MaxTelegrams
           /\ \A i \in 1..(Len(q) - 1) : Tail(q)[i] = q[i + 1]
  BY DEF Items, Telegrams

(* What a queue holds after put_nowait.                                    *)
LEMMA AppendHolds ==
    ASSUME NEW q \in Seq(Items), NEW x \in Items, NEW id,
           Holds(q, id) \/ (x # None /\ x.id = id)
    PROVE  Holds(Append(q, x), id)
  BY AppendItem DEF Holds

(* What a queue holds after get.                                           *)
LEMMA TailHolds ==
    ASSUME NEW q \in Seq(Items), q # <<>>, NEW id, Holds(q, id),
           Head(q) = None \/ Head(q).id # id
    PROVE  Holds(Tail(q), id)
<1>1. PICK i \in 1..Len(q) : q[i] # None /\ q[i].id = id
  BY DEF Holds
<1>2. i # 1
  BY <1>1, TailItem
<1>3. i - 1 \in 1..Len(Tail(q)) /\ Tail(q)[i - 1] = q[i]
  BY <1>2, TailItem
<1> QED
  BY <1>1, <1>3 DEF Holds

(* put_nowait keeps the bounds that the new element respects.              *)
LEMMA AppendBounds ==
    ASSUME NEW q \in Seq(Items), NEW x \in Items, NEW n \in Nat
    PROVE  /\ AtMost(q, n) /\ (x # None => x.id <= n) => AtMost(Append(q, x), n)
           /\ Above(q, n) /\ (x # None => n < x.id) => Above(Append(q, x), n)
  BY AppendItem DEF AtMost, Above

(* get keeps every bound, and the head is below the rest.                  *)
LEMMA TailBounds ==
    ASSUME NEW q \in Seq(Items), q # <<>>, NEW n \in Nat
    PROVE  /\ AtMost(q, n) => AtMost(Tail(q), n)
           /\ Above(q, n) => Above(Tail(q), n)
           /\ AtMost(q, n) /\ Head(q) # None => Head(q).id <= n
           /\ Above(q, n) /\ Head(q) # None => n < Head(q).id
  BY TailItem DEF AtMost, Above

(* put_nowait of a telegram with the highest id.                           *)
LEMMA AppendIncreasing ==
    ASSUME NEW q \in Seq(Items), NEW x \in Items, Increasing(q),
           x # None => \A i \in 1..Len(q) : q[i] # None => q[i].id < x.id
    PROVE  Increasing(Append(q, x))
  BY AppendItem DEF Increasing

(* get from a queue whose ids grow.                                        *)
LEMMA TailIncreasing ==
    ASSUME NEW q \in Seq(Items), q # <<>>, Increasing(q)
    PROVE  /\ Increasing(Tail(q))
           /\ Head(q) # None => Above(Tail(q), Head(q).id)
  BY TailItem DEF Increasing, Above

-----------------------------------------------------------------------------
(* What the lemmas below need from the types.                              *)
LEMMA Typed ==
    ASSUME TypeOK
    PROVE  /\ telegrams \in Seq(Items)
           /\ outgoing \in Seq(Items)
           /\ None \in Items
           /\ count \in Nat
           /\ handled \subseteq Nat
           /\ sent \in Seq(Nat)
           /\ current # None => current.id \in Nat
  BY ConstantsAssumption DEF TypeOK, Items, Telegrams

(* Every bound on ids may be raised.                                       *)
LEMMA AtMostNext ==
    ASSUME NEW q \in Seq(Items), NEW n \in Nat, AtMost(q, n)
    PROVE  /\ AtMost(q, n + 1)
           /\ \A i \in 1..Len(q) : q[i] # None => q[i].id < n + 1
<1>1. \A i \in 1..Len(q) : q[i] # None => q[i].id \in Nat
  BY ConstantsAssumption DEF Items, Telegrams
<1> QED
  BY <1>1 DEF AtMost

(* The telegram that Put adds.                                             *)
LEMMA NewItem ==
    ASSUME TypeOK, NEW kind \in Kinds, count < MaxTelegrams
    PROVE  /\ [id |-> count + 1, kind |-> kind] \in Telegrams
           /\ [id |-> count + 1, kind |-> kind] \in Items
           /\ [id |-> count + 1, kind |-> kind] # None
           /\ [id |-> count + 1, kind |-> kind].id = count + 1
  BY ConstantsAssumption, NoneAssumption DEF TypeOK, Items, Telegrams

(* The history of sends grows by one.                                      *)
LEMMA AppendSent ==
    ASSUME NEW s \in Seq(Nat), NEW n \in Nat
    PROVE  /\ Len(Append(s, n)) = Len(s) + 1
           /\ Len(s) \in Nat
           /\ \A i \in 1..Len(s) : Append(s, n)[i] = s[i]
           /\ Append(s, n)[Len(s) + 1] = n
  OBVIOUS

(* It stays in order when the new id is the highest.                       *)
LEMMA AppendInOrder ==
    ASSUME NEW s \in Seq(Nat), NEW n \in Nat,
           \A i \in 1..Len(s) : s[i] < n,
           \A i, j \in 1..Len(s) : i < j => s[i] < s[j],
           NEW i \in 1..Len(Append(s, n)), NEW j \in 1..Len(Append(s, n)), i < j
    PROVE  Append(s, n)[i] < Append(s, n)[j]
<1>1. i \in 1..Len(s) /\ (j \in 1..Len(s) \/ j = Len(s) + 1)
  BY AppendSent
<1>2. CASE j \in 1..Len(s)
  BY <1>1, <1>2, AppendSent
<1>3. CASE j = Len(s) + 1
  BY <1>1, <1>3, AppendSent
<1> QED
  BY <1>1, <1>2, <1>3

-----------------------------------------------------------------------------
(* Each conjunct of the invariant is preserved by every step.              *)

(* Types: in particular no step calls task_done() more often than          *)
(* put_nowait(), for which asyncio.Queue would raise ValueError.           *)
LEMMA TypeStep ==
    ASSUME Inv, [Next]_vars
    PROVE  TypeOK'
<1> USE ConstantsAssumption, NoneAssumption DEF Inv, TypeOK, Control, Accounting, Held,
        queueVars, taskVars, userVars, histVars
<1>0. telegrams \in Seq(Items) /\ outgoing \in Seq(Items) /\ None \in Items
  BY DEF Items
<1>1. ASSUME NEW kind \in Kinds, Put(kind) PROVE TypeOK'
  BY <1>0, <1>1, NewItem, AppendItem DEF Put, Items
<1>2. CASE Start
  BY <1>2 DEF Start
<1>3. CASE Stop
  <2>1. telegrams' \in Seq(Items) /\ unfinished' \in Nat /\ cut' \in 0..MaxTelegrams
        /\ user' \in {"joining", "stopping"}
    BY <1>0, <1>3, AppendItem DEF Stop, PutNone
  <2>2. idleStops' \in 0..MaxIdleStops
    BY <1>3 DEF Stop
  <2> QED
    BY <1>3, <2>1, <2>2 DEF Stop, Items
<1>4. CASE StopJoined
  BY <1>0, <1>4, AppendItem DEF StopJoined, PutNone, Items
<1>5. CASE StopReturn
  BY <1>5 DEF StopReturn
<1>6. CASE ConsumeIncoming
  <2>1. unfinished >= 1
    BY <1>0, <1>6, TailItem DEF ConsumeIncoming, ConsumerTake
  <2>2. Head(telegrams).id \in 1..MaxTelegrams /\ telegrams' \in Seq(Items)
    BY <1>0, <1>6, TailItem DEF ConsumeIncoming, ConsumerTake
  <2>3. handled' \subseteq 1..MaxTelegrams
    BY <1>6, <2>2 DEF ConsumeIncoming
  <2>4. user' \in {"stopped", "running", "joining", "joined", "stopping"}
    BY <1>6 DEF ConsumeIncoming, TaskDone
  <2> QED
    BY <1>6, <2>1, <2>2, <2>3, <2>4 DEF ConsumeIncoming, TaskDone, Items
<1>7. CASE ConsumeOutgoing
  BY <1>0, <1>7, TailItem, AppendItem DEF ConsumeOutgoing, ConsumerTake, Items
<1>8. CASE ConsumeNone
  BY <1>0, <1>8, TailItem, AppendItem DEF ConsumeNone, ConsumerTake, Items
<1>9. CASE ConsumerExit
  BY <1>9 DEF ConsumerExit, TaskDone
<1>10. CASE LimiterExit
  BY <1>0, <1>10, TailItem DEF LimiterExit, LimiterTake, TaskDoneOut, Items
<1>11. CASE LimitInternal
  <2>1. unfinished >= 1 /\ unfinishedOut >= 1
    BY <1>0, <1>11, TailItem DEF LimitInternal, LimiterTake
  <2>2. Head(outgoing).id \in 1..MaxTelegrams /\ outgoing' \in Seq(Items)
    BY <1>0, <1>11, TailItem DEF LimitInternal, LimiterTake
  <2>3. handled' \subseteq 1..MaxTelegrams
    BY <1>11, <2>2 DEF LimitInternal
  <2>4. user' \in {"stopped", "running", "joining", "joined", "stopping"}
    BY <1>11 DEF LimitInternal, TaskDone
  <2>5. consumer' \in {"off", "get", "draining", "drained", "done"}
    BY <1>11 DEF LimitInternal, TaskDoneOut
  <2>6. unfinished' \in Nat /\ unfinishedOut' \in Nat
    BY <1>11, <2>1 DEF LimitInternal, TaskDone, TaskDoneOut
  <2> QED
    BY <1>11, <2>2, <2>3, <2>4, <2>5, <2>6 DEF LimitInternal, Items
<1>12. CASE LimitNow
  BY <1>0, <1>12, TailItem DEF LimitNow, LimiterTake, BeginSend, Items
<1>13. CASE LimitAwait
  BY <1>0, <1>13, TailItem DEF LimitAwait, LimiterTake, Items
<1>14. CASE LimitResume
  BY <1>14 DEF LimitResume, BeginSend, Telegrams
<1>15. CASE SendReturn
  <2>1. unfinished >= 1 /\ unfinishedOut >= 1
    BY <1>15 DEF SendReturn
  <2>2. current.id \in 1..MaxTelegrams
    BY <1>15 DEF SendReturn, Telegrams
  <2>3. handled' \subseteq 1..MaxTelegrams
    BY <1>15, <2>2 DEF SendReturn
  <2>4. user' \in {"stopped", "running", "joining", "joined", "stopping"}
    BY <1>15 DEF SendReturn, TaskDone
  <2>5. consumer' \in {"off", "get", "draining", "drained", "done"}
    BY <1>15 DEF SendReturn, TaskDoneOut
  <2>6. unfinished' \in Nat /\ unfinishedOut' \in Nat
    BY <1>15, <2>1 DEF SendReturn, TaskDone, TaskDoneOut
  <2> QED
    BY <1>15, <2>3, <2>4, <2>5, <2>6 DEF SendReturn
<1>16. CASE RateElapsed
  BY <1>16 DEF RateElapsed
<1>17. CASE UNCHANGED vars
  BY <1>17 DEF vars
<1> QED
  BY <1>1, <1>2, <1>3, <1>4, <1>5, <1>6, <1>7, <1>8, <1>9, <1>10, <1>11,
     <1>12, <1>13, <1>14, <1>15, <1>16, <1>17
     DEF Next, Consumer, Limiter

(* The places of the two tasks.                                            *)
LEMMA ControlStep ==
    ASSUME Inv, [Next]_vars
    PROVE  Control'
<1> USE ConstantsAssumption, NoneAssumption DEF Inv, TypeOK, Control, Accounting, Held,
        queueVars, taskVars, userVars, histVars
<1>0. telegrams \in Seq(Items) /\ outgoing \in Seq(Items) /\ None \in Items
  BY DEF Items
<1>1. ASSUME NEW kind \in Kinds, Put(kind) PROVE Control'
  BY <1>1 DEF Put
<1>2. CASE Start
  BY <1>2 DEF Start, TasksOver
<1>3. CASE Stop
  BY <1>3 DEF Stop
<1>4. CASE StopJoined
  BY <1>4 DEF StopJoined
<1>5. CASE StopReturn
  BY <1>5 DEF StopReturn
<1>6. CASE ConsumeIncoming
  BY <1>6 DEF ConsumeIncoming
<1>7. CASE ConsumeOutgoing
  BY <1>0, <1>7, TailItem, AppendItem DEF ConsumeOutgoing, ConsumerTake
<1>8. CASE ConsumeNone
  <2>1. consumer = "get" /\ consumer' = "draining" /\ outgoing' = Append(outgoing, None)
        /\ UNCHANGED <<limiter, current>>
    BY <1>8 DEF ConsumeNone, ConsumerTake
  <2>2. \A i \in 1..Len(outgoing) : outgoing[i] # None
    BY <2>1
  <2>3. \A i \in 1..Len(outgoing') :
            outgoing'[i] = None <=> (i = Len(outgoing') /\ consumer' = "draining")
    BY <1>0, <2>1, <2>2, AppendItem
  <2> QED
    BY <1>0, <2>1, <2>3, AppendItem
<1>9. CASE ConsumerExit
  BY <1>9 DEF ConsumerExit
<1>10. CASE LimiterExit
  <2>1. outgoing # <<>> /\ outgoing[1] = None /\ limiter = "get" /\ limiter' = "done"
        /\ outgoing' = Tail(outgoing) /\ current' = current
    BY <1>0, <1>10, TailItem DEF LimiterExit, LimiterTake
  <2>2. Len(outgoing) = 1 /\ consumer = "draining" /\ current = None
    BY <1>0, <2>1, TailItem
  <2>3. consumer' = "drained"
    BY <1>10, <2>2 DEF LimiterExit, TaskDoneOut
  <2>4. outgoing' = <<>>
    BY <1>0, <2>1, <2>2, TailItem
  <2> QED
    BY <2>1, <2>2, <2>3, <2>4
<1>11. ASSUME LimiterTake, Head(outgoing) # None,
              limiter' \in {"get", "limit", "send", "dead"},
              (current' # None) <=> (limiter' \in {"limit", "send", "dead"}),
              consumer' = consumer
       PROVE  Control'
  <2>1. /\ outgoing # <<>> /\ outgoing' = Tail(outgoing) /\ outgoing[1] # None
        /\ consumer \in {"get", "draining"}
    BY <1>0, <1>11, TailItem DEF LimiterTake
  <2>2. \A i \in 1..Len(outgoing') :
            outgoing'[i] = None <=> (i = Len(outgoing') /\ consumer = "draining")
    BY <1>0, <2>1, TailItem
  <2>3. consumer = "draining" => outgoing' # <<>>
    <3>1. SUFFICES ASSUME consumer = "draining" PROVE Len(outgoing') >= 1
      BY <1>0, <2>1, TailItem
    <3>2. outgoing[Len(outgoing)] = None
      BY <1>0, <2>1, <3>1, TailItem
    <3> QED
      BY <1>0, <2>1, <3>2, TailItem
  <2> QED
    BY <1>11, <2>1, <2>2, <2>3
<1>12. CASE LimitInternal
  <2>1. Len(outgoing) \in Nat /\ Len(outgoing) >= 1
    BY <1>0, <1>12, TailItem DEF LimitInternal, LimiterTake
  <2>2. outgoing[1] # None
    BY <1>0, <1>12, TailItem DEF LimitInternal, LimiterTake
  <2>3. ~(unfinishedOut = 1 /\ consumer = "draining")
    <3>1. SUFFICES ASSUME consumer = "draining", unfinishedOut = 1 PROVE FALSE
      OBVIOUS
    <3>2. Len(outgoing) = 1
      BY <2>1, <3>1
    <3> QED
      BY <2>2, <3>1, <3>2
  <2>4. consumer' = consumer
    BY <1>12, <2>3 DEF LimitInternal, TaskDoneOut
  <2> QED
    BY <1>11, <1>12, <2>4 DEF LimitInternal, LimiterTake
<1>13. CASE LimitNow
  <2>1. current' # None
    BY <1>13 DEF LimitNow
  <2> QED
    BY <1>11, <1>13, <2>1 DEF LimitNow, BeginSend
<1>14. CASE LimitAwait
  BY <1>11, <1>14 DEF LimitAwait
<1>15. CASE LimitResume
  BY <1>15 DEF LimitResume, BeginSend
<1>16. CASE SendReturn
  BY <1>16 DEF SendReturn, TaskDoneOut
<1>17. CASE RateElapsed
  BY <1>17 DEF RateElapsed
<1>18. CASE UNCHANGED vars
  BY <1>18 DEF vars
<1> QED
  BY <1>1, <1>2, <1>3, <1>4, <1>5, <1>6, <1>7, <1>8, <1>9, <1>10, <1>12,
     <1>13, <1>14, <1>15, <1>16, <1>17, <1>18
     DEF Next, Consumer, Limiter

(* The counters.  A telegram that moves between the queues stays counted.  *)
LEMMA AccountingStep ==
    ASSUME Inv, [Next]_vars
    PROVE  Accounting'
<1> USE ConstantsAssumption, NoneAssumption DEF Inv, TypeOK, Control, Accounting, Held,
        queueVars, taskVars, userVars, histVars
<1>0. telegrams \in Seq(Items) /\ outgoing \in Seq(Items) /\ None \in Items
  BY DEF Items
<1>1. ASSUME NEW kind \in Kinds, Put(kind) PROVE Accounting'
  BY <1>0, <1>1, NewItem, AppendItem DEF Put
<1>2. CASE Start
  BY <1>2 DEF Start, TasksOver
<1>3. CASE Stop
  <2>1. CASE unfinished = 0
    BY <1>0, <1>3, <2>1, AppendItem DEF Stop, PutNone
  <2>2. CASE unfinished # 0
    BY <1>3, <2>2 DEF Stop
  <2> QED
    BY <2>1, <2>2
<1>4. CASE StopJoined
  BY <1>0, <1>4, AppendItem DEF StopJoined, PutNone
<1>5. CASE StopReturn
  BY <1>5 DEF StopReturn
<1>6. CASE ConsumeIncoming
  BY <1>0, <1>6, TailItem DEF ConsumeIncoming, ConsumerTake, TaskDone
<1>7. CASE ConsumeOutgoing
  BY <1>0, <1>7, TailItem, AppendItem DEF ConsumeOutgoing, ConsumerTake
<1>8. CASE ConsumeNone
  BY <1>0, <1>8, TailItem, AppendItem DEF ConsumeNone, ConsumerTake
<1>9. CASE ConsumerExit
  BY <1>9 DEF ConsumerExit, TaskDone
<1>10. CASE LimiterExit
  <2>1. outgoing # <<>> /\ outgoing[1] = None /\ limiter = "get"
        /\ outgoing' = Tail(outgoing) /\ current' = current
    BY <1>0, <1>10, TailItem DEF LimiterExit, LimiterTake
  <2>2. Len(outgoing) = 1 /\ consumer = "draining" /\ current = None
    BY <1>0, <2>1, TailItem
  <2>3. consumer' = "drained" /\ unfinishedOut' = 0
    BY <1>10, <2>2 DEF LimiterExit, TaskDoneOut
  <2>4. Len(outgoing') = 0
    BY <1>0, <2>1, <2>2, TailItem
  <2> QED
    BY <1>10, <2>1, <2>2, <2>3, <2>4 DEF LimiterExit
<1>11. CASE LimitInternal
  <2>1. /\ limiter = "get" /\ current = None /\ current' = current
        /\ outgoing # <<>> /\ outgoing[1] # None
        /\ unfinishedOut' = unfinishedOut - 1
        /\ unfinished' = unfinished - 1
        /\ telegrams' = telegrams
    BY <1>0, <1>11, TailItem DEF LimitInternal, LimiterTake, TaskDone, TaskDoneOut
  <2>2. Len(outgoing') = Len(outgoing) - 1 /\ Len(outgoing) \in Nat /\ Len(outgoing) >= 1
    BY <1>0, <1>11, TailItem DEF LimitInternal, LimiterTake
  <2>3. consumer \in {"get", "draining"} /\ (Len(outgoing) = 1 => consumer = "get")
    <3>1. consumer \in {"get", "draining"}
      BY <2>1
    <3>2. ASSUME Len(outgoing) = 1 PROVE consumer # "draining"
      BY <2>1, <3>2
    <3> QED
      BY <3>1, <3>2
  <2>4. consumer' = consumer
    BY <1>11, <2>1, <2>2, <2>3 DEF LimitInternal, TaskDoneOut
  <2> QED
    BY <2>1, <2>2, <2>3, <2>4
<1>12. CASE LimitNow
  BY <1>0, <1>12, TailItem DEF LimitNow, LimiterTake
<1>13. CASE LimitAwait
  BY <1>0, <1>13, TailItem DEF LimitAwait, LimiterTake
<1>14. CASE LimitResume
  BY <1>14 DEF LimitResume
<1>15. CASE SendReturn
  <2>1. current # None /\ current' = None /\ UNCHANGED <<telegrams, outgoing>>
        /\ unfinishedOut' = unfinishedOut - 1 /\ unfinished' = unfinished - 1
    BY <1>15 DEF SendReturn, TaskDone, TaskDoneOut
  <2>2. Len(outgoing) \in Nat /\ (consumer = "draining" => Len(outgoing) >= 1)
    BY <1>0, TailItem
  <2>3. consumer # "drained" /\ consumer' = consumer
    BY <1>15, <2>1, <2>2 DEF SendReturn, TaskDoneOut
  <2> QED
    BY <2>1, <2>2, <2>3
<1>16. CASE RateElapsed
  BY <1>16 DEF RateElapsed
<1>17. CASE UNCHANGED vars
  BY <1>17 DEF vars
<1> QED
  BY <1>1, <1>2, <1>3, <1>4, <1>5, <1>6, <1>7, <1>8, <1>9, <1>10, <1>11,
     <1>12, <1>13, <1>14, <1>15, <1>16, <1>17
     DEF Next, Consumer, Limiter

-----------------------------------------------------------------------------
(* What the steps do to the telegrams themselves, by kind of step.         *)

Unmoved == UNCHANGED <<telegrams, outgoing, current, sent, handled, count>>

(* A step that moves no telegram.                                          *)
LEMMA UnmovedSteps ==
    ASSUME \/ Start \/ StopReturn \/ ConsumerExit \/ RateElapsed
           \/ UNCHANGED vars \/ (Stop /\ unfinished # 0)
    PROVE  Unmoved /\ (limiter' = limiter \/ limiter' = "get")
  BY DEF Unmoved, Start, StopReturn, ConsumerExit, RateElapsed, Stop, vars,
         queueVars, taskVars, userVars, histVars

(* A stop() that closes xknx.telegrams.                                    *)
Closed ==
    /\ telegrams' = Append(telegrams, None)
    /\ UNCHANGED <<outgoing, current, limiter, sent, handled, count>>

LEMMA ClosingSteps ==
    ASSUME StopJoined \/ (Stop /\ unfinished = 0)
    PROVE  Closed
  BY DEF Closed, StopJoined, Stop, PutNone, taskVars, histVars

(* A step of the rate limiter that takes the head of outgoing_queue: it    *)
(* drops None, handles the telegram, or holds it, sending it or not.       *)
Taken ==
    /\ outgoing # <<>>
    /\ outgoing' = Tail(outgoing)
    /\ UNCHANGED <<telegrams, count>>
    /\ \/ /\ Head(outgoing) = None
          /\ limiter' = "done"
          /\ UNCHANGED <<current, sent, handled>>
       \/ /\ Head(outgoing) # None
          /\ handled' = handled \cup {Head(outgoing).id}
          /\ UNCHANGED <<current, limiter, sent>>
       \/ /\ Head(outgoing) # None
          /\ current' = Head(outgoing)
          /\ limiter' = "send"
          /\ sent' = Append(sent, current'.id)
          /\ UNCHANGED handled
       \/ /\ Head(outgoing) # None
          /\ current' = Head(outgoing)
          /\ limiter' \in {"limit", "dead"}
          /\ UNCHANGED <<sent, handled>>

LEMMA TakingSteps ==
    ASSUME LimiterExit \/ LimitInternal \/ LimitNow \/ LimitAwait
    PROVE  Taken /\ limiter = "get"
<1> USE DEF Taken, LimiterTake, queueVars, userVars, histVars
<1>1. CASE LimiterExit
  BY <1>1 DEF LimiterExit
<1>2. CASE LimitInternal
  BY <1>2 DEF LimitInternal
<1>3. CASE LimitNow
  BY <1>3 DEF LimitNow, BeginSend
<1>4. CASE LimitAwait
  BY <1>4 DEF LimitAwait
<1> QED
  BY <1>1, <1>2, <1>3, <1>4

(* Every step is of one of the kinds, or is Put, ConsumeIncoming,          *)
(* ConsumeOutgoing, ConsumeNone, LimitResume or SendReturn.                *)
LEMMA Kind ==
    ASSUME [Next]_vars
    PROVE  \/ Unmoved /\ (limiter' = limiter \/ limiter' = "get")
           \/ Closed
           \/ Taken /\ limiter = "get"
           \/ \E kind \in Kinds : Put(kind)
           \/ ConsumeIncoming \/ ConsumeOutgoing \/ ConsumeNone
           \/ LimitResume \/ SendReturn
  BY UnmovedSteps, ClosingSteps, TakingSteps DEF Next, Consumer, Limiter

(* No telegram is lost.                                                    *)
LEMMA ConservationStep ==
    ASSUME Inv, [Next]_vars
    PROVE  Conservation'
<1> SUFFICES ASSUME NEW id \in 1..count'
             PROVE  \/ id \in handled'
                    \/ Holds(telegrams', id)
                    \/ Holds(outgoing', id)
                    \/ current' # None /\ current'.id = id
  BY DEF Conservation, Holds
<1>0. /\ telegrams \in Seq(Items) /\ outgoing \in Seq(Items) /\ None \in Items
      /\ count \in Nat
  BY Typed DEF Inv
<1>1. id \in 1..count =>
         \/ id \in handled
         \/ Holds(telegrams, id)
         \/ Holds(outgoing, id)
         \/ current # None /\ current.id = id
  BY DEF Inv, Conservation
<1>2. CASE Unmoved
  BY <1>1, <1>2 DEF Unmoved
<1>3. CASE Closed
  BY <1>0, <1>1, <1>3, AppendHolds DEF Closed
<1>4. CASE Taken /\ limiter = "get"
  <2>1. id \in 1..count /\ current = None
    BY <1>4 DEF Taken, Inv, Control
  <2>2. CASE Holds(outgoing, id)
    BY <1>0, <1>4, <2>2, TailHolds DEF Taken
  <2> QED
    BY <1>1, <1>4, <2>1, <2>2 DEF Taken
<1>5. ASSUME NEW kind \in Kinds, Put(kind)
      PROVE  \/ id \in handled'
             \/ Holds(telegrams', id)
             \/ Holds(outgoing', id)
             \/ current' # None /\ current'.id = id
  <2>1. /\ telegrams' = Append(telegrams, [id |-> count + 1, kind |-> kind])
        /\ count < MaxTelegrams
        /\ count' = count + 1
        /\ UNCHANGED <<handled, outgoing, current>>
    BY <1>5 DEF Put, taskVars
  <2>2. [id |-> count + 1, kind |-> kind] \in Items
        /\ [id |-> count + 1, kind |-> kind] # None
        /\ [id |-> count + 1, kind |-> kind].id = count + 1
    BY <2>1, NewItem DEF Inv
  <2>3. id \in 1..count \/ id = count + 1
    BY <1>0, <2>1
  <2>4. CASE id = count + 1
    BY <1>0, <2>1, <2>2, <2>4, AppendHolds
  <2>5. CASE id \in 1..count
    BY <1>0, <1>1, <2>1, <2>2, <2>5, AppendHolds
  <2> QED
    BY <2>3, <2>4, <2>5
<1>6. CASE ConsumeIncoming
  BY <1>0, <1>1, <1>6, TailHolds DEF ConsumeIncoming, ConsumerTake, taskVars
<1>7. CASE ConsumeOutgoing
  BY <1>0, <1>1, <1>7, TailHolds, AppendHolds, TailItem
     DEF ConsumeOutgoing, ConsumerTake, taskVars, histVars
<1>8. CASE ConsumeNone
  BY <1>0, <1>1, <1>8, TailHolds, AppendHolds
     DEF ConsumeNone, ConsumerTake, histVars
<1>9. CASE LimitResume
  BY <1>1, <1>9 DEF LimitResume, queueVars
<1>10. CASE SendReturn
  BY <1>1, <1>10 DEF SendReturn
<1> QED
  BY <1>2, <1>3, <1>4, <1>5, <1>6, <1>7, <1>8, <1>9, <1>10, Kind

(* Ids come from count.                                                    *)
LEMMA KnownStep ==
    ASSUME Inv, [Next]_vars
    PROVE  Known'
<1> USE DEF Inv, Known
<1>0. /\ telegrams \in Seq(Items) /\ outgoing \in Seq(Items) /\ None \in Items
      /\ count \in Nat /\ handled \subseteq Nat /\ sent \in Seq(Nat)
      /\ current # None => current.id \in Nat
  BY Typed
<1>2. CASE Unmoved
  BY <1>2 DEF Unmoved
<1>3. CASE Closed
  BY <1>0, <1>3, AppendBounds DEF Closed
<1>4. CASE Taken /\ limiter = "get"
  <2>1. AtMost(outgoing', count) /\ UNCHANGED <<telegrams, count>>
    BY <1>0, <1>4, TailBounds DEF Taken
  <2>2. Head(outgoing) # None => Head(outgoing).id \in 1..count
    BY <1>0, <1>4, TailBounds, TailItem DEF Taken
  <2>3. handled' \subseteq 1..count
    BY <1>4, <2>2 DEF Taken
  <2>4. current' # None => current'.id <= count
    BY <1>0, <1>4, <2>2 DEF Taken
  <2>5. \A i \in 1..Len(sent') : sent'[i] <= count
    <3>1. CASE sent' = sent
      BY <3>1
    <3>2. CASE sent' = Append(sent, Head(outgoing).id) /\ Head(outgoing) # None
      BY <1>0, <2>2, <3>2, AppendSent
    <3> QED
      BY <1>4, <3>1, <3>2 DEF Taken
  <2> QED
    BY <2>1, <2>3, <2>4, <2>5
<1>5. ASSUME NEW kind \in Kinds, Put(kind) PROVE Known'
  <2>1. /\ telegrams' = Append(telegrams, [id |-> count + 1, kind |-> kind])
        /\ count < MaxTelegrams
        /\ count' = count + 1
        /\ UNCHANGED <<handled, outgoing, current, sent>>
    BY <1>5 DEF Put, taskVars
  <2>2. [id |-> count + 1, kind |-> kind] \in Items
        /\ [id |-> count + 1, kind |-> kind].id = count + 1
    BY <2>1, NewItem
  <2>3. AtMost(telegrams', count + 1) /\ AtMost(outgoing', count + 1)
    BY <1>0, <2>1, <2>2, AtMostNext, AppendBounds
  <2> QED
    BY <1>0, <2>1, <2>3
<1>6. CASE ConsumeIncoming
  <2>1. AtMost(telegrams', count) /\ UNCHANGED <<outgoing, count, current, sent>>
    BY <1>0, <1>6, TailBounds DEF ConsumeIncoming, ConsumerTake, taskVars
  <2>2. Head(telegrams).id \in 1..count
    BY <1>0, <1>6, TailBounds, TailItem DEF ConsumeIncoming, ConsumerTake
  <2> QED
    BY <1>6, <2>1, <2>2 DEF ConsumeIncoming
<1>7. CASE ConsumeOutgoing
  <2>1. AtMost(telegrams', count) /\ UNCHANGED <<count, current, sent, handled>>
    BY <1>0, <1>7, TailBounds DEF ConsumeOutgoing, ConsumerTake, taskVars, histVars
  <2>2. Head(telegrams) \in Items /\ Head(telegrams).id <= count
    BY <1>0, <1>7, TailBounds, TailItem DEF ConsumeOutgoing, ConsumerTake
  <2>3. AtMost(outgoing', count)
    BY <1>0, <1>7, <2>2, AppendBounds DEF ConsumeOutgoing
  <2> QED
    BY <2>1, <2>3
<1>8. CASE ConsumeNone
  <2>1. AtMost(telegrams', count) /\ UNCHANGED <<count, current, sent, handled>>
    BY <1>0, <1>8, TailBounds DEF ConsumeNone, ConsumerTake, histVars
  <2>2. AtMost(outgoing', count)
    BY <1>0, <1>8, AppendBounds DEF ConsumeNone
  <2> QED
    BY <2>1, <2>2
<1>9. CASE LimitResume
  <2>1. current # None
    BY <1>9 DEF LimitResume, Control
  <2> QED
    BY <1>0, <1>9, <2>1 DEF LimitResume, BeginSend, queueVars
<1>10. CASE SendReturn
  <2>1. current # None /\ current.id \in 1..count
    BY <1>0, <1>10 DEF SendReturn, Control, TypeOK, Telegrams
  <2> QED
    BY <1>10, <2>1 DEF SendReturn
<1> QED
  BY <1>2, <1>3, <1>4, <1>5, <1>6, <1>7, <1>8, <1>9, <1>10, Kind

(* Later places hold later ids.                                            *)
LEMMA OrderedStep ==
    ASSUME Inv, [Next]_vars
    PROVE  Ordered' /\ SentInOrder'
<1> USE DEF Inv, Ordered
<1>0. /\ telegrams \in Seq(Items) /\ outgoing \in Seq(Items) /\ None \in Items
      /\ count \in Nat /\ sent \in Seq(Nat)
      /\ current # None => current.id \in Nat
      /\ \A i \in 1..Len(sent) : sent[i] \in Nat
      /\ \A i \in 1..Len(outgoing) : outgoing[i] # None => outgoing[i].id \in Nat
  BY Typed, ConstantsAssumption DEF Items, Telegrams
<1>2. CASE Unmoved /\ (limiter' = limiter \/ limiter' = "get")
  BY <1>2 DEF Unmoved, SentInOrder
<1>3. CASE Closed
  <2>1. Increasing(telegrams')
    BY <1>0, <1>3, AppendIncreasing DEF Closed
  <2>2. \A n \in Nat : Above(telegrams, n) => Above(telegrams', n)
    BY <1>0, <1>3, AppendBounds DEF Closed
  <2> QED
    BY <1>0, <1>3, <2>1, <2>2 DEF Closed, SentInOrder
<1>4. CASE Taken /\ limiter = "get"
  <2>0. outgoing # <<>> /\ outgoing' = Tail(outgoing) /\ UNCHANGED telegrams
        /\ current = None
    BY <1>4 DEF Taken, Control
  <2>1. Increasing(outgoing')
    BY <1>0, <2>0, TailIncreasing
  <2>2. \A n \in Nat : Above(outgoing, n) => Above(outgoing', n)
    BY <1>0, <2>0, TailBounds
  <2>3. \A i \in 1..Len(outgoing') :
            outgoing'[i] # None => Above(telegrams, outgoing'[i].id)
    BY <1>0, <2>0, TailItem
  <2>4. Head(outgoing) # None =>
            /\ Head(outgoing).id \in Nat
            /\ Above(outgoing', Head(outgoing).id)
            /\ Above(telegrams, Head(outgoing).id)
            /\ \A i \in 1..Len(sent) : sent[i] < Head(outgoing).id
    BY <1>0, <2>0, TailItem, TailBounds, TailIncreasing
  <2>5. CASE current' = current /\ sent' = sent /\ limiter' # "limit"
    BY <1>0, <2>0, <2>1, <2>2, <2>3, <2>5 DEF SentInOrder
  <2>6. CASE /\ Head(outgoing) # None /\ current' = Head(outgoing)
             /\ limiter' = "send" /\ sent' = Append(sent, Head(outgoing).id)
    <3>1. \A i \in 1..Len(sent') : Above(outgoing', sent'[i]) /\ Above(telegrams, sent'[i])
      BY <1>0, <2>2, <2>4, <2>6, AppendSent
    <3>2. SentInOrder'
      BY <1>0, <2>4, <2>6, AppendInOrder DEF SentInOrder
    <3> QED
      BY <2>0, <2>1, <2>3, <2>4, <2>6, <3>1, <3>2
  <2>7. CASE /\ Head(outgoing) # None /\ current' = Head(outgoing) /\ sent' = sent
    BY <1>0, <2>0, <2>1, <2>2, <2>3, <2>4, <2>7 DEF SentInOrder
  <2> QED
    BY <1>4, <2>5, <2>6, <2>7 DEF Taken
<1>5. ASSUME NEW kind \in Kinds, Put(kind) PROVE Ordered' /\ SentInOrder'
  <2> DEFINE new == [id |-> count + 1, kind |-> kind]
  <2>1. /\ telegrams' = Append(telegrams, new)
        /\ count < MaxTelegrams
        /\ UNCHANGED <<outgoing, current, limiter, sent>>
    BY <1>5 DEF Put, taskVars
  <2>2. new \in Items /\ new.id = count + 1
    BY <2>1, NewItem
  <2> HIDE DEF new
  <2>3. Increasing(telegrams')
    <3>1. \A i \in 1..Len(telegrams) : telegrams[i] # None => telegrams[i].id < new.id
      BY <1>0, <2>2, AtMostNext DEF Known
    <3> QED
      BY <1>0, <2>1, <2>2, <3>1, AppendIncreasing
  <2>4. \A n \in Nat : n <= count /\ Above(telegrams, n) => Above(telegrams', n)
    BY <1>0, <2>1, <2>2, AppendBounds
  <2>5. /\ \A i \in 1..Len(outgoing) : outgoing[i] # None => outgoing[i].id <= count
        /\ \A i \in 1..Len(sent) : sent[i] <= count
        /\ current # None => current.id <= count
    BY DEF Known, AtMost
  <2> QED
    BY <1>0, <2>1, <2>3, <2>4, <2>5 DEF SentInOrder
<1>6. CASE ConsumeIncoming
  <2>1. /\ telegrams # <<>> /\ telegrams' = Tail(telegrams)
        /\ UNCHANGED <<outgoing, current, limiter, sent>>
    BY <1>6 DEF ConsumeIncoming, ConsumerTake, taskVars
  <2>2. Increasing(telegrams')
    BY <1>0, <2>1, TailIncreasing
  <2>3. \A n \in Nat : Above(telegrams, n) => Above(telegrams', n)
    BY <1>0, <2>1, TailBounds
  <2> QED
    BY <1>0, <2>1, <2>2, <2>3 DEF SentInOrder
<1>7. CASE ConsumeOutgoing \/ ConsumeNone
  <2> DEFINE x == Head(telegrams)
  <2>1. /\ telegrams # <<>> /\ telegrams' = Tail(telegrams)
        /\ outgoing' = Append(outgoing, x)
        /\ UNCHANGED <<current, limiter, sent>>
    BY <1>7 DEF ConsumeOutgoing, ConsumeNone, ConsumerTake, taskVars, histVars
  <2>2. /\ x \in Items /\ (x # None => x.id \in Nat /\ Above(telegrams', x.id))
        /\ Increasing(telegrams')
    BY <1>0, <2>1, TailItem, TailIncreasing
  <2>3. \A n \in Nat : Above(telegrams, n) =>
            Above(telegrams', n) /\ (x # None => n < x.id)
    BY <1>0, <2>1, TailBounds
  <2> HIDE DEF x
  <2>4. Increasing(outgoing')
    <3>1. x # None => \A i \in 1..Len(outgoing) : outgoing[i] # None => outgoing[i].id < x.id
      BY <1>0, <2>3
    <3> QED
      BY <1>0, <2>1, <2>2, <3>1, AppendIncreasing
  <2>5. \A i \in 1..Len(outgoing') :
            outgoing'[i] # None => Above(telegrams', outgoing'[i].id)
    BY <1>0, <2>1, <2>2, <2>3, AppendItem
  <2>6. \A n \in Nat : Above(outgoing, n) /\ Above(telegrams, n) =>
            Above(outgoing', n) /\ Above(telegrams', n)
    BY <1>0, <2>1, <2>2, <2>3, AppendBounds
  <2> QED
    BY <1>0, <2>1, <2>2, <2>4, <2>5, <2>6 DEF SentInOrder
<1>8. CASE LimitResume
  <2>1. /\ current # None /\ limiter = "limit" /\ limiter' = "send"
        /\ sent' = Append(sent, current.id)
        /\ UNCHANGED <<telegrams, outgoing, current>>
    BY <1>8 DEF LimitResume, BeginSend, queueVars, Control
  <2>2. \A i \in 1..Len(sent') : Above(outgoing, sent'[i]) /\ Above(telegrams, sent'[i])
    BY <1>0, <2>1, AppendSent
  <2>3. SentInOrder'
    BY <1>0, <2>1, AppendInOrder DEF SentInOrder
  <2> QED
    BY <2>1, <2>2, <2>3
<1>9. CASE SendReturn
  BY <1>9 DEF SendReturn, SentInOrder
<1> QED
  BY <1>2, <1>3, <1>4, <1>5, <1>6, <1>7, <1>8, <1>9, Kind

-----------------------------------------------------------------------------
(* What stop() has handled when it returns.                                *)

(* A queue without None, and one that None closes: what was put behind it  *)
(* has an id above n.                                                      *)
Open(q) == \A i \in 1..Len(q) : q[i] # None

ClosedAt(q, n) ==
    \E k \in 1..Len(q) :
        /\ \A i \in 1..Len(q) : q[i] = None <=> i = k
        /\ \A i \in 1..Len(q) : i > k => n < q[i].id

(* xknx.telegrams is closed from PutNone until the consumer takes None; it *)
(* then holds nothing that was put before, and the consumer is not in its  *)
(* loop any more.                                                          *)
Stopping ==
    /\ cut <= count
    /\ idleStops = 0 =>
         /\ consumer = "off" => user = "stopped"
         /\ user = "stopped" =>
              consumer \in {"off", "done"} /\ Open(telegrams) /\ Above(telegrams, cut)
         /\ user \in {"running", "joining", "joined"} =>
              consumer = "get" /\ Open(telegrams)
         /\ user = "stopping" =>
              \/ consumer = "get" /\ ClosedAt(telegrams, cut)
              \/ consumer # "get" /\ Open(telegrams) /\ Above(telegrams, cut)

(* put_nowait of a telegram.                                               *)
LEMMA AppendClosed ==
    ASSUME NEW q \in Seq(Items), NEW x \in Items, x # None, NEW n \in Nat
    PROVE  /\ Open(q) => Open(Append(q, x))
           /\ ClosedAt(q, n) /\ n < x.id => ClosedAt(Append(q, x), n)
<1>1. Open(q) => Open(Append(q, x))
  BY AppendItem DEF Open
<1>2. ASSUME ClosedAt(q, n), n < x.id PROVE ClosedAt(Append(q, x), n)
  <2>1. PICK k \in 1..Len(q) : /\ \A i \in 1..Len(q) : q[i] = None <=> i = k
                               /\ \A i \in 1..Len(q) : i > k => n < q[i].id
    BY <1>2 DEF ClosedAt
  <2>2. /\ Len(Append(q, x)) = Len(q) + 1 /\ Len(q) \in Nat
        /\ \A i \in 1..Len(q) : Append(q, x)[i] = q[i]
        /\ Append(q, x)[Len(q) + 1] = x
    BY AppendItem
  <2>3. k \in 1..Len(Append(q, x))
    BY <2>2
  <2>4. \A i \in 1..Len(Append(q, x)) : i \in 1..Len(q) \/ i = Len(q) + 1
    BY <2>2
  <2>5. \A i \in 1..Len(Append(q, x)) : Append(q, x)[i] = None <=> i = k
    BY <2>1, <2>2, <2>4
  <2>6. \A i \in 1..Len(Append(q, x)) : i > k => n < Append(q, x)[i].id
    BY <1>2, <2>1, <2>2, <2>4
  <2> QED
    BY <2>3, <2>5, <2>6 DEF ClosedAt
<1> QED
  BY <1>1, <1>2

(* put_nowait(None).                                                       *)
LEMMA AppendNone ==
    ASSUME NEW q \in Seq(Items), Open(q), NEW n, None \in Items
    PROVE  ClosedAt(Append(q, None), n)
<1>1. /\ Len(Append(q, None)) = Len(q) + 1 /\ Len(q) \in Nat
      /\ \A i \in 1..Len(q) : Append(q, None)[i] = q[i] /\ q[i] # None
      /\ Append(q, None)[Len(q) + 1] = None
  BY AppendItem DEF Open
<1>2. /\ Len(q) + 1 \in 1..Len(Append(q, None))
      /\ \A i \in 1..Len(Append(q, None)) : i \in 1..Len(q) \/ i = Len(q) + 1
  BY <1>1
<1>3. \A i \in 1..Len(Append(q, None)) : Append(q, None)[i] = None <=> i = Len(q) + 1
  BY <1>1, <1>2
<1>4. \A i \in 1..Len(Append(q, None)) : ~(i > Len(q) + 1)
  BY <1>1
<1> QED
  BY <1>2, <1>3, <1>4 DEF ClosedAt

(* get.                                                                    *)
LEMMA TailClosed ==
    ASSUME NEW q \in Seq(Items), q # <<>>, NEW n \in Nat
    PROVE  /\ Open(q) => Open(Tail(q)) /\ Head(q) # None
           /\ ClosedAt(q, n) /\ Head(q) # None => ClosedAt(Tail(q), n)
           /\ ClosedAt(q, n) /\ Head(q) = None => Open(Tail(q)) /\ Above(Tail(q), n)
<1>0. /\ Len(q) \in Nat /\ Len(q) >= 1 /\ Len(Tail(q)) = Len(q) - 1 /\ Head(q) = q[1]
      /\ \A i \in 1..(Len(q) - 1) : Tail(q)[i] = q[i + 1]
  BY TailItem
<1>1. Open(q) => Open(Tail(q)) /\ Head(q) # None
  BY <1>0 DEF Open
<1>2. ASSUME ClosedAt(q, n)
      PROVE  /\ Head(q) # None => ClosedAt(Tail(q), n)
             /\ Head(q) = None => Open(Tail(q)) /\ Above(Tail(q), n)
  <2>1. PICK k \in 1..Len(q) : /\ \A i \in 1..Len(q) : q[i] = None <=> i = k
                               /\ \A i \in 1..Len(q) : i > k => n < q[i].id
    BY <1>2 DEF ClosedAt
  <2>2. k = 1 <=> Head(q) = None
    BY <1>0, <2>1
  <2>3. ASSUME k # 1 PROVE ClosedAt(Tail(q), n)
    <3>1. k - 1 \in 1..Len(Tail(q))
      BY <1>0, <2>3
    <3>2. \A i \in 1..Len(Tail(q)) : Tail(q)[i] = None <=> i = k - 1
      BY <1>0, <2>1
    <3>3. \A i \in 1..Len(Tail(q)) : i > k - 1 => n < Tail(q)[i].id
      BY <1>0, <2>1
    <3> QED
      BY <3>1, <3>2, <3>3 DEF ClosedAt
  <2>4. ASSUME k = 1 PROVE Open(Tail(q)) /\ Above(Tail(q), n)
    BY <1>0, <2>1, <2>4 DEF Open, Above
  <2> QED
    BY <2>2, <2>3, <2>4
<1> QED
  BY <1>1, <1>2

(* Every step keeps None where it is expected.                             *)
LEMMA StoppingStep ==
    ASSUME Inv, Stopping, [Next]_vars
    PROVE  Stopping'
<1>0. /\ telegrams \in Seq(Items) /\ None \in Items /\ {count, cut, idleStops} \subseteq Nat
      /\ consumer \in {"get", "draining"} => limiter \in {"get", "limit", "send", "dead"}
      /\ consumer \notin {"get", "draining"} => limiter \in {"off", "done"}
      /\ user \in {"stopped", "running", "joining", "joined", "stopping"}
  BY ConstantsAssumption, Typed DEF Inv, TypeOK, Control
<1> USE DEF Stopping
<1>1. ASSUME UNCHANGED <<telegrams, cut, count, idleStops>>,
             consumer' = consumer \/ (consumer = "draining" /\ consumer' = "drained"),
             user' = user \/ (user = "joining" /\ user' = "joined")
      PROVE  Stopping'
  BY <1>1
<1>2. CASE UNCHANGED vars \/ Limiter \/ RateElapsed
  <2>1. /\ UNCHANGED <<telegrams, cut, count, idleStops>>
        /\ consumer' = consumer \/ (consumer = "draining" /\ consumer' = "drained")
        /\ user' = user \/ (user = "joining" /\ user' = "joined")
    BY <1>2 DEF vars, Limiter, LimiterExit, LimitInternal, LimitNow, LimitAwait,
       LimitResume, SendReturn, RateElapsed, TaskDone, TaskDoneOut, BeginSend,
       queueVars, taskVars, userVars, histVars
  <2> QED
    BY <1>1, <2>1
<1>3. CASE Start
  BY <1>3 DEF Start, queueVars, histVars
<1>4. CASE StopReturn
  BY <1>4 DEF StopReturn, TasksOver, queueVars, taskVars, histVars
<1>5. CASE ConsumerExit
  BY <1>0, <1>5 DEF ConsumerExit, TaskDone, histVars
<1>6. ASSUME PutNone, user \in {"running", "joined"}, UNCHANGED <<consumer, count, idleStops>>
      PROVE  Stopping'
  BY <1>0, <1>6, AppendNone DEF PutNone
<1>7. CASE Stop
  <2>1. CASE user = "stopped"
    <3>1. idleStops' = idleStops + 1 /\ count' = count /\ cut' \in {cut, count}
      BY <1>7, <2>1 DEF Stop, PutNone, histVars
    <3> QED
      BY <1>0, <3>1
  <2>2. CASE user = "running" /\ unfinished = 0
    BY <1>6, <1>7, <2>2 DEF Stop, taskVars, histVars
  <2>3. CASE user = "running" /\ unfinished # 0
    BY <1>7, <2>3 DEF Stop, taskVars, histVars
  <2> QED
    BY <1>7, <2>1, <2>2, <2>3 DEF Stop
<1>8. CASE StopJoined
  BY <1>6, <1>8 DEF StopJoined, taskVars, histVars
<1>9. ASSUME NEW kind \in Kinds, Put(kind) PROVE Stopping'
  <2>. DEFINE new == [id |-> count + 1, kind |-> kind]
  <2>1. /\ telegrams' = Append(telegrams, new) /\ count' = count + 1
        /\ UNCHANGED <<cut, idleStops, consumer, user>>
    BY <1>9 DEF Put, taskVars, userVars
  <2>2. new \in Items /\ new # None /\ new.id = count + 1
    BY <1>9, NewItem DEF Put, Inv
  <2>. HIDE DEF new
  <2>3. /\ Open(telegrams) => Open(telegrams')
        /\ Above(telegrams, cut) => Above(telegrams', cut)
        /\ ClosedAt(telegrams, cut) => ClosedAt(telegrams', cut)
    BY <1>0, <2>1, <2>2, AppendClosed, AppendBounds
  <2> QED
    BY <1>0, <2>1, <2>3
<1>10. CASE ConsumeIncoming \/ ConsumeOutgoing \/ ConsumeNone
  <2>1. /\ consumer = "get" /\ telegrams # <<>> /\ telegrams' = Tail(telegrams)
        /\ UNCHANGED <<cut, count, idleStops>>
        /\ user' = user \/ (user = "joining" /\ user' = "joined")
        /\ consumer' = IF Head(telegrams) = None THEN "draining" ELSE "get"
    BY <1>10 DEF ConsumeIncoming, ConsumeOutgoing, ConsumeNone, ConsumerTake, TaskDone,
       taskVars, userVars, histVars
  <2>2. /\ Open(telegrams) => Open(telegrams') /\ Head(telegrams) # None
        /\ ClosedAt(telegrams, cut) /\ Head(telegrams) # None => ClosedAt(telegrams', cut)
        /\ ClosedAt(telegrams, cut) /\ Head(telegrams) = None =>
               Open(telegrams') /\ Above(telegrams', cut)
    BY <1>0, <2>1, TailClosed
  <2>3. CASE user = "stopping"
    BY <2>1, <2>2, <2>3
  <2>4. CASE user # "stopping"
    BY <1>0, <2>1, <2>2, <2>4
  <2> QED
    BY <2>3, <2>4
<1> QED
  BY <1>2, <1>3, <1>4, <1>5, <1>7, <1>8, <1>9, <1>10 DEF Next, Consumer

-----------------------------------------------------------------------------
(* The theorems.                                                           *)

(* The state in which XKNX is created.                                     *)
LEMMA InitInv == Init => Inv
  BY ConstantsAssumption, NoneAssumption
     DEF Init, Inv, TypeOK, Control, Accounting, Held, Conservation, Known, Ordered,
         SentInOrder, AtMost, Above, Increasing, Holds

(* The invariant of the two tasks and their queues.                        *)
THEOREM Invariance == Spec => []Inv
<1>1. Init => Inv
  BY InitInv
<1>2. Inv /\ [Next]_vars => Inv'
  BY TypeStep, ControlStep, AccountingStep, ConservationStep, KnownStep, OrderedStep DEF Inv
<1> QED
  BY <1>1, <1>2, PTL DEF Spec

(* Types; task_done() is never called more often than put_nowait().        *)
THEOREM TypeCorrect == Spec => []TypeOK
<1>1. Inv => TypeOK
  BY DEF Inv
<1> QED
  BY <1>1, Invariance, PTL

(* The unfinished counts of xknx.telegrams and outgoing_queue are exact.   *)
THEOREM AccountingExact == Spec => []Accounting
<1>1. Inv => Accounting
  BY DEF Inv
<1> QED
  BY <1>1, Invariance, PTL

(* When XKNX.join() can return, every telegram was handled.                *)
THEOREM JoinSound == Spec => []JoinMeansHandled
<1>1. Inv => JoinMeansHandled
  <2> SUFFICES ASSUME Inv, unfinished = 0 PROVE handled = 1..count
    BY DEF JoinMeansHandled
  <2>0. /\ Len(telegrams) \in Nat /\ Len(outgoing) \in Nat /\ count \in Nat
    BY DEF Inv, TypeOK
  <2>1. Len(telegrams) = 0 /\ Len(outgoing) = 0 /\ current = None
    BY <2>0 DEF Inv, Accounting, Held
  <2>2. \A id \in 1..count : id \in handled
    BY <2>1 DEF Inv, Conservation, Holds
  <2> QED
    BY <2>2 DEF Inv, Known
<1> QED
  BY <1>1, Invariance, PTL

(* The bus sees the telegrams in the order of put_nowait, each at most     *)
(* once, whatever fails and however often XKNX is restarted.               *)
THEOREM SendOrder == Spec => []SentInOrder
<1>1. Inv => SentInOrder
  BY DEF Inv
<1> QED
  BY <1>1, Invariance, PTL

(* Where None is, from a stop() to its return.                             *)
THEOREM StoppingInvariance == Spec => []Stopping
<1>1. Init => Stopping
  BY DEF Init, Stopping, Open, Above
<1>2. Inv /\ Stopping /\ [Next]_vars => Stopping'
  BY StoppingStep
<1> QED
  BY <1>1, <1>2, Invariance, PTL DEF Spec

(* Once stop() has returned, everything that was put before its None is    *)
(* handled, for any number of restarts and whatever failed.                *)
THEOREM StopHandles == Spec => []StopDrains
<1>1. Inv /\ Stopping => StopDrains
  <2> SUFFICES ASSUME Inv, Stopping, user = "stopped", idleStops = 0, NEW id \in 1..cut
               PROVE  id \in handled
    BY DEF StopDrains
  <2>1. consumer \in {"off", "done"} /\ Above(telegrams, cut) /\ cut <= count
    BY DEF Stopping
  <2>2. outgoing = <<>> /\ current = None
    BY <2>1 DEF Inv, Control
  <2>3. id \in 1..count /\ id \in Nat /\ cut \in Nat
    BY <2>1, ConstantsAssumption DEF Inv, TypeOK
  <2>4. ~Holds(outgoing, id)
    BY <2>2 DEF Holds
  <2>5. ~Holds(telegrams, id)
    BY <2>1, <2>3 DEF Holds, Above
  <2> QED
    BY <2>2, <2>3, <2>4, <2>5 DEF Inv, Conservation
<1> QED
  BY <1>1, Invariance, StoppingInvariance, PTL

-----------------------------------------------------------------------------
(* The refinement of TelegramService.                                      *)

Outgoing == {"group", "internal"}

(* The ids of a queue after put_nowait and after get.                      *)
LEMMA IdsIn ==
    ASSUME NEW q, NEW K, NEW id
    PROVE  id \in IdsOf(q, K)
               <=> \E i \in 1..Len(q) : q[i] # None /\ q[i].kind \in K /\ q[i].id = id
  BY DEF IdsOf

(* p is q after put_nowait(x); p is q after x was taken from it.           *)
Grown(q, x, p) ==
    /\ Len(p) = Len(q) + 1
    /\ \A i \in 1..Len(q) : p[i] = q[i]
    /\ p[Len(q) + 1] = x

Shrunk(q, x, p) ==
    /\ Len(q) >= 1
    /\ Len(p) = Len(q) - 1
    /\ x = q[1]
    /\ \A i \in 1..(Len(q) - 1) : p[i] = q[i + 1]

LEMMA IdsAppend ==
    ASSUME NEW q \in Seq(Items), NEW x, NEW p, Grown(q, x, p), NEW K
    PROVE  /\ x # None /\ x.kind \in K => IdsOf(p, K) = IdsOf(q, K) \cup {x.id}
           /\ x = None \/ x.kind \notin K => IdsOf(p, K) = IdsOf(q, K)
<1>1. /\ Len(p) = Len(q) + 1 /\ Len(q) \in Nat
      /\ \A i \in 1..Len(q) : p[i] = q[i]
      /\ p[Len(q) + 1] = x
  BY DEF Grown
<1>2. /\ \A i \in 1..Len(p) : i \in 1..Len(q) \/ i = Len(q) + 1
      /\ \A i \in 1..Len(q) : i \in 1..Len(p)
      /\ Len(q) + 1 \in 1..Len(p)
  BY <1>1
<1>3. ASSUME NEW id
      PROVE  id \in IdsOf(p, K)
               <=> id \in IdsOf(q, K) \/ (x # None /\ x.kind \in K /\ id = x.id)
  <2>1. ASSUME id \in IdsOf(p, K)
        PROVE  id \in IdsOf(q, K) \/ (x # None /\ x.kind \in K /\ id = x.id)
    <3>1. PICK i \in 1..Len(p) :
              /\ p[i] # None /\ p[i].kind \in K
              /\ p[i].id = id
      BY <2>1, IdsIn
    <3>2. CASE i \in 1..Len(q)
      BY <1>1, <3>1, <3>2, IdsIn
    <3>3. CASE i = Len(q) + 1
      BY <1>1, <3>1, <3>3
    <3> QED
      BY <1>2, <3>2, <3>3
  <2>2. ASSUME id \in IdsOf(q, K) PROVE id \in IdsOf(p, K)
    <3>1. PICK i \in 1..Len(q) : q[i] # None /\ q[i].kind \in K /\ q[i].id = id
      BY <2>2, IdsIn
    <3>2. i \in 1..Len(p) /\ p[i] = q[i]
      BY <1>1, <1>2
    <3> QED
      BY <3>1, <3>2, IdsIn
  <2>3. ASSUME x # None, x.kind \in K PROVE x.id \in IdsOf(p, K)
    <3>1. Len(q) + 1 \in 1..Len(p) /\ p[Len(q) + 1] = x
      BY <1>1, <1>2
    <3> QED
      BY <2>3, <3>1, IdsIn
  <2> QED
    BY <2>1, <2>2, <2>3
<1> QED
  BY <1>3

LEMMA IdsTail ==
    ASSUME NEW q \in Seq(Items), NEW x, NEW p, Shrunk(q, x, p), NEW K
    PROVE  /\ x # None /\ x.kind \in K => IdsOf(q, K) = IdsOf(p, K) \cup {x.id}
           /\ x = None \/ x.kind \notin K => IdsOf(q, K) = IdsOf(p, K)
<1>1. /\ Len(q) \in Nat /\ Len(q) >= 1 /\ Len(p) = Len(q) - 1 /\ x = q[1]
      /\ \A i \in 1..(Len(q) - 1) : p[i] = q[i + 1]
  BY DEF Shrunk
<1>2. /\ \A i \in 1..Len(q) : i = 1 \/ (i - 1 \in 1..Len(p) /\ p[i - 1] = q[i])
      /\ \A i \in 1..Len(p) : i + 1 \in 1..Len(q) /\ p[i] = q[i + 1]
      /\ 1 \in 1..Len(q)
  BY <1>1
<1>3. ASSUME NEW id
      PROVE  id \in IdsOf(q, K)
               <=> id \in IdsOf(p, K)
                     \/ (x # None /\ x.kind \in K /\ id = x.id)
  <2>1. ASSUME id \in IdsOf(q, K)
        PROVE  \/ id \in IdsOf(p, K)
               \/ x # None /\ x.kind \in K /\ id = x.id
    <3>1. PICK i \in 1..Len(q) : q[i] # None /\ q[i].kind \in K /\ q[i].id = id
      BY <2>1, IdsIn
    <3>2. CASE i = 1
      BY <1>1, <3>1, <3>2
    <3>3. CASE i - 1 \in 1..Len(p) /\ p[i - 1] = q[i]
      BY <3>1, <3>3, IdsIn
    <3> QED
      BY <1>2, <3>2, <3>3
  <2>2. ASSUME id \in IdsOf(p, K) PROVE id \in IdsOf(q, K)
    <3>1. PICK i \in 1..Len(p) :
              p[i] # None /\ p[i].kind \in K /\ p[i].id = id
      BY <2>2, IdsIn
    <3>2. i + 1 \in 1..Len(q) /\ p[i] = q[i + 1]
      BY <1>2
    <3> QED
      BY <3>1, <3>2, IdsIn
  <2>3. ASSUME x # None, x.kind \in K PROVE x.id \in IdsOf(q, K)
    <3>1. 1 \in 1..Len(q) /\ q[1] = x
      BY <1>1, <1>2
    <3> QED
      BY <2>3, <3>1, IdsIn
  <2> QED
    BY <2>1, <2>2, <2>3
<1> QED
  BY <1>3

(* Ids are numbers, and respect the bounds of their queue.                 *)
LEMMA IdsBounds ==
    ASSUME NEW q \in Seq(Items), NEW K, NEW n \in Nat
    PROVE  /\ \A id \in IdsOf(q, K) : id \in Nat
           /\ Above(q, n) => \A id \in IdsOf(q, K) : n < id
<1>1. \A i \in 1..Len(q) : q[i] # None => q[i].id \in Nat
  BY ConstantsAssumption DEF Items, Telegrams
<1> QED
  BY <1>1, IdsIn DEF Above

(* Without None, a queue is empty when it holds no id.                     *)
LEMMA NoIds ==
    ASSUME NEW q \in Seq(Items), Open(q)
    PROVE  Len(q) = 0 <=> IdsOf(q, {"incoming"}) = {} /\ IdsOf(q, Outgoing) = {}
<1>1. ASSUME Len(q) = 0, NEW K PROVE IdsOf(q, K) = {}
  BY <1>1, IdsIn
<1>2. ASSUME Len(q) # 0
      PROVE  IdsOf(q, {"incoming"}) # {} \/ IdsOf(q, Outgoing) # {}
  <2>1. 1 \in 1..Len(q) /\ q[1] # None /\ q[1] \in Telegrams
    BY <1>2 DEF Open, Items
  <2>2. q[1].kind \in {"incoming"} \/ q[1].kind \in Outgoing
    BY <2>1 DEF Telegrams, Kinds, Outgoing
  <2>3. q[1].id \in IdsOf(q, {"incoming"}) \/ q[1].id \in IdsOf(q, Outgoing)
    BY <2>1, <2>2, IdsIn
  <2> QED
    BY <2>3
<1> QED
  BY <1>1, <1>2

Inbox  == IdsOf(telegrams, {"incoming"})
Outbox == InHand \cup IdsOf(outgoing, Kinds) \cup IdsOf(telegrams, Outgoing)
Joins  == user = "joining" /\ idleStops = 0

(* While xknx.telegrams is open, its count is zero when both are empty.    *)
CountIsExact ==
    Inv /\ Stopping /\ idleStops = 0 /\ user \in {"running", "joining", "joined"}
        => (unfinished = 0 <=> Inbox = {} /\ Outbox = {})

LEMMA Remaining == CountIsExact
<1> SUFFICES ASSUME Inv, Stopping, idleStops = 0,
                    user \in {"running", "joining", "joined"}
             PROVE  unfinished = 0 <=> Inbox = {} /\ Outbox = {}
  BY DEF CountIsExact
<1>1. /\ telegrams \in Seq(Items) /\ outgoing \in Seq(Items)
      /\ Len(telegrams) \in Nat /\ Len(outgoing) \in Nat
  BY Typed DEF Inv
<1>2. consumer = "get" /\ Open(telegrams)
  BY DEF Stopping
<1>3. Open(outgoing)
  BY <1>2 DEF Inv, Control, Open
<1>4. unfinished = Len(telegrams) + Len(outgoing) + Held
  BY <1>1, <1>2 DEF Inv, Accounting, Held
<1>5. InHand = {} <=> Held = 0
  BY DEF InHand, Held
<1>6. Len(outgoing) = 0 <=> IdsOf(outgoing, Kinds) = {}
  <2>1. IdsOf(outgoing, Kinds) = IdsOf(outgoing, {"incoming"}) \cup IdsOf(outgoing, Outgoing)
    BY IdsIn DEF Kinds, Outgoing
  <2> QED
    BY <1>1, <1>3, <2>1, NoIds
<1>7. Held \in {0, 1}
  BY DEF Held
<1>8. unfinished = 0 <=> Len(telegrams) = 0 /\ Len(outgoing) = 0 /\ Held = 0
  BY <1>1, <1>4, <1>7
<1> QED
  BY <1>1, <1>2, <1>5, <1>6, <1>8, NoIds DEF Inbox, Outbox

(* The steps that move no id leave the service as it is, but for join().   *)
Still == UNCHANGED <<count, handled, Inbox, Outbox, Joins>>

LEMMA StillStutters ==
    ASSUME Still
    PROVE  UNCHANGED Service!vars
  BY DEF Still, Service!vars, Inbox, Outbox, Joins, Outgoing

(* A step that handles the first telegram of one direction.                *)
LEMMA HandlesFirst ==
    ASSUME Inv, Stopping, Inv', Stopping', NEW id, handled' = handled \cup {id},
           UNCHANGED <<count, idleStops>>,
           \/ UNCHANGED user /\ unfinished' # 0
           \/ user' = user /\ user # "joining"
           \/ user = "joining" /\ unfinished' = 0 /\ user' = "joined",
           \/ id \in Inbox /\ (\A other \in Inbox : id <= other)
                /\ Inbox' = Inbox \ {id} /\ Outbox' = Outbox
           \/ id \in Outbox /\ (\A other \in Outbox : id <= other)
                /\ Outbox' = Outbox \ {id} /\ Inbox' = Inbox
    PROVE  Service!Next
<1>1. CountIsExact'
  BY Remaining, PTL
<1>2. Joins' <=> Joins /\ (Inbox' # {} \/ Outbox' # {})
  BY <1>1 DEF CountIsExact, Joins
<1>3. Service!Handle(id)
  BY <1>2 DEF Service!Handle, Inbox, Outbox, Joins, Outgoing
<1>4. CASE /\ id \in Inbox /\ \A other \in Inbox : id <= other
           /\ Inbox' = Inbox \ {id} /\ Outbox' = Outbox
  <2>1. Service!HandleIncoming
    BY <1>3, <1>4 DEF Service!HandleIncoming, Service!IsFirst, Inbox, Outbox, Outgoing
  <2> QED
    BY <2>1 DEF Service!Next
<1>5. CASE /\ id \in Outbox /\ \A other \in Outbox : id <= other
           /\ Outbox' = Outbox \ {id} /\ Inbox' = Inbox
  <2>1. Service!HandleOutgoing
    BY <1>3, <1>5 DEF Service!HandleOutgoing, Service!IsFirst, Inbox, Outbox, Outgoing
  <2> QED
    BY <2>1 DEF Service!Next
<1> QED
  BY <1>4, <1>5

(* A telegram that is put gets the next id.                                *)
LEMMA PutAccepts ==
    ASSUME Inv, NEW kind \in Kinds, Put(kind)
    PROVE  Service!Next
<1>. DEFINE new == [id |-> count + 1, kind |-> kind]
<1>1. /\ telegrams' = Append(telegrams, new) /\ count' = count + 1
      /\ UNCHANGED <<outgoing, current, handled, user, idleStops>>
  BY DEF Put, taskVars, userVars
<1>2. new \in Items /\ new # None /\ new.id = count + 1 /\ new.kind = kind
  BY NewItem DEF Put, Inv
<1>. HIDE DEF new
<1>3. telegrams \in Seq(Items) /\ Grown(telegrams, new, telegrams')
  BY <1>1, <1>2, Typed, AppendItem DEF Inv, Grown
<1>4. /\ Inbox' = IF kind = "incoming" THEN Inbox \cup {count'} ELSE Inbox
      /\ Outbox' = IF kind \in Outgoing THEN Outbox \cup {count'} ELSE Outbox
  <2>1. /\ new.kind \in {"incoming"} => Inbox' = Inbox \cup {new.id}
        /\ new.kind \notin {"incoming"} => Inbox' = Inbox
    BY <1>2, <1>3, IdsAppend DEF Inbox
  <2>2. /\ new.kind \in Outgoing =>
               IdsOf(telegrams', Outgoing) = IdsOf(telegrams, Outgoing) \cup {new.id}
        /\ new.kind \notin Outgoing =>
               IdsOf(telegrams', Outgoing) = IdsOf(telegrams, Outgoing)
    BY <1>2, <1>3, IdsAppend
  <2> QED
    BY <1>1, <1>2, <2>1, <2>2 DEF Outbox, InHand
<1>5. /\ handled' = handled /\ Joins' = Joins
      /\ \/ Inbox' = Inbox \cup {count'} /\ Outbox' = Outbox
         \/ Outbox' = Outbox \cup {count'} /\ Inbox' = Inbox
  BY <1>1, <1>4 DEF Joins, Kinds, Outgoing
<1> QED
  BY <1>1, <1>5 DEF Service!Next, Service!Accept, Inbox, Outbox, Joins, Outgoing

(* Who waits in join() goes on with the last task_done().                  *)
LEMMA Wakes ==
    ASSUME TypeOK, TaskDone
    PROVE  \/ UNCHANGED user /\ unfinished' # 0
           \/ user' = user /\ user # "joining"
           \/ user = "joining" /\ unfinished' = 0 /\ user' = "joined"
<1>1. unfinished \in Nat /\ unfinished' = unfinished - 1
  BY DEF TypeOK, TaskDone
<1>2. unfinished = 1 <=> unfinished' = 0
  BY <1>1
<1> QED
  BY <1>2 DEF TaskDone

(* The consumer handles the first incoming telegram.                       *)
LEMMA IncomingHandled ==
    ASSUME Inv, Stopping, Inv', Stopping', ConsumeIncoming
    PROVE  Service!Next
<1>. DEFINE x == Head(telegrams)
<1>1. /\ telegrams # <<>> /\ telegrams' = Tail(telegrams) /\ x # None
      /\ x.kind = "incoming" /\ TaskDone /\ handled' = handled \cup {x.id}
      /\ UNCHANGED <<outgoing, current, count, idleStops>>
  BY DEF ConsumeIncoming, ConsumerTake, taskVars
<1>2. telegrams \in Seq(Items) /\ telegrams' \in Seq(Items) /\ x.id \in Nat
  BY <1>1, Typed, TailItem, ConstantsAssumption DEF Inv
<1>3. Above(telegrams', x.id)
  BY <1>1, <1>2, TailIncreasing DEF Inv, Ordered
<1>. HIDE DEF x
<1>4. Inbox = Inbox' \cup {x.id} /\ Outbox' = Outbox
  <2>1. /\ Shrunk(telegrams, x, telegrams')
        /\ x # None /\ x.kind \in {"incoming"} /\ x.kind \notin Outgoing
    BY <1>1, <1>2, TailItem DEF x, Shrunk, Outgoing
  <2>2. telegrams \in Seq(Items)
    BY <1>2
  <2>3. IdsOf(telegrams, {"incoming"}) = IdsOf(telegrams', {"incoming"}) \cup {x.id}
    BY <2>1, <2>2, IdsTail
  <2>4. IdsOf(telegrams, Outgoing) = IdsOf(telegrams', Outgoing)
    BY <2>1, <2>2, IdsTail
  <2> QED
    BY <1>1, <2>3, <2>4 DEF Inbox, Outbox, InHand
<1>5. \A id \in Inbox' : id \in Nat /\ x.id < id
  BY <1>2, <1>3, IdsBounds DEF Inbox
<1>6. /\ x.id \in Inbox /\ \A other \in Inbox : x.id <= other
      /\ Inbox' = Inbox \ {x.id}
  BY <1>2, <1>4, <1>5
<1> QED
  BY <1>1, <1>4, <1>6, Wakes, HandlesFirst DEF Inv

(* The rate limiter handles the telegram it has just taken, or its current.*)
LEMMA OutgoingHandled ==
    ASSUME Inv, Stopping, Inv', Stopping', LimitInternal \/ SendReturn
    PROVE  Service!Next
<1>0. /\ telegrams \in Seq(Items) /\ outgoing \in Seq(Items)
      /\ UNCHANGED <<telegrams, count, idleStops>> /\ TaskDone
  BY Typed DEF Inv, LimitInternal, SendReturn
<1>1. ASSUME NEW id \in Nat, handled' = handled \cup {id}, Above(telegrams, id),
             Above(outgoing', id), outgoing' \in Seq(Items), current' = None,
             InHand \cup IdsOf(outgoing, Kinds) = IdsOf(outgoing', Kinds) \cup {id}
      PROVE  Service!Next
  <2>1. Outbox = Outbox' \cup {id} /\ Inbox' = Inbox
    BY <1>0, <1>1 DEF Outbox, Inbox, InHand
  <2>2. \A other \in Outbox' : other \in Nat /\ id < other
    BY <1>0, <1>1, IdsBounds DEF Outbox, InHand
  <2>3. /\ id \in Outbox /\ \A other \in Outbox : id <= other
        /\ Outbox' = Outbox \ {id}
    BY <1>1, <2>1, <2>2
  <2> QED
    BY <1>0, <1>1, <2>1, <2>3, Wakes, HandlesFirst DEF Inv
<1>2. CASE LimitInternal
  <2>. DEFINE x == Head(outgoing)
  <2>1. /\ outgoing # <<>> /\ outgoing' = Tail(outgoing) /\ x # None
        /\ handled' = handled \cup {x.id} /\ UNCHANGED current /\ current = None
    BY <1>2 DEF LimitInternal, LimiterTake, Inv, Control
  <2>2. /\ outgoing' \in Seq(Items) /\ x \in Telegrams /\ x.id \in Nat
    BY <1>0, <2>1, TailItem, ConstantsAssumption DEF Items
  <2>3. Above(outgoing', x.id)
    BY <1>0, <2>1, TailIncreasing DEF Inv, Ordered
  <2>4. Above(telegrams, x.id)
    BY <1>0, <2>1, TailItem DEF Inv, Ordered
  <2>. HIDE DEF x
  <2>5. IdsOf(outgoing, Kinds) = IdsOf(outgoing', Kinds) \cup {x.id} /\ InHand = {}
    <3>1. Shrunk(outgoing, x, outgoing') /\ x.kind \in Kinds
      BY <1>0, <2>1, <2>2, TailItem DEF x, Shrunk, Telegrams
    <3> QED
      BY <1>0, <2>1, <3>1, IdsTail DEF InHand
  <2> QED
    BY <1>1, <2>1, <2>2, <2>3, <2>4, <2>5
<1>3. CASE SendReturn
  <2>1. /\ current # None /\ current' = None /\ UNCHANGED outgoing
        /\ handled' = handled \cup {current.id}
    BY <1>3 DEF SendReturn, Inv, Control
  <2>2. current.id \in Nat /\ Above(outgoing, current.id) /\ Above(telegrams, current.id)
    BY <2>1, Typed DEF Inv, Ordered
  <2>3. InHand = {current.id}
    BY <2>1 DEF InHand
  <2> QED
    BY <1>0, <1>1, <2>1, <2>2, <2>3
<1> QED
  BY <1>2, <1>3

(* put_nowait(None) adds no telegram.                                      *)
LEMMA ClosingKeepsIds ==
    ASSUME telegrams \in Seq(Items), None \in Items, telegrams' = Append(telegrams, None),
           UNCHANGED <<outgoing, current>>
    PROVE  Inbox' = Inbox /\ Outbox' = Outbox
<1>1. Grown(telegrams, None, telegrams')
  BY AppendItem DEF Grown
<1>0. telegrams \in Seq(Items)
  OBVIOUS
<1>2. ASSUME NEW K PROVE IdsOf(telegrams', K) = IdsOf(telegrams, K)
  BY ONLY <1>0, <1>1, IdsAppend
<1> QED
  BY <1>2 DEF Inbox, Outbox, InHand

(* A stop() that has to wait joins the service, unless an earlier one has  *)
(* left its None; the others close xknx.telegrams.                         *)
LEMMA StopJoins ==
    ASSUME Inv, Stopping, Stop
    PROVE  Service!Next \/ UNCHANGED Service!vars
<1>0. telegrams \in Seq(Items) /\ None \in Items /\ idleStops \in Nat
  BY Typed DEF Inv, TypeOK
<1>1. UNCHANGED <<outgoing, current, count, handled>>
  BY DEF Stop, taskVars, histVars
<1>2. Inbox' = Inbox /\ Outbox' = Outbox
  <2>1. telegrams' = telegrams \/ telegrams' = Append(telegrams, None)
    BY DEF Stop, PutNone
  <2>2. CASE telegrams' = Append(telegrams, None)
    BY <1>0, <1>1, <2>2, ClosingKeepsIds
  <2> QED
    BY <1>1, <2>1, <2>2 DEF Inbox, Outbox, InHand
<1>3. CASE Joins' = Joins
  <2>1. Still
    BY <1>1, <1>2, <1>3 DEF Still
  <2> QED
    BY <2>1, StillStutters
<1>4. CASE Joins' # Joins
  <2>1. user = "running" /\ unfinished # 0 /\ idleStops = 0 /\ idleStops' = idleStops
        /\ user' = "joining"
    BY <1>0, <1>4 DEF Joins, Stop, PutNone
  <2>2. Inbox # {} \/ Outbox # {}
    BY <2>1, Remaining DEF CountIsExact
  <2>3. ~Joins /\ Joins'
    BY <2>1 DEF Joins
  <2> QED
    BY <1>1, <1>2, <2>2, <2>3
       DEF Service!Next, Service!Join, Inbox, Outbox, Joins, Outgoing
<1> QED
  BY <1>3, <1>4

(* Every other step only moves telegrams within their direction.           *)
LEMMA OthersStutter ==
    ASSUME Inv, Stopping,
           \/ UNCHANGED vars \/ Start \/ StopJoined \/ StopReturn
           \/ ConsumeOutgoing \/ ConsumeNone \/ ConsumerExit
           \/ LimiterExit \/ LimitNow \/ LimitAwait \/ LimitResume \/ RateElapsed
    PROVE  UNCHANGED Service!vars
<1>0. /\ telegrams \in Seq(Items) /\ outgoing \in Seq(Items) /\ None \in Items
  BY Typed DEF Inv
<1>1. UNCHANGED <<count, handled>> /\ Joins' = Joins
  <2>1. CASE ConsumerExit
    BY <2>1 DEF ConsumerExit, TaskDone, Stopping, Joins, histVars
  <2>2. CASE UNCHANGED vars \/ Start \/ StopJoined \/ StopReturn
    BY <2>2 DEF vars, Start, StopJoined, StopReturn, PutNone, Joins, queueVars, taskVars,
       userVars, histVars
  <2>3. CASE \/ ConsumeOutgoing \/ ConsumeNone \/ LimiterExit \/ LimitNow \/ LimitAwait
             \/ LimitResume \/ RateElapsed
    BY <2>3 DEF ConsumeOutgoing, ConsumeNone, LimiterExit, LimitNow, LimitAwait,
       LimitResume, RateElapsed, Joins, userVars, histVars
  <2> QED
    BY <2>1, <2>2, <2>3
<1>2. Inbox' = Inbox /\ Outbox' = Outbox
  <2>1. CASE ConsumeOutgoing \/ ConsumeNone
    <3>. DEFINE x == Head(telegrams)
    <3>1. /\ telegrams # <<>> /\ telegrams' = Tail(telegrams) /\ UNCHANGED current
          /\ outgoing' = Append(outgoing, x)
          /\ x # None => x.kind # "incoming"
      BY <2>1 DEF ConsumeOutgoing, ConsumeNone, ConsumerTake, taskVars
    <3>2. x \in Items /\ Shrunk(telegrams, x, telegrams')
      BY <1>0, <3>1, TailItem DEF Shrunk
    <3>. HIDE DEF x
    <3>3. Grown(outgoing, x, outgoing')
      BY <1>0, <3>1, <3>2, AppendItem DEF Grown
    <3>4. x # None => x.kind \in Kinds /\ x.kind \in Outgoing /\ x.kind # "incoming"
      <4>1. x # None => x.kind # "incoming" /\ x \in Telegrams
        BY <3>1, <3>2 DEF Items
      <4> QED
        BY <4>1 DEF Telegrams, Kinds, Outgoing
    <3>5. Inbox' = Inbox
      <4>1. ~(x # None /\ x.kind \in {"incoming"})
        BY <3>4
      <4> QED
        BY <1>0, <3>2, <4>1, IdsTail DEF Inbox
    <3>6. IdsOf(telegrams, Outgoing) = IdsOf(telegrams', Outgoing)
              \cup (IF x # None THEN {x.id} ELSE {})
      BY <1>0, <3>2, <3>4, IdsTail
    <3>7. IdsOf(outgoing', Kinds) = IdsOf(outgoing, Kinds)
              \cup (IF x # None THEN {x.id} ELSE {})
      BY <1>0, <3>3, <3>4, IdsAppend
    <3> QED
      BY <3>1, <3>5, <3>6, <3>7 DEF Outbox, InHand
  <2>2. CASE LimiterExit \/ LimitNow \/ LimitAwait
    <3>1. /\ outgoing # <<>> /\ outgoing' = Tail(outgoing) /\ UNCHANGED telegrams
          /\ current = None
          /\ current' = Head(outgoing)
      BY <2>2 DEF LimiterExit, LimitNow, LimitAwait, LimiterTake, Inv, Control
    <3>2. /\ current' # None => current'.kind \in Kinds
          /\ Shrunk(outgoing, current', outgoing')
      BY <1>0, <3>1, TailItem DEF Items, Telegrams, Shrunk
    <3>3. IdsOf(outgoing, Kinds) = IdsOf(outgoing', Kinds) \cup InHand'
      BY <1>0, <3>2, IdsTail DEF InHand
    <3>4. InHand = {}
      BY <3>1 DEF InHand
    <3> QED
      BY <3>1, <3>3, <3>4 DEF Inbox, Outbox
  <2>3. CASE StopJoined
    <3>1. telegrams' = Append(telegrams, None) /\ UNCHANGED <<outgoing, current>>
      BY <2>3 DEF StopJoined, PutNone, taskVars
    <3> QED
      BY <1>0, <3>1, ClosingKeepsIds
  <2>4. CASE \/ UNCHANGED vars \/ Start \/ StopReturn \/ ConsumerExit \/ LimitResume
             \/ RateElapsed
    BY <2>4 DEF vars, Start, StopReturn, ConsumerExit, LimitResume, RateElapsed,
       queueVars, taskVars, Inbox, Outbox, InHand
  <2> QED
    BY <2>1, <2>2, <2>3, <2>4
<1>3. Still
  BY <1>1, <1>2 DEF Still
<1> QED
  BY <1>3, StillStutters

(* The two tasks and their queues implement one FIFO per direction whose   *)
(* join() returns with the step that handles the last telegram.            *)
THEOREM ServiceImplemented == Spec => ImplementsService
<1>1. Init => Service!Init
  BY DEF Init, Service!Init, IdsOf, InHand
<1>2. Inv /\ Inv' /\ Stopping /\ Stopping' /\ [Next]_vars
          => [Service!Next]_(Service!vars)
  BY PutAccepts, IncomingHandled, OutgoingHandled, StopJoins, OthersStutter
     DEF Next, Consumer, Limiter
<1> QED
  BY <1>1, <1>2, Invariance, StoppingInvariance, PTL DEF Spec, ImplementsService, Service!Spec

=============================================================================
