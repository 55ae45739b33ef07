--------------------- MODULE NoiseOnflySupervisorProofs ---------------------
(***************************************************************************)
(* Proofs about the noise worker pool, for any number of requests, slots   *)
(* and workers and any length of the queue.                                *)
(*                                                                         *)
(* The inductive invariant comes in three layers: PoolInv relates the      *)
(* slots, the threads and the loop of close(); OwedInv adds what is under  *)
(* way between a slot and its worker; TimersInv adds what each request     *)
(* holds.                                                                  *)
(***************************************************************************)
EXTENDS NoiseOnflySupervisor, SequenceTheorems, TLAPS

\* No slot, worker or request is None.
LEMMA Numbers ==
    /\ PoolSize \in Nat /\ PoolSize # 0
    /\ \A s \in Slots : s \in Nat /\ s # 0 /\ s # None
    /\ \A w \in Workers : w # None
    /\ \A r \in Requests : r # None
BY SupervisorAssumption DEF Slots, Workers

(* Facts about sequences without repetitions *)

\* findIndex and splice.
LEMMA TakenOut ==
    ASSUME NEW S, NEW q \in Seq(S), NEW i \in DOMAIN q
    PROVE  /\ RemoveAt(q, i) \in Seq(S)
           /\ IsInjective(q) => /\ Range(RemoveAt(q, i)) = Range(q) \ {q[i]}
                                /\ IsInjective(RemoveAt(q, i))
<1>1. i \in 1 .. Len(q) /\ Len(q) \in Nat /\ \A j \in 1 .. Len(q) : q[j] \in S
  BY LenProperties
<1>2. /\ SubSeq(q, 1, i - 1) \in Seq(S) /\ Len(SubSeq(q, 1, i - 1)) = i - 1
      /\ \A j \in 1 .. i - 1 : SubSeq(q, 1, i - 1)[j] = q[j]
  BY <1>1, SubSeqProperties
<1>3. /\ SubSeq(q, i + 1, Len(q)) \in Seq(S) /\ Len(SubSeq(q, i + 1, Len(q))) = Len(q) - i
      /\ \A j \in 1 .. Len(q) - i : SubSeq(q, i + 1, Len(q))[j] = q[i + j]
  BY <1>1, SubSeqProperties
<1>4. /\ RemoveAt(q, i) \in Seq(S) /\ Len(RemoveAt(q, i)) = Len(q) - 1
      /\ \A j \in 1 .. Len(q) - 1 : RemoveAt(q, i)[j] = IF j < i THEN q[j] ELSE q[j + 1]
  <2> DEFINE a == SubSeq(q, 1, i - 1)
             b == SubSeq(q, i + 1, Len(q))
  <2>1. /\ a \in Seq(S) /\ Len(a) = i - 1 /\ \A j \in 1 .. i - 1 : a[j] = q[j]
        /\ b \in Seq(S) /\ Len(b) = Len(q) - i /\ \A j \in 1 .. Len(q) - i : b[j] = q[i + j]
    BY <1>2, <1>3
  <2> HIDE DEF a, b
  <2>2. /\ a \o b \in Seq(S) /\ Len(a \o b) = Len(a) + Len(b)
        /\ \A j \in 1 .. Len(a) + Len(b) : (a \o b)[j] = IF j <= Len(a) THEN a[j] ELSE b[j - Len(a)]
    BY <2>1, ConcatProperties
  <2>3. Len(a \o b) = Len(q) - 1
    BY <1>1, <2>1, <2>2
  <2>4. ASSUME NEW j \in 1 .. Len(q) - 1
        PROVE  (a \o b)[j] = IF j < i THEN q[j] ELSE q[j + 1]
    <3>1. CASE j < i
      <4>1. j \in 1 .. i - 1 /\ j <= Len(a) /\ j \in 1 .. Len(a) + Len(b)
        BY <1>1, <2>1, <3>1
      <4> QED BY <2>1, <2>2, <3>1, <4>1
    <3>2. CASE ~(j < i)
      <4>1. /\ j - Len(a) \in 1 .. Len(q) - i /\ ~(j <= Len(a)) /\ j \in 1 .. Len(a) + Len(b)
            /\ i + (j - Len(a)) = j + 1
        BY <1>1, <2>1, <3>2
      <4> QED BY <2>1, <2>2, <3>2, <4>1
    <3> QED BY <3>1, <3>2
  <2>5. RemoveAt(q, i) = a \o b
    BY DEF RemoveAt, a, b
  <2> QED BY <2>2, <2>3, <2>4, <2>5
<1>5. DOMAIN RemoveAt(q, i) = 1 .. Len(q) - 1 /\ DOMAIN q = 1 .. Len(q)
  BY <1>1, <1>4, LenProperties
<1>6. ASSUME IsInjective(q)
      PROVE  IsInjective(RemoveAt(q, i))
  BY <1>1, <1>4, <1>5, <1>6 DEF IsInjective
<1>7. ASSUME IsInjective(q)
      PROVE  Range(RemoveAt(q, i)) = Range(q) \ {q[i]}
  <2>1. ASSUME NEW j \in 1 .. Len(q) - 1
        PROVE  RemoveAt(q, i)[j] \in Range(q) \ {q[i]}
    <3>1. PICK k \in 1 .. Len(q) : RemoveAt(q, i)[j] = q[k] /\ k # i
      <4>1. j \in 1 .. Len(q) /\ j + 1 \in 1 .. Len(q)
        BY <1>1
      <4>2. CASE j < i
        BY <1>1, <1>4, <4>1, <4>2
      <4>3. CASE ~(j < i)
        BY <1>1, <1>4, <4>1, <4>3
      <4> QED BY <4>2, <4>3
    <3>2. q[k] # q[i]
      BY <1>1, <1>5, <1>7, <3>1 DEF IsInjective
    <3> QED BY <1>5, <3>1, <3>2 DEF Range
  <2>2. ASSUME NEW j \in 1 .. Len(q), q[j] # q[i]
        PROVE  \E k \in 1 .. Len(q) - 1 : RemoveAt(q, i)[k] = q[j]
    <3>1. CASE j < i
      BY <1>1, <1>4, <3>1
    <3>2. CASE j > i
      <4>1. j - 1 \in 1 .. Len(q) - 1 /\ ~(j - 1 < i) /\ (j - 1) + 1 = j
        BY <1>1, <3>2
      <4> QED BY <1>4, <4>1
    <3> QED BY <1>1, <2>2, <3>1, <3>2
  <2>3. Range(RemoveAt(q, i)) = {RemoveAt(q, i)[j] : j \in 1 .. Len(q) - 1}
    BY <1>5 DEF Range
  <2>4. Range(q) = {q[j] : j \in 1 .. Len(q)}
    BY <1>5 DEF Range
  <2>5. ASSUME NEW x
        PROVE  x \in Range(RemoveAt(q, i)) <=> x \in Range(q) \ {q[i]}
    BY <2>1, <2>2, <2>3, <2>4
  <2> QED BY <2>5
<1> QED BY <1>4, <1>6, <1>7

\* shift.
LEMMA HeadTaken ==
    ASSUME NEW S, NEW q \in Seq(S), q # <<>>, IsInjective(q)
    PROVE  /\ Head(q) \in S /\ Tail(q) \in Seq(S)
           /\ Head(q) \in Range(q)
           /\ Range(Tail(q)) = Range(q) \ {Head(q)}
           /\ IsInjective(Tail(q))
<1>1. /\ Len(q) \in Nat /\ Len(q) # 0 /\ DOMAIN q = 1 .. Len(q) /\ Head(q) = q[1]
      /\ Head(q) \in S /\ Tail(q) \in Seq(S)
      /\ DOMAIN Tail(q) = 1 .. Len(q) - 1
      /\ \A i \in 1 .. Len(q) - 1 : Tail(q)[i] = q[i + 1]
  BY LenProperties, HeadTailProperties, EmptySeq
<1>2. ASSUME NEW j \in 1 .. Len(q), q[j] # q[1]
      PROVE  \E k \in 1 .. Len(q) - 1 : Tail(q)[k] = q[j]
  <2>1. j - 1 \in 1 .. Len(q) - 1 /\ (j - 1) + 1 = j
    BY <1>1, <1>2
  <2> QED BY <1>1, <2>1
<1>3. Range(Tail(q)) = Range(q) \ {Head(q)}
  <2>1. Range(Tail(q)) = {Tail(q)[i] : i \in 1 .. Len(q) - 1}
    BY <1>1 DEF Range
  <2>2. Range(q) = {q[i] : i \in 1 .. Len(q)}
    BY <1>1 DEF Range
  <2>3. ASSUME NEW i \in 1 .. Len(q) - 1
        PROVE  Tail(q)[i] \in Range(q) /\ Tail(q)[i] # q[1]
    <3>1. i + 1 \in 1 .. Len(q) /\ i + 1 # 1 /\ 1 \in 1 .. Len(q)
      BY <1>1
    <3> QED BY <1>1, <2>2, <3>1 DEF IsInjective
  <2>4. ASSUME NEW x
        PROVE  x \in Range(Tail(q)) <=> x \in Range(q) \ {Head(q)}
    BY <1>1, <1>2, <2>1, <2>2, <2>3
  <2> QED BY <2>4
<1>4. IsInjective(Tail(q))
  BY <1>1 DEF IsInjective
<1>5. Head(q) \in Range(q)
  BY <1>1 DEF Range
<1> QED BY <1>1, <1>3, <1>4, <1>5

\* push.
LEMMA Appended ==
    ASSUME NEW S, NEW q \in Seq(S), NEW e \in S, e \notin Range(q), IsInjective(q)
    PROVE  Range(Append(q, e)) = Range(q) \cup {e} /\ IsInjective(Append(q, e))
<1>1. /\ Len(q) \in Nat /\ DOMAIN q = 1 .. Len(q) /\ DOMAIN Append(q, e) = 1 .. Len(q) + 1
      /\ \A i \in 1 .. Len(q) : Append(q, e)[i] = q[i]
      /\ Append(q, e)[Len(q) + 1] = e
  BY LenProperties, AppendProperties
<1>2. 1 .. Len(q) + 1 = (1 .. Len(q)) \cup {Len(q) + 1}
  BY <1>1
<1>3. IsInjective(Append(q, e))
  BY <1>1, <1>2 DEF Range, IsInjective
<1>4. Range(Append(q, e)) = {Append(q, e)[i] : i \in 1 .. Len(q) + 1} /\ Range(q) = {q[i] : i \in 1 .. Len(q)}
  BY <1>1 DEF Range
<1> QED BY <1>1, <1>2, <1>3, <1>4

--------------------------------------------------------------------------
(* Types *)

LEMMA TypeInit == Init => TypeOK
<1>1. 0 \in 0 .. PoolSize + 1
  BY Numbers
<1>2. \A S : <<>> \in Seq(S)
  BY EmptySeq
<1>3. ASSUME Init
      PROVE  queue \in Seq(Requests) /\ inbox \in [Workers -> Seq(Requests)] /\ outbox \in [Workers -> Seq(Events)]
  BY <1>2, <1>3 DEF Init
<1> QED BY <1>1, <1>3 DEF Init, TypeOK

LEMMA SettleTyped ==
    ASSUME TypeOK, NEW rs, NEW how \in {"answered", "rejected"}, Settle(rs, how)
    PROVE  settled' \in [Requests -> {"answered", "rejected", None}] /\ listening' \subseteq Requests
BY DEF TypeOK, Settle

LEMMA FinishTyped ==
    ASSUME TypeOK, NEW s, NEW r, Finish(s, r)
    PROVE  /\ active' \in [Slots -> Requests \cup {None}]
           /\ on' \in [Requests -> Workers \cup {None}]
           /\ workTimer' \subseteq Requests
BY DEF TypeOK, Finish

LEMMA RecycleTyped ==
    ASSUME TypeOK, NEW s, NEW w \in Workers \cup {None}, Recycle(s, w)
    PROVE  /\ worker' \in [Slots -> Workers \cup {None}]
           /\ recycling' \in [Slots -> Workers \cup {None}]
           /\ thread' \in [Workers -> {"unborn", "alive", "stopping", "ended"}]
<1>1. CASE recycling[s] # None
  BY <1>1 DEF TypeOK, Recycle
<1>2. CASE recycling[s] = None
  <2>1. /\ worker' = [worker EXCEPT ![s] = IF @ = w THEN None ELSE @]
        /\ recycling' = [recycling EXCEPT ![s] = w]
        /\ thread' = [thread EXCEPT ![w] = IF @ = "alive" THEN "stopping" ELSE @]
    BY <1>2 DEF Recycle, Stop
  <2>2. \A t \in Slots : worker'[t] \in Workers \cup {None}
    BY <2>1 DEF TypeOK
  <2>3. \A v \in Workers : thread'[v] \in {"unborn", "alive", "stopping", "ended"}
    BY <2>1 DEF TypeOK
  <2> QED BY <2>1, <2>2, <2>3 DEF TypeOK
<1> QED BY <1>1, <1>2

LEMMA TerminateTyped ==
    ASSUME TypeOK, closing \in Slots, TerminateWorker(closing)
    PROVE  /\ worker' \in [Slots -> Workers \cup {None}]
           /\ closing' \in 0 .. PoolSize + 1
           /\ awaiting' \in {"nothing", "recycling", "terminate"}
           /\ terminating' \in Workers \cup {None}
           /\ thread' \in [Workers -> {"unborn", "alive", "stopping", "ended"}]
<1>1. closing + 1 \in 0 .. PoolSize + 1
  BY Numbers DEF Slots
<1> QED BY <1>1 DEF TypeOK, TerminateWorker, Stop

LEMMA EventTaken ==
    ASSUME TypeOK, NEW w \in Workers, outbox[w] # <<>>, TakeEvent(w)
    PROVE  /\ outbox' \in [Workers -> Seq(Events)]
           /\ Head(outbox[w]) \in Events
           /\ Head(outbox[w]).kind = "message" =>
                 Head(outbox[w]).id \in Requests /\ Head(outbox[w]).how \in {"answered", "rejected"}
<1>1. Head(outbox[w]) \in Events /\ Tail(outbox[w]) \in Seq(Events)
  BY HeadTailProperties DEF TypeOK
<1> QED BY <1>1 DEF TypeOK, TakeEvent, Events, Event

LEMMA TypeInductive ==
    ASSUME TypeOK, [Next]_vars
    PROVE  TypeOK'
<1> USE Numbers DEF TypeOK
<1>1. ASSUME NEW r \in Requests, Enqueue(r)
      PROVE  TypeOK'
  <2> USE <1>1 DEF Enqueue, poolVars, closeVars, threadVars
  <2>1. CASE Refuse(r) \/ AbortedEarly(r)
    BY <2>1, SettleTyped DEF Refuse, AbortedEarly
  <2>2. CASE Accept(r)
    BY <2>2 DEF Accept
  <2> QED BY <2>1, <2>2
<1>2. ASSUME NEW r \in Requests, QueueTimeout(r)
      PROVE  TypeOK'
  BY <1>2, TakenOut DEF QueueTimeout, Dequeue, Settle, poolVars, closeVars, threadVars
<1>3. ASSUME NEW r \in Requests, Abort(r)
      PROVE  TypeOK'
  BY <1>3, TakenOut DEF Abort, AbortActive, Dequeue, Settle, poolVars, closeVars, threadVars
<1>4. CASE Dispatch
  BY <1>4 DEF Dispatch, CanStart, TakeHead, FirstIdle, IdleSlots, Ensured, closeVars
<1>5. CASE SpawnFails
  BY <1>5 DEF SpawnFails, CanStart, TakeHead, Settle, poolVars, closeVars, threadVars
<1>6. CASE PostFails
  BY <1>6 DEF PostFails, CanStart, TakeHead, Settle, FirstIdle, IdleSlots, Ensured, closeVars
<1>7. CASE NothingToStart
  BY <1>7 DEF NothingToStart, poolVars, requestVars, closeVars, threadVars
<1>8. ASSUME NEW w \in Workers, WorkerMessage(w)
      PROVE  TypeOK'
  <2>1. outbox[w] # <<>> /\ TakeEvent(w) /\ Head(outbox[w]).kind = "message"
    BY <1>8 DEF WorkerMessage, NextEvent
  <2>2. outbox' \in [Workers -> Seq(Events)]
    BY <2>1, EventTaken
  <2>3. Head(outbox[w]).how \in {"answered", "rejected"}
    BY <2>1, EventTaken
  <2>4. /\ active' \in [Slots -> Requests \cup {None}] /\ on' \in [Requests -> Workers \cup {None}]
        /\ workTimer' \subseteq Requests /\ listening' \subseteq Requests
        /\ settled' \in [Requests -> {"answered", "rejected", None}] /\ starting' \in BOOLEAN
    BY <1>8, <2>3, FinishTyped, SettleTyped DEF WorkerMessage
  <2> QED BY <1>8, <2>2, <2>4 DEF WorkerMessage, closeVars
<1>9. ASSUME NEW w \in Workers, NEW kind, WorkerGone(w, kind)
      PROVE  TypeOK'
  <2>1. outbox[w] # <<>> /\ TakeEvent(w)
    BY <1>9 DEF WorkerGone, NextEvent
  <2> QED BY <1>9, <2>1, EventTaken, FinishTyped, SettleTyped, RecycleTyped DEF WorkerGone, closeVars
<1>10. ASSUME NEW w \in Workers, Reply(w)
      PROVE  TypeOK'
  BY <1>10 DEF Reply, supervisorVars, poolVars, requestVars, closeVars, Events, Event
<1>11. ASSUME NEW w \in Workers, ThreadFails(w) \/ ThreadExits(w)
      PROVE  TypeOK'
  <2>1. PICK events \in {<<Event("error", None, None), Event("exit", None, None)>>,
                          <<Event("exit", None, None)>>} : ThreadEnds(w, events)
    BY <1>11 DEF ThreadFails, ThreadExits
  <2>2. events \in Seq(Events)
    <3>1. Event("error", None, None) \in Events /\ Event("exit", None, None) \in Events
      BY DEF Events
    <3>2. CASE events = <<Event("error", None, None), Event("exit", None, None)>>
      BY <3>1, <3>2
    <3>3. CASE events = <<Event("exit", None, None)>>
      BY <3>1, <3>3
    <3> QED BY <3>2, <3>3
  <2>3. outbox[w] \o events \in Seq(Events)
    BY <2>2, ConcatProperties
  <2> QED BY <2>1, <2>3 DEF ThreadEnds, supervisorVars, poolVars, requestVars, closeVars
<1>12. ASSUME NEW s \in Slots, RecycleDone(s)
      PROVE  TypeOK'
  BY <1>12 DEF RecycleDone, Forget, requestVars, closeVars
<1>13. ASSUME NEW s \in Slots, WorkTimeout(s)
      PROVE  TypeOK'
  BY <1>13, FinishTyped, SettleTyped, RecycleTyped DEF WorkTimeout, closeVars
<1>14. CASE Close
  BY <1>14 DEF Close, Settle, poolVars, threadVars
<1>15. CASE CloseSlot
  <2>1. closing \in Slots
    BY <1>15 DEF CloseSlot, CloseRuns
  <2> QED BY <1>15, <2>1, FinishTyped, SettleTyped, TerminateTyped DEF CloseSlot
<1>16. CASE CloseRecycled
  <2>1. closing \in Slots
    BY <1>16 DEF CloseRecycled, CloseRuns
  <2> QED BY <1>16, <2>1, TerminateTyped DEF CloseRecycled, requestVars
<1>17. CASE CloseTerminated
  <2>1. closing + 1 \in 0 .. PoolSize + 1
    BY <1>17 DEF CloseTerminated, CloseRuns, Slots
  <2> QED BY <1>17, <2>1 DEF CloseTerminated, Forget, poolVars, requestVars
<1>18. CASE UNCHANGED vars
  BY <1>18 DEF vars
<1> QED
  BY <1>1, <1>2, <1>3, <1>4, <1>5, <1>6, <1>7, <1>8, <1>9, <1>10, <1>11, <1>12, <1>13, <1>14,
     <1>15, <1>16, <1>17, <1>18 DEF Next, Start, CloseStep, WorkerError, WorkerExit
--------------------------------------------------------------------------
(* Slots, threads and close() *)

\* An active request is at the slot's worker, a worker runs or ends by itself,
\* and one that is recycled was told to stop.
SlotOK(s) ==
    /\ active[s] # None => worker[s] # None /\ on[active[s]] = worker[s]
    /\ worker[s] # None =>
          /\ recycling[s] = None
          /\ slotOf[worker[s]] = s /\ thread[worker[s]] \in {"alive", "ended"}
    /\ recycling[s] # None =>
          slotOf[recycling[s]] = s /\ thread[recycling[s]] \in {"stopping", "ended"}

\* A request is active in one slot at most, and `on` only while it is active.
ActiveOnce ==
    /\ \A s, t \in Slots : active[s] # None /\ active[s] = active[t] => s = t
    /\ \A r \in Requests : on[r] # None => \E s \in Slots : active[s] = r

\* Every thread, an ended one included, is somebody's.
ThreadOK(w) ==
    /\ thread[w] # "unborn" =>
          /\ slotOf[w] \in Slots
          /\ w \in {worker[slotOf[w]], recycling[slotOf[w]], terminating}
    /\ thread[w] = "unborn" => outbox[w] = <<>>
    /\ inbox[w] # <<>> => thread[w] \in {"alive", "stopping"}

\* The slots behind close() are empty, and what it awaits is in its slot.
CloseOK ==
    /\ terminating # None <=> awaiting = "terminate"
    /\ awaiting # "nothing" => closing \in Slots /\ active[closing] = None
    /\ awaiting = "terminate" =>
          /\ worker[closing] = None /\ recycling[closing] = None
          /\ slotOf[terminating] = closing /\ thread[terminating] \in {"stopping", "ended"}
    /\ closing # 0 => queue = <<>>
    /\ \A s \in Slots : s < closing => active[s] = None /\ worker[s] = None /\ recycling[s] = None

\* A waiting request waits once and is not active.
WaitingOK ==
    /\ IsInjective(queue)
    /\ \A r \in Queued : r \in seen /\ \A s \in Slots : active[s] # r
    /\ \A s \in Slots : active[s] # None => active[s] \in seen

PoolInv ==
    /\ TypeOK
    /\ WaitingOK
    /\ \A s \in Slots : SlotOK(s)
    /\ ActiveOnce
    /\ \A w \in Workers : ThreadOK(w)
    /\ CloseOK

LEMMA PoolInit == Init => PoolInv
<1> SUFFICES ASSUME Init PROVE PoolInv
  OBVIOUS
<1> USE Numbers
<1>1. TypeOK
  BY TypeInit
<1>6. WaitingOK
  BY DEF Init, WaitingOK, IsInjective, Queued, Range
<1>2. \A s \in Slots : SlotOK(s)
  BY DEF Init, SlotOK
<1>3. ActiveOnce
  BY DEF Init, ActiveOnce
<1>4. \A w \in Workers : ThreadOK(w)
  BY DEF Init, ThreadOK
<1>5. CloseOK
  BY DEF Init, CloseOK
<1> QED BY <1>1, <1>2, <1>3, <1>4, <1>5, <1>6 DEF PoolInv

\* The owner of a worker is the slot it was made for.
LEMMA Owners ==
    ASSUME PoolInv, NEW w \in Workers, thread[w] # "unborn"
    PROVE  /\ \A s \in Slots : worker[s] = w \/ recycling[s] = w => s = slotOf[w]
           /\ terminating = w => slotOf[w] = closing
BY Numbers DEF PoolInv, SlotOK, CloseOK, TypeOK

\* The head of a queue that is not empty waits nowhere else.
LEMMA HeadWaits ==
    ASSUME PoolInv, queue # <<>>
    PROVE  /\ Head(queue) \in Requests /\ Head(queue) \in Queued
           /\ Range(Tail(queue)) = Queued \ {Head(queue)}
           /\ IsInjective(Tail(queue))
BY HeadTaken DEF PoolInv, TypeOK, WaitingOK, Queued

\* The head of the queue becomes active at the first idle slot, on its worker or a new one.
LEMMA PoolDispatch ==
    ASSUME PoolInv, Dispatch, TypeOK'
    PROVE  PoolInv'
<1> USE Numbers DEF PoolInv
<1>1. PICK r \in Requests, s \in Slots, w \in Workers :
        /\ r = Head(queue) /\ queue # <<>> /\ queue' = Tail(queue) /\ closing = 0
        /\ active[s] = None /\ recycling[s] = None
        /\ Ensured(s, w)
        /\ worker' = [worker EXCEPT ![s] = w]
        /\ thread' = [thread EXCEPT ![w] = IF @ = "unborn" THEN "alive" ELSE @]
        /\ active' = [active EXCEPT ![s] = r]
        /\ on' = [on EXCEPT ![r] = w]
        /\ inbox' = IF thread[w] = "ended" THEN inbox ELSE [inbox EXCEPT ![w] = Append(@, r)]
        /\ UNCHANGED <<recycling, closing, awaiting, terminating, outbox, seen>>
  BY HeadTailProperties DEF Dispatch, CanStart, TakeHead, FirstIdle, IdleSlots, Closed, closeVars, TypeOK
<1>2. /\ slotOf' = [slotOf EXCEPT ![w] = s]
      /\ worker[s] = w \/ (worker[s] = None /\ thread[w] = "unborn")
  BY <1>1 DEF Ensured
<1>3. /\ terminating = None /\ awaiting = "nothing"
      /\ r \in Queued /\ \A t \in Slots : active[t] # r
  BY <1>1, HeadWaits DEF CloseOK, WaitingOK
<1>4. WaitingOK'
  <2>1. Queued' = Queued \ {r} /\ IsInjective(queue')
    BY <1>1, HeadWaits DEF Queued
  <2> QED BY <1>1, <1>3, <2>1 DEF WaitingOK, TypeOK
<1>5. \A v \in Workers : thread'[v] = IF v = w /\ thread[w] = "unborn" THEN "alive" ELSE thread[v]
  BY <1>1 DEF TypeOK
<1>6. ASSUME NEW t \in Slots, t # s
      PROVE  worker[t] # w /\ recycling[t] # w
  <2>1. CASE worker[s] = w
    BY <1>6, <2>1 DEF SlotOK
  <2>2. CASE thread[w] = "unborn"
    BY <2>2 DEF SlotOK
  <2> QED BY <1>2, <2>1, <2>2
<1>7. SlotOK(s)'
  BY <1>1, <1>2, <1>5 DEF SlotOK, TypeOK
<1>8. ASSUME NEW t \in Slots, t # s
      PROVE  SlotOK(t)'
  <2>1. worker'[t] = worker[t] /\ active'[t] = active[t] /\ recycling'[t] = recycling[t]
    BY <1>1, <1>8 DEF TypeOK
  <2>2. active[t] # None => on'[active[t]] = on[active[t]]
    BY <1>1, <1>3 DEF TypeOK
  <2>3. \A v \in Workers : v # w => slotOf'[v] = slotOf[v] /\ thread'[v] = thread[v]
    BY <1>2, <1>5 DEF TypeOK
  <2>4. worker[t] # w /\ recycling[t] # w
    BY <1>6, <1>8
  <2>5. worker[t] \in Workers \cup {None} /\ recycling[t] \in Workers \cup {None}
    BY DEF TypeOK
  <2> QED BY <1>8, <2>1, <2>2, <2>3, <2>4, <2>5 DEF SlotOK
<1>9. ActiveOnce'
  BY <1>1, <1>3 DEF ActiveOnce, TypeOK
<1>10. ASSUME NEW v \in Workers
       PROVE  ThreadOK(v)'
  <2>1. CASE v = w
    BY <1>1, <1>2, <1>5, <2>1 DEF ThreadOK, TypeOK, SlotOK
  <2>2. CASE v # w
    BY <1>1, <1>2, <1>3, <1>5, <2>2 DEF ThreadOK, TypeOK
  <2> QED BY <2>1, <2>2
<1>11. CloseOK'
  BY <1>1, <1>3 DEF CloseOK, Slots
<1> QED BY <1>4, <1>7, <1>8, <1>9, <1>10, <1>11

\* What does not touch the slots, the threads or close() keeps the invariant if it
\* keeps the queue in order.
LEMMA PoolKept ==
    ASSUME PoolInv, TypeOK', WaitingOK', closing # 0 => queue' = <<>>,
           UNCHANGED <<active, worker, recycling, on, closing, awaiting, terminating, thread, slotOf>>,
           \A w \in Workers : ThreadOK(w)'
    PROVE  PoolInv'
<1>1. \A s \in Slots : SlotOK(s)'
  BY DEF PoolInv, SlotOK
<1>2. ActiveOnce' /\ CloseOK'
  BY DEF PoolInv, ActiveOnce, CloseOK
<1> QED BY <1>1, <1>2 DEF PoolInv

\* What only changes the queue, the timers and the promises.
LEMMA PoolQueue ==
    ASSUME PoolInv, TypeOK',
           \/ \E r \in Requests : Enqueue(r) \/ QueueTimeout(r) \/ Abort(r)
           \/ SpawnFails \/ NothingToStart
    PROVE  PoolInv'
<1> USE Numbers DEF PoolInv
<1>1. ASSUME UNCHANGED threadVars, UNCHANGED poolVars, UNCHANGED closeVars, WaitingOK',
             closing # 0 => queue' = <<>>
      PROVE  PoolInv'
  BY <1>1, PoolKept DEF poolVars, closeVars, threadVars, ThreadOK
<1>2. ASSUME UNCHANGED <<queue, active>>, seen \subseteq seen'
      PROVE  WaitingOK'
  BY <1>2 DEF WaitingOK, Queued
<1>3. ASSUME NEW r \in Requests, Enqueue(r)
      PROVE  PoolInv'
  <2>1. UNCHANGED <<poolVars, closeVars, threadVars>> /\ seen' = seen \cup {r} /\ r \notin seen
    BY <1>3 DEF Enqueue
  <2>2. CASE Refuse(r) \/ AbortedEarly(r)
    BY <1>1, <1>2, <2>1, <2>2 DEF Refuse, AbortedEarly, poolVars, CloseOK
  <2>3. CASE Accept(r)
    <3>1. closing = 0 /\ queue' = Append(queue, r) /\ r \notin Queued
      BY <2>1, <2>3 DEF Accept, Closed, WaitingOK
    <3>2. Queued' = Queued \cup {r} /\ IsInjective(queue')
      BY <3>1, Appended DEF Queued, TypeOK, WaitingOK
    <3>3. WaitingOK'
      BY <2>1, <3>2 DEF WaitingOK, poolVars
    <3> QED BY <1>1, <2>1, <3>1, <3>3
  <2> QED BY <1>3, <2>2, <2>3 DEF Enqueue
<1>4. ASSUME NEW r \in Requests, Dequeue(r)
      PROVE  PoolInv'
  <2>1. PICK i \in DOMAIN queue : queue[i] = r /\ queue' = RemoveAt(queue, i)
    BY <1>4 DEF Dequeue
  <2>2. Queued' = Queued \ {r} /\ IsInjective(queue')
    BY <2>1, TakenOut DEF Queued, TypeOK, WaitingOK
  <2>3. UNCHANGED <<poolVars, closeVars, threadVars, seen>>
    BY <1>4 DEF Dequeue
  <2>4. closing = 0
    <3>1. queue # <<>>
      BY <2>1
    <3> QED BY <3>1 DEF CloseOK
  <2>5. WaitingOK'
    BY <2>2, <2>3 DEF WaitingOK, poolVars
  <2> QED BY <1>1, <2>3, <2>4, <2>5
<1>5. ASSUME NEW r \in Requests, AbortActive(r)
      PROVE  PoolInv'
  BY <1>1, <1>2, <1>5 DEF AbortActive, poolVars, CloseOK
<1>6. CASE SpawnFails
  <2>1. /\ queue # <<>> /\ queue' = Tail(queue) /\ closing = 0
        /\ UNCHANGED <<poolVars, closeVars, threadVars, seen>>
    BY <1>6 DEF SpawnFails, CanStart, TakeHead, Closed
  <2>2. WaitingOK'
    BY <2>1, HeadWaits DEF WaitingOK, Queued, poolVars
  <2> QED BY <1>1, <2>1, <2>2
<1>7. CASE NothingToStart
  BY <1>1, <1>2, <1>7 DEF NothingToStart, poolVars, requestVars, CloseOK
<1> QED BY <1>3, <1>4, <1>5, <1>6, <1>7 DEF QueueTimeout, Abort

\* The worker the post failed on, a new one included, is the slot's recycling worker.
LEMMA PoolPostFails ==
    ASSUME PoolInv, PostFails, TypeOK'
    PROVE  PoolInv'
<1> USE Numbers DEF PoolInv
<1>1. PICK s \in Slots, w \in Workers :
        /\ queue # <<>> /\ queue' = Tail(queue) /\ closing = 0
        /\ active[s] = None /\ recycling[s] = None
        /\ Ensured(s, w)
        /\ worker' = [worker EXCEPT ![s] = None]
        /\ recycling' = [recycling EXCEPT ![s] = w]
        /\ thread' = [thread EXCEPT ![w] = IF @ = "ended" THEN @ ELSE "stopping"]
        /\ UNCHANGED <<active, on, closing, awaiting, terminating, inbox, outbox, seen>>
  BY DEF PostFails, CanStart, TakeHead, FirstIdle, IdleSlots, Closed, closeVars
<1>2. /\ slotOf' = [slotOf EXCEPT ![w] = s]
      /\ worker[s] = w \/ (worker[s] = None /\ thread[w] = "unborn")
  BY <1>1 DEF Ensured
<1>3. terminating = None /\ awaiting = "nothing"
  BY <1>1 DEF CloseOK
<1>4. WaitingOK'
  BY <1>1, HeadWaits DEF WaitingOK, Queued
<1>5. \A v \in Workers : thread'[v] = IF v = w /\ thread[w] # "ended" THEN "stopping" ELSE thread[v]
  BY <1>1 DEF TypeOK
<1>6. ASSUME NEW t \in Slots, t # s
      PROVE  worker[t] # w /\ recycling[t] # w
  <2>1. CASE worker[s] = w
    BY <1>6, <2>1 DEF SlotOK
  <2>2. CASE thread[w] = "unborn"
    BY <2>2 DEF SlotOK
  <2> QED BY <1>2, <2>1, <2>2
<1>7. SlotOK(s)'
  BY <1>1, <1>2, <1>5 DEF SlotOK, TypeOK
<1>8. ASSUME NEW t \in Slots, t # s
      PROVE  SlotOK(t)'
  <2>1. worker'[t] = worker[t] /\ recycling'[t] = recycling[t]
    BY <1>1, <1>8 DEF TypeOK
  <2>2. \A v \in Workers : v # w => slotOf'[v] = slotOf[v] /\ thread'[v] = thread[v]
    BY <1>2, <1>5 DEF TypeOK
  <2> QED BY <1>1, <1>6, <1>8, <2>1, <2>2 DEF SlotOK, TypeOK
<1>9. ActiveOnce'
  BY <1>1 DEF ActiveOnce
<1>10. ASSUME NEW v \in Workers
       PROVE  ThreadOK(v)'
  <2>1. CASE v = w
    BY <1>1, <1>2, <1>5, <2>1 DEF ThreadOK, TypeOK, SlotOK
  <2>2. CASE v # w
    <3>1. slotOf'[v] = slotOf[v] /\ thread'[v] = thread[v]
      BY <1>2, <1>5, <2>2 DEF TypeOK
    <3>2. ASSUME slotOf[v] = s
          PROVE  thread[v] = "unborn"
      BY <1>1, <1>2, <1>3, <2>2, <3>2 DEF ThreadOK
    <3>3. slotOf[v] # s => worker'[slotOf[v]] = worker[slotOf[v]] /\ recycling'[slotOf[v]] = recycling[slotOf[v]]
      BY <1>1 DEF TypeOK
    <3> QED BY <1>1, <3>1, <3>2, <3>3 DEF ThreadOK
  <2> QED BY <2>1, <2>2
<1>11. CloseOK'
  BY <1>1, <1>3 DEF CloseOK, Slots
<1> QED BY <1>4, <1>7, <1>8, <1>9, <1>10, <1>11

\* The slot's active request, if there is one, is finished and its worker recycled.
LEMMA PoolRecycled ==
    ASSUME PoolInv, TypeOK', NEW s \in Slots, NEW w \in Workers, worker[s] = w,
           \/ active[s] = None /\ UNCHANGED <<active, on>>
           \/ active[s] # None /\ Finish(s, active[s]),
           Recycle(s, w),
           UNCHANGED <<queue, seen, closing, awaiting, terminating, slotOf, inbox>>,
           \A v \in Workers : thread[v] = "unborn" => outbox'[v] = <<>>
    PROVE  PoolInv'
<1> USE Numbers DEF PoolInv
<1>1. /\ recycling[s] = None /\ slotOf[w] = s /\ thread[w] \in {"alive", "ended"}
  BY DEF SlotOK
<1>2. /\ worker' = [worker EXCEPT ![s] = None]
      /\ recycling' = [recycling EXCEPT ![s] = w]
      /\ \A v \in Workers : thread'[v] = IF v = w /\ thread[w] = "alive" THEN "stopping" ELSE thread[v]
  BY <1>1 DEF Recycle, Stop, TypeOK
<1>3. /\ active'[s] = None /\ \A t \in Slots : t # s => active'[t] = active[t]
      /\ \A t \in Slots : t # s /\ active[t] # None => on'[active[t]] = on[active[t]]
      /\ \A r \in Requests : on'[r] # None => on'[r] = on[r] /\ active[s] # r
  BY DEF Finish, ActiveOnce, TypeOK, SlotOK
<1>4. WaitingOK'
  <2>1. \A r \in Queued : r # None
    BY RangeOfSeq DEF TypeOK, Queued
  <2> QED BY <1>3, <2>1 DEF WaitingOK, Queued
<1>5. SlotOK(s)'
  BY <1>1, <1>2, <1>3 DEF SlotOK, TypeOK
<1>6. ASSUME NEW t \in Slots, t # s
      PROVE  SlotOK(t)'
  <2>1. worker[t] # w /\ recycling[t] # w
    BY <1>1, <1>6 DEF SlotOK
  <2> QED BY <1>2, <1>3, <1>6, <2>1 DEF SlotOK, TypeOK
<1>7. ActiveOnce'
  <2>1. ASSUME NEW t \in Slots, NEW u \in Slots, active'[t] # None, active'[t] = active'[u]
        PROVE  t = u
    BY <1>3, <2>1 DEF ActiveOnce
  <2>2. ASSUME NEW r \in Requests, on'[r] # None
        PROVE  \E t \in Slots : active'[t] = r
    <3>1. PICK t \in Slots : active[t] = r
      BY <1>3, <2>2 DEF ActiveOnce
    <3> QED BY <1>3, <2>2, <3>1
  <2> QED BY <2>1, <2>2 DEF ActiveOnce
<1>8. ASSUME NEW v \in Workers
      PROVE  ThreadOK(v)'
  <2>1. CASE v = w
    BY <1>1, <1>2, <2>1 DEF ThreadOK, TypeOK
  <2>2. CASE v # w
    BY <1>1, <1>2, <2>2 DEF ThreadOK, TypeOK, SlotOK
  <2> QED BY <2>1, <2>2
<1>9. CloseOK'
  <2>1. ~(s < closing)
    BY DEF CloseOK
  <2>2. awaiting = "terminate" => s # closing /\ w # terminating
    BY <1>1 DEF CloseOK
  <2>3. ASSUME NEW t \in Slots, t < closing
        PROVE  active'[t] = None /\ worker'[t] = None /\ recycling'[t] = None
    <3>1. t # s
      BY <2>1, <2>3
    <3>2. worker'[t] = worker[t] /\ recycling'[t] = recycling[t] /\ active'[t] = active[t]
      BY <1>2, <1>3, <3>1 DEF TypeOK
    <3> QED BY <2>3, <3>2 DEF CloseOK
  <2>4. ASSUME awaiting # "nothing"
        PROVE  closing \in Slots /\ active'[closing] = None
    BY <1>3, <2>4 DEF CloseOK
  <2>5. ASSUME awaiting = "terminate"
        PROVE  /\ worker'[closing] = None /\ recycling'[closing] = None
               /\ slotOf[terminating] = closing /\ thread'[terminating] \in {"stopping", "ended"}
    BY <1>2, <2>2, <2>4, <2>5 DEF CloseOK, TypeOK
  <2> QED BY <2>3, <2>4, <2>5 DEF CloseOK
<1> QED BY <1>4, <1>5, <1>6, <1>7, <1>8, <1>9

\* What a slot's worker owes ends when its request is finished.
LEMMA PoolFinished ==
    ASSUME PoolInv, TypeOK', NEW s \in Slots, active[s] # None, Finish(s, active[s]),
           UNCHANGED <<queue, worker, recycling, seen, closing, awaiting, terminating, thread, slotOf, inbox>>,
           \A v \in Workers : thread[v] = "unborn" => outbox'[v] = <<>>
    PROVE  PoolInv'
<1> USE Numbers DEF PoolInv
<1>1. /\ active'[s] = None /\ \A t \in Slots : t # s => active'[t] = active[t]
      /\ \A t \in Slots : t # s /\ active[t] # None => on'[active[t]] = on[active[t]]
      /\ \A r \in Requests : on'[r] # None => on'[r] = on[r] /\ active[s] # r
  BY DEF Finish, ActiveOnce, TypeOK, SlotOK
<1>2. WaitingOK'
  <2>1. \A r \in Queued : r # None
    BY RangeOfSeq DEF TypeOK, Queued
  <2> QED BY <1>1, <2>1 DEF WaitingOK, Queued
<1>3. ASSUME NEW t \in Slots
      PROVE  SlotOK(t)'
  BY <1>1 DEF SlotOK
<1>4. ActiveOnce'
  <2>1. ASSUME NEW t \in Slots, NEW u \in Slots, active'[t] # None, active'[t] = active'[u]
        PROVE  t = u
    BY <1>1, <2>1 DEF ActiveOnce
  <2>2. ASSUME NEW r \in Requests, on'[r] # None
        PROVE  \E t \in Slots : active'[t] = r
    <3>1. PICK t \in Slots : active[t] = r
      BY <1>1, <2>2 DEF ActiveOnce
    <3> QED BY <1>1, <2>2, <3>1
  <2> QED BY <2>1, <2>2 DEF ActiveOnce
<1>5. \A v \in Workers : ThreadOK(v)'
  BY DEF ThreadOK
<1>6. CloseOK'
  <2>1. \A t \in Slots : active[t] = None => active'[t] = None
    BY <1>1
  <2> QED BY <2>1 DEF CloseOK
<1> QED BY <1>2, <1>3, <1>4, <1>5, <1>6

\* A reply frees its slot; an error or exit of the slot's worker recycles it.
LEMMA PoolEvents ==
    ASSUME PoolInv, TypeOK', NEW w \in Workers,
           WorkerMessage(w) \/ \E kind : WorkerGone(w, kind)
    PROVE  PoolInv'
<1> USE Numbers DEF PoolInv
<1>1. outbox[w] # <<>> /\ TakeEvent(w)
  BY DEF WorkerMessage, WorkerGone, NextEvent
<1>2. \A v \in Workers : thread[v] = "unborn" => outbox'[v] = <<>>
  BY <1>1 DEF TakeEvent, ThreadOK, TypeOK
<1>3. slotOf[w] \in Slots
  BY <1>1 DEF ThreadOK, TypeOK
<1>4. ASSUME UNCHANGED <<queue, active, worker, recycling, on, seen, closing, awaiting, terminating,
                         thread, slotOf, inbox>>
      PROVE  PoolInv'
  <2>1. WaitingOK'
    BY <1>4 DEF WaitingOK, Queued
  <2>2. \A v \in Workers : ThreadOK(v)'
    BY <1>2, <1>4 DEF ThreadOK
  <2> QED BY <1>4, <2>1, <2>2, PoolKept DEF CloseOK
<1>5. CASE WorkerMessage(w)
  <2>1. CASE Awaited(w, Head(outbox[w]).id)
    <3>1. active[slotOf[w]] = Head(outbox[w]).id /\ Head(outbox[w]).id # None
      BY <1>1, <1>5, <2>1, EventTaken DEF Awaited, WorkerMessage, NextEvent
    <3> QED BY <1>2, <1>3, <1>5, <2>1, <3>1, PoolFinished DEF WorkerMessage, closeVars
  <2>2. CASE ~Awaited(w, Head(outbox[w]).id)
    BY <1>4, <1>5, <2>2 DEF WorkerMessage, closeVars
  <2> QED BY <2>1, <2>2
<1>6. ASSUME NEW kind, WorkerGone(w, kind)
      PROVE  PoolInv'
  <2>1. CASE Current(slotOf[w], w)
    <3>1. worker[slotOf[w]] = w
      BY <1>3, <2>1 DEF Current, SlotOK
    <3>2. active[slotOf[w]] # None => on[active[slotOf[w]]] = w
      BY <1>3, <3>1 DEF SlotOK
    <3> QED BY <1>2, <1>3, <1>6, <2>1, <3>1, <3>2, PoolRecycled DEF WorkerGone, closeVars
  <2>2. CASE ~Current(slotOf[w], w)
    BY <1>4, <1>6, <2>2 DEF WorkerGone, closeVars
  <2> QED BY <2>1, <2>2
<1> QED BY <1>5, <1>6

\* A thread replies or ends on its own.
LEMMA PoolThreads ==
    ASSUME PoolInv, TypeOK', NEW w \in Workers, Reply(w) \/ ThreadFails(w) \/ ThreadExits(w)
    PROVE  PoolInv'
<1> USE Numbers DEF PoolInv
<1>1. /\ UNCHANGED <<queue, active, worker, recycling, on, seen, closing, awaiting, terminating, slotOf>>
      /\ thread[w] \in {"alive", "stopping"}
      /\ \A v \in Workers : v # w => UNCHANGED <<thread[v], inbox[v], outbox[v]>>
      /\ \/ thread' = thread
         \/ thread'[w] = "ended" /\ inbox'[w] = <<>>
  BY DEF Reply, ThreadFails, ThreadExits, ThreadEnds, supervisorVars, poolVars, requestVars, closeVars, TypeOK
<1>2. WaitingOK'
  BY <1>1 DEF WaitingOK, Queued
<1>3. ASSUME NEW v \in Workers
      PROVE  ThreadOK(v)'
  BY <1>1 DEF ThreadOK
<1>4. ASSUME NEW v \in Workers
      PROVE  \/ thread'[v] = thread[v]
             \/ thread[v] \in {"alive", "stopping"} /\ thread'[v] = "ended"
  BY <1>1
<1>5. \A s \in Slots : SlotOK(s)'
  BY <1>1, <1>4 DEF SlotOK, TypeOK
<1>6. ActiveOnce'
  BY <1>1 DEF ActiveOnce
<1>7. CloseOK'
  BY <1>1, <1>4 DEF CloseOK, TypeOK
<1> QED BY <1>2, <1>3, <1>5, <1>6, <1>7

\* The recycled worker is forgotten when its thread is through.
LEMMA PoolRecycleDone ==
    ASSUME PoolInv, TypeOK', NEW s \in Slots, RecycleDone(s)
    PROVE  PoolInv'
<1> USE Numbers DEF PoolInv
<1>1. PICK w \in Workers :
        /\ recycling[s] = w /\ thread[w] = "ended" /\ outbox[w] = <<>> /\ slotOf[w] = s
        /\ thread' = [thread EXCEPT ![w] = "unborn"]
        /\ slotOf' = [slotOf EXCEPT ![w] = None]
        /\ recycling' = [recycling EXCEPT ![s] = None]
        /\ UNCHANGED <<queue, active, worker, on, seen, closing, awaiting, terminating, inbox, outbox>>
  <2>1. recycling[s] \in Workers /\ slotOf[recycling[s]] = s
    BY DEF RecycleDone, TypeOK, SlotOK
  <2> QED BY <2>1 DEF RecycleDone, Forget, Ended, requestVars, closeVars
<1>2. worker[s] = None /\ ~(awaiting = "terminate" /\ closing = s)
  BY <1>1 DEF SlotOK, CloseOK
<1>3. WaitingOK'
  BY <1>1 DEF WaitingOK, Queued
<1>4. ASSUME NEW t \in Slots
      PROVE  SlotOK(t)'
  <2>1. CASE t = s
    BY <1>1, <1>2, <2>1 DEF SlotOK, TypeOK
  <2>2. CASE t # s
    <3>1. worker[t] # w /\ recycling[t] # w
      BY <1>1, <2>2 DEF SlotOK
    <3> QED BY <1>1, <2>2, <3>1 DEF SlotOK, TypeOK
  <2> QED BY <2>1, <2>2
<1>5. ActiveOnce'
  BY <1>1 DEF ActiveOnce
<1>6. ASSUME NEW v \in Workers
      PROVE  ThreadOK(v)'
  <2>1. CASE v = w
    BY <1>1, <2>1 DEF ThreadOK, TypeOK
  <2>2. CASE v # w
    BY <1>1, <2>2 DEF ThreadOK, TypeOK
  <2> QED BY <2>1, <2>2
<1>7. CloseOK'
  <2>1. awaiting = "terminate" => terminating # w
    BY <1>1, <1>2 DEF CloseOK
  <2>2. \A t \in Slots : recycling[t] = None => recycling'[t] = None
    BY <1>1 DEF TypeOK
  <2>3. \A v \in Workers : v # w => thread'[v] = thread[v] /\ slotOf'[v] = slotOf[v]
    BY <1>1 DEF TypeOK
  <2> QED BY <1>1, <2>1, <2>2, <2>3 DEF CloseOK, TypeOK
<1> QED BY <1>3, <1>4, <1>5, <1>6, <1>7

LEMMA PoolWorkTimeout ==
    ASSUME PoolInv, TypeOK', NEW s \in Slots, WorkTimeout(s)
    PROVE  PoolInv'
<1> USE Numbers DEF PoolInv
<1>1. active[s] # None /\ worker[s] # None /\ on[active[s]] = worker[s] /\ worker[s] \in Workers
  BY DEF WorkTimeout, SlotOK, TypeOK
<1>2. \A v \in Workers : thread[v] = "unborn" => outbox'[v] = <<>>
  BY DEF WorkTimeout, ThreadOK
<1> QED BY <1>1, <1>2, PoolRecycled DEF WorkTimeout, closeVars

LEMMA PoolClose ==
    ASSUME PoolInv, TypeOK', Close
    PROVE  PoolInv'
<1> USE Numbers DEF PoolInv
<1>1. /\ closing = 0 /\ closing' = 1 /\ queue' = <<>>
      /\ UNCHANGED <<active, worker, recycling, on, awaiting, terminating, thread, slotOf, inbox, outbox, seen>>
  BY DEF Close, poolVars, threadVars
<1>2. awaiting = "nothing"
  BY <1>1 DEF CloseOK, TypeOK, Slots
<1>3. WaitingOK'
  BY <1>1 DEF WaitingOK, Queued, Range, IsInjective
<1>4. (\A s \in Slots : SlotOK(s)') /\ ActiveOnce' /\ (\A w \in Workers : ThreadOK(w)')
  BY <1>1 DEF SlotOK, ActiveOnce, ThreadOK
<1>5. CloseOK'
  BY <1>1, <1>2 DEF CloseOK, Slots
<1> QED BY <1>3, <1>4, <1>5

\* A slot's turn in the loop of close(): its worker, if any, is told to end.
LEMMA PoolTurn ==
    ASSUME PoolInv, TypeOK', closing \in Slots, awaiting # "terminate",
           active'[closing] = None,
           \A t \in Slots : t # closing => active'[t] = active[t],
           \A t \in Slots : t # closing /\ active[t] # None => on'[active[t]] = on[active[t]],
           \A r \in Requests : on'[r] # None => on'[r] = on[r] /\ active[closing] # r,
           recycling[closing] = None, TerminateWorker(closing),
           UNCHANGED <<queue, recycling, seen, slotOf, inbox, outbox>>
    PROVE  PoolInv'
<1> USE Numbers DEF PoolInv
<1>1. /\ queue = <<>> /\ terminating = None
      /\ \A s \in Slots : s < closing => active[s] = None /\ worker[s] = None /\ recycling[s] = None
  BY DEF CloseOK
<1>2. WaitingOK'
  BY <1>1 DEF WaitingOK, Queued, Range
<1>3. ActiveOnce'
  <2>1. ASSUME NEW t \in Slots, NEW u \in Slots, active'[t] # None, active'[t] = active'[u]
        PROVE  t = u
    BY <2>1 DEF ActiveOnce
  <2>2. ASSUME NEW r \in Requests, on'[r] # None
        PROVE  \E t \in Slots : active'[t] = r
    <3>1. PICK t \in Slots : active[t] = r
      BY <2>2 DEF ActiveOnce
    <3> QED BY <2>2, <3>1
  <2> QED BY <2>1, <2>2 DEF ActiveOnce
<1>4. CASE worker[closing] = None
  <2>1. /\ closing' = closing + 1 /\ awaiting' = "nothing"
        /\ UNCHANGED <<worker, terminating, thread>>
    BY <1>4 DEF TerminateWorker
  <2>2. ASSUME NEW t \in Slots
        PROVE  SlotOK(t)'
    BY <1>4, <2>1 DEF SlotOK
  <2>3. \A w \in Workers : ThreadOK(w)'
    BY <2>1 DEF ThreadOK
  <2>4. CloseOK'
    <3>1. ASSUME NEW s \in Slots, s < closing + 1
          PROVE  active'[s] = None /\ worker[s] = None /\ recycling[s] = None
      <4>1. s < closing \/ s = closing
        BY <3>1 DEF Slots
      <4> QED BY <1>1, <1>4, <4>1 DEF Slots
    <3>2. closing + 1 # 0
      BY DEF Slots
    <3> QED BY <1>1, <2>1, <3>1, <3>2 DEF CloseOK
  <2> QED BY <1>2, <1>3, <2>2, <2>3, <2>4
<1>5. CASE worker[closing] # None
  <2>1. PICK w \in Workers :
          /\ w = worker[closing] /\ terminating' = w /\ awaiting' = "terminate" /\ closing' = closing
          /\ worker' = [worker EXCEPT ![closing] = None]
          /\ \A v \in Workers : thread'[v] = IF v = w /\ thread[w] = "alive" THEN "stopping" ELSE thread[v]
          /\ slotOf[w] = closing /\ thread[w] \in {"alive", "ended"}
    <3>1. worker[closing] \in Workers /\ slotOf[worker[closing]] = closing
             /\ thread[worker[closing]] \in {"alive", "ended"}
      BY <1>5 DEF TypeOK, SlotOK
    <3> QED BY <1>5, <3>1 DEF TerminateWorker, Stop, TypeOK
  <2>2. ASSUME NEW t \in Slots
        PROVE  SlotOK(t)'
    <3>1. CASE t = closing
      BY <2>1, <3>1 DEF SlotOK, TypeOK
    <3>2. CASE t # closing
      <4>1. worker[t] # w /\ recycling[t] # w /\ worker'[t] = worker[t]
        BY <2>1, <3>2 DEF SlotOK, TypeOK
      <4>2. worker[t] \in Workers \cup {None} /\ recycling[t] \in Workers \cup {None}
        BY DEF TypeOK
      <4> QED BY <2>1, <3>2, <4>1, <4>2 DEF SlotOK
    <3> QED BY <3>1, <3>2
  <2>3. ASSUME NEW v \in Workers
        PROVE  ThreadOK(v)'
    <3>1. CASE v = w
      BY <2>1, <3>1 DEF ThreadOK, TypeOK
    <3>2. CASE v # w
      BY <1>1, <2>1, <3>2 DEF ThreadOK, TypeOK
    <3> QED BY <3>1, <3>2
  <2>4. CloseOK'
    <3>1. ASSUME NEW s \in Slots, s < closing
          PROVE  active'[s] = None /\ worker'[s] = None /\ recycling[s] = None
      <4>1. s # closing
        BY <3>1 DEF Slots
      <4> QED BY <1>1, <2>1, <3>1, <4>1 DEF TypeOK
    <3>2. worker'[closing] = None /\ thread'[w] \in {"stopping", "ended"}
      BY <2>1 DEF TypeOK
    <3> QED BY <1>1, <2>1, <3>1, <3>2 DEF CloseOK
  <2> QED BY <1>2, <1>3, <2>2, <2>3, <2>4
<1> QED BY <1>4, <1>5

LEMMA PoolCloseSlot ==
    ASSUME PoolInv, TypeOK', CloseSlot
    PROVE  PoolInv'
<1> USE Numbers DEF PoolInv
<1>1. /\ closing \in Slots /\ awaiting = "nothing"
      /\ UNCHANGED <<queue, recycling, seen, slotOf, inbox, outbox>>
  BY DEF CloseSlot, CloseRuns
<1>2. /\ active'[closing] = None
      /\ \A t \in Slots : t # closing => active'[t] = active[t]
      /\ \A t \in Slots : t # closing /\ active[t] # None => on'[active[t]] = on[active[t]]
      /\ \A r \in Requests : on'[r] # None => on'[r] = on[r] /\ active[closing] # r
  <2>1. CASE active[closing] = None
    BY <1>1, <2>1 DEF CloseSlot
  <2>2. CASE active[closing] # None
    <3>1. Finish(closing, active[closing])
      BY <1>1, <2>2 DEF CloseSlot
    <3> QED BY <1>1, <2>2, <3>1 DEF Finish, ActiveOnce, TypeOK
  <2> QED BY <2>1, <2>2
<1>3. CASE recycling[closing] = None
  BY <1>1, <1>2, <1>3, PoolTurn DEF CloseSlot
<1>4. CASE recycling[closing] # None
  <2>1. awaiting' = "recycling" /\ UNCHANGED <<closing, terminating, worker, thread>>
    BY <1>4 DEF CloseSlot
  <2>2. active[closing] = None
    BY <1>1, <1>4 DEF SlotOK
  <2>3. UNCHANGED <<active, on>>
    BY <2>2 DEF CloseSlot
  <2>4. WaitingOK' /\ ActiveOnce'
    BY <1>1, <2>3 DEF WaitingOK, Queued, ActiveOnce
  <2>5. (\A s \in Slots : SlotOK(s)') /\ (\A w \in Workers : ThreadOK(w)')
    BY <1>1, <2>1, <2>3 DEF SlotOK, ThreadOK
  <2>6. CloseOK'
    BY <1>1, <2>1, <2>2, <2>3 DEF CloseOK
  <2> QED BY <2>4, <2>5, <2>6
<1> QED BY <1>3, <1>4

LEMMA PoolCloseRecycled ==
    ASSUME PoolInv, TypeOK', CloseRecycled
    PROVE  PoolInv'
<1> USE Numbers DEF PoolInv
<1>1. /\ closing \in Slots /\ awaiting = "recycling" /\ recycling[closing] = None
      /\ TerminateWorker(closing)
      /\ UNCHANGED <<queue, active, recycling, on, seen, slotOf, inbox, outbox>>
  BY DEF CloseRecycled, CloseRuns, requestVars
<1>2. active[closing] = None
  BY <1>1 DEF CloseOK
<1> QED BY <1>1, <1>2, PoolTurn

LEMMA PoolCloseTerminated ==
    ASSUME PoolInv, TypeOK', CloseTerminated
    PROVE  PoolInv'
<1> USE Numbers DEF PoolInv
<1>1. PICK w \in Workers :
        /\ terminating = w /\ closing \in Slots /\ awaiting = "terminate"
        /\ thread[w] = "ended" /\ outbox[w] = <<>> /\ slotOf[w] = closing
        /\ thread' = [thread EXCEPT ![w] = "unborn"]
        /\ slotOf' = [slotOf EXCEPT ![w] = None]
        /\ closing' = closing + 1 /\ awaiting' = "nothing" /\ terminating' = None
        /\ UNCHANGED <<queue, active, worker, recycling, on, seen, inbox, outbox>>
  <2>1. terminating \in Workers /\ slotOf[terminating] = closing
    BY DEF CloseTerminated, CloseOK, TypeOK
  <2> QED BY <2>1 DEF CloseTerminated, CloseRuns, Forget, Ended, poolVars, requestVars
<1>2. worker[closing] = None /\ recycling[closing] = None /\ active[closing] = None
  BY <1>1 DEF CloseOK
<1>3. WaitingOK' /\ ActiveOnce'
  BY <1>1 DEF WaitingOK, Queued, ActiveOnce
<1>4. ASSUME NEW t \in Slots
      PROVE  SlotOK(t)'
  <2>1. worker[t] # w /\ recycling[t] # w
    BY <1>1, <1>2 DEF SlotOK
  <2>2. worker[t] \in Workers \cup {None} /\ recycling[t] \in Workers \cup {None}
    BY DEF TypeOK
  <2> QED BY <1>1, <2>1, <2>2 DEF SlotOK, TypeOK
<1>5. ASSUME NEW v \in Workers
      PROVE  ThreadOK(v)'
  <2>1. CASE v = w
    BY <1>1, <2>1 DEF ThreadOK, TypeOK
  <2>2. CASE v # w
    BY <1>1, <2>2 DEF ThreadOK, TypeOK
  <2> QED BY <2>1, <2>2
<1>6. CloseOK'
  <2>1. ASSUME NEW s \in Slots, s < closing + 1
        PROVE  active[s] = None /\ worker[s] = None /\ recycling[s] = None
    <3>1. s < closing \/ s = closing
      BY <1>1, <2>1 DEF Slots
    <3> QED BY <1>2, <3>1 DEF CloseOK
  <2>2. closing # 0 /\ closing + 1 # 0
    BY <1>1 DEF Slots
  <2> QED BY <1>1, <2>1, <2>2 DEF CloseOK
<1> QED BY <1>3, <1>4, <1>5, <1>6

\* One case per action.
LEMMA PoolInductive ==
    ASSUME PoolInv, [Next]_vars
    PROVE  PoolInv'
<1>1. TypeOK'
  BY TypeInductive DEF PoolInv
<1>2. CASE UNCHANGED vars
  <2>1. WaitingOK' /\ \A w \in Workers : ThreadOK(w)'
    BY <1>2 DEF vars, PoolInv, WaitingOK, Queued, ThreadOK
  <2> QED BY <1>1, <1>2, <2>1, PoolKept DEF vars, PoolInv, CloseOK
<1> QED
  BY <1>1, <1>2, PoolQueue, PoolDispatch, PoolPostFails, PoolEvents, PoolThreads, PoolRecycleDone,
     PoolWorkTimeout, PoolClose, PoolCloseSlot, PoolCloseRecycled, PoolCloseTerminated
     DEF Next, Start, CloseStep, WorkerError, WorkerExit
--------------------------------------------------------------------------
(* What a slot's worker owes *)

\* At most one answer is under way: the request is in its inbox, or the reply in
\* its outbox before everything else, or the thread has ended without one.
OwedOK(s) ==
    worker[s] # None =>
        LET w == worker[s] IN
        /\ inbox[w] # <<>> => active[s] # None /\ inbox[w] = <<active[s]>>
        /\ \A i \in DOMAIN outbox[w] : outbox[w][i].kind = "message" =>
              i = 1 /\ outbox[w][i].id = active[s] /\ inbox[w] = <<>>
        /\ thread[w] = "alive" => \A i \in DOMAIN outbox[w] : outbox[w][i].kind = "message"

OwedInv == PoolInv /\ \A s \in Slots : OwedOK(s)

\* A slot without a worker owes nothing; one nothing happens to owes what it did.
LEMMA OwedKept ==
    ASSUME NEW s \in Slots, OwedOK(s),
           worker'[s] = None \/
              /\ worker'[s] = worker[s] /\ active'[s] = active[s]
              /\ UNCHANGED <<inbox[worker[s]], outbox[worker[s]], thread[worker[s]]>>
    PROVE  OwedOK(s)'
BY DEF OwedOK

\* A reply names a request.
LEMMA MessageIds ==
    ASSUME TypeOK, NEW w \in Workers, NEW i \in DOMAIN outbox[w], outbox[w][i].kind = "message"
    PROVE  outbox[w][i].id \in Requests /\ outbox[w][i].id # None
<1>1. outbox[w][i] \in Events
  BY LenProperties, ElementOfSeq DEF TypeOK
<1> QED BY <1>1, Numbers DEF Events, Event

\* The idle slot's worker owed nothing, so it owes the request just posted.
LEMMA OwedDispatch ==
    ASSUME OwedInv, Dispatch, NEW s \in Slots
    PROVE  OwedOK(s)'
<1> USE Numbers DEF OwedInv, PoolInv
<1>1. PICK r \in Requests, t \in Slots, w \in Workers :
        /\ active[t] = None
        /\ Ensured(t, w)
        /\ worker' = [worker EXCEPT ![t] = w]
        /\ thread' = [thread EXCEPT ![w] = IF @ = "unborn" THEN "alive" ELSE @]
        /\ active' = [active EXCEPT ![t] = r]
        /\ inbox' = IF thread[w] = "ended" THEN inbox ELSE [inbox EXCEPT ![w] = Append(@, r)]
        /\ outbox' = outbox
  BY HeadTailProperties DEF Dispatch, CanStart, TakeHead, FirstIdle, IdleSlots, TypeOK
<1>2. worker[t] = w \/ (worker[t] = None /\ thread[w] = "unborn")
  BY <1>1 DEF Ensured
<1>3. inbox[w] = <<>> /\ \A i \in DOMAIN outbox[w] : outbox[w][i].kind # "message"
  <2>1. CASE worker[t] = w
    BY <1>1, <2>1, MessageIds DEF OwedOK, SlotOK
  <2>2. CASE thread[w] = "unborn"
    BY <2>2 DEF ThreadOK
  <2> QED BY <1>2, <2>1, <2>2
<1>4. CASE s = t
  <2>1. worker'[s] = w /\ active'[s] = r /\ inbox'[w] \in {<<>>, <<r>>} /\ r # None
    BY <1>1, <1>3, <1>4 DEF TypeOK
  <2>2. thread'[w] = "alive" => \A i \in DOMAIN outbox[w] : outbox[w][i].kind = "message"
    <3>1. CASE worker[t] = w
      BY <1>1, <3>1 DEF OwedOK, SlotOK, TypeOK
    <3>2. CASE thread[w] = "unborn"
      BY <3>2 DEF ThreadOK
    <3> QED BY <1>2, <3>1, <3>2
  <2> QED BY <1>1, <1>3, <2>1, <2>2 DEF OwedOK
<1>5. CASE s # t
  <2>1. worker[s] # w
    BY <1>2, <1>5 DEF SlotOK
  <2>2. worker[s] \in Workers \cup {None}
    BY DEF TypeOK
  <2> QED BY <1>1, <1>5, <2>1, <2>2, OwedKept DEF TypeOK
<1> QED BY <1>4, <1>5

\* The answer taken from the outbox was the only one.
LEMMA OwedEvents ==
    ASSUME OwedInv, NEW w \in Workers, NEW s \in Slots,
           WorkerMessage(w) \/ WorkerError(w) \/ WorkerExit(w)
    PROVE  OwedOK(s)'
<1> USE Numbers DEF OwedInv, PoolInv
<1>1. outbox[w] # <<>> /\ outbox' = [outbox EXCEPT ![w] = Tail(@)] /\ UNCHANGED inbox
  BY DEF WorkerMessage, WorkerError, WorkerExit, WorkerGone, NextEvent, TakeEvent
<1>2. slotOf[w] \in Slots /\ thread[w] # "unborn"
  BY <1>1 DEF ThreadOK, TypeOK
<1>3. worker[s] \in Workers \cup {None} /\ (worker[s] = w => s = slotOf[w])
  BY DEF TypeOK, SlotOK
<1>4. CASE WorkerMessage(w)
  <2>1. /\ Head(outbox[w]).kind = "message"
        /\ UNCHANGED <<worker, thread>>
    BY <1>4 DEF WorkerMessage, NextEvent
  <2>2. CASE worker[s] = w
    <3>1. /\ 1 \in DOMAIN outbox[w] /\ Head(outbox[w]) = outbox[w][1]
          /\ outbox[w] \in Seq(Events)
      BY <1>1, LenProperties, EmptySeq, HeadTailProperties DEF TypeOK
    <3>2. /\ Head(outbox[w]).id = active[s] /\ inbox[w] = <<>>
          /\ \A i \in DOMAIN outbox[w] : outbox[w][i].kind = "message" => i = 1
      BY <2>1, <2>2, <3>1 DEF OwedOK
    <3>3. active[s] # None /\ Awaited(w, Head(outbox[w]).id)
      BY <1>3, <2>1, <2>2, <3>1, <3>2, MessageIds DEF Awaited, SlotOK
    <3>4. active'[s] = None
      BY <1>3, <1>4, <2>2, <3>3 DEF WorkerMessage, Finish, TypeOK
    <3>5. /\ DOMAIN Tail(outbox[w]) = 1 .. Len(outbox[w]) - 1
          /\ \A i \in 1 .. Len(outbox[w]) - 1 : /\ i + 1 \in DOMAIN outbox[w] /\ i + 1 # 1
                                                /\ Tail(outbox[w])[i] = outbox[w][i + 1]
      BY <1>1, <3>1, LenProperties, HeadTailProperties
    <3>6. \A i \in DOMAIN Tail(outbox[w]) : Tail(outbox[w])[i].kind # "message"
      BY <3>2, <3>5
    <3>7. thread[w] = "alive" => DOMAIN Tail(outbox[w]) = {}
      BY <2>2, <3>2, <3>5, <3>6 DEF OwedOK
    <3>8. outbox'[w] = Tail(outbox[w])
      BY <1>1 DEF TypeOK
    <3> QED BY <1>1, <2>1, <2>2, <3>2, <3>4, <3>6, <3>7, <3>8 DEF OwedOK
  <2>3. CASE worker[s] # w
    <3>1. active'[s] = active[s] \/ worker[s] = None
      <4>1. CASE Awaited(w, Head(outbox[w]).id)
        <5>1. active[slotOf[w]] # None /\ on[active[slotOf[w]]] = w
          BY <1>1, <2>1, <4>1, EventTaken DEF Awaited, TakeEvent
        <5>2. worker[slotOf[w]] = w
          BY <1>2, <5>1 DEF SlotOK
        <5> QED BY <1>4, <2>3, <4>1, <5>2 DEF WorkerMessage, Finish, TypeOK
      <4>2. CASE ~Awaited(w, Head(outbox[w]).id)
        BY <1>4, <4>2 DEF WorkerMessage
      <4> QED BY <4>1, <4>2
    <3> QED BY <1>1, <1>3, <2>1, <2>3, <3>1, OwedKept DEF TypeOK
  <2> QED BY <2>2, <2>3
<1>5. ASSUME NEW kind, WorkerGone(w, kind)
      PROVE  OwedOK(s)'
  <2>1. CASE Current(slotOf[w], w)
    <3>1. worker[slotOf[w]] = w /\ recycling[slotOf[w]] = None
      BY <1>2, <2>1 DEF Current, SlotOK
    <3>2. /\ worker' = [worker EXCEPT ![slotOf[w]] = None]
          /\ \A v \in Workers : v # w => thread'[v] = thread[v]
          /\ \A t \in Slots : t # slotOf[w] => active'[t] = active[t]
      BY <1>2, <1>5, <2>1, <3>1 DEF WorkerGone, Recycle, Stop, Finish, TypeOK
    <3>3. s # slotOf[w] => worker[s] # w
      BY <1>3
    <3> QED BY <1>1, <1>3, <3>2, <3>3, OwedKept DEF TypeOK
  <2>2. CASE ~Current(slotOf[w], w)
    <3>1. UNCHANGED <<worker, thread, active>>
      BY <1>5, <2>2 DEF WorkerGone
    <3>2. worker[s] # w
      BY <1>2, <1>3, <2>2 DEF Current, SlotOK
    <3> QED BY <1>1, <1>3, <3>1, <3>2, OwedKept DEF TypeOK
  <2> QED BY <2>1, <2>2
<1> QED BY <1>4, <1>5 DEF WorkerError, WorkerExit

\* The only request moves from the inbox to the outbox.
LEMMA OwedReply ==
    ASSUME OwedInv, NEW w \in Workers, NEW s \in Slots, Reply(w)
    PROVE  OwedOK(s)'
<1> USE Numbers DEF OwedInv, PoolInv
<1>1. PICK how \in {"answered", "rejected"} :
        /\ thread[w] \in {"alive", "stopping"} /\ inbox[w] # <<>>
        /\ outbox' = [outbox EXCEPT ![w] = Append(@, Event("message", Head(inbox[w]), how))]
        /\ inbox' = [inbox EXCEPT ![w] = Tail(@)]
        /\ UNCHANGED <<worker, active, thread>>
  BY DEF Reply, supervisorVars, poolVars
<1>2. worker[s] \in Workers \cup {None}
  BY DEF TypeOK
<1>3. CASE worker[s] = w
  <2>1. thread[w] = "alive" /\ active[s] # None /\ inbox[w] = <<active[s]>>
    BY <1>1, <1>3 DEF OwedOK, SlotOK
  <2>2. outbox[w] = <<>>
    <3>1. DOMAIN outbox[w] = {}
      BY <1>1, <1>3, <2>1 DEF OwedOK
    <3>2. outbox[w] \in Seq(Events)
      BY DEF TypeOK
    <3>3. 1 .. Len(outbox[w]) = {} /\ Len(outbox[w]) \in Nat
      BY <3>1, <3>2, LenProperties
    <3>4. Len(outbox[w]) = 0
      BY <3>3
    <3> QED BY <3>2, <3>4, EmptySeq
  <2>3. /\ outbox'[w] = <<Event("message", active[s], how)>>
        /\ inbox'[w] = <<>>
    BY <1>1, <2>1, <2>2 DEF TypeOK
  <2>4. DOMAIN outbox'[w] = {1} /\ outbox'[w][1].kind = "message" /\ outbox'[w][1].id = active[s]
    BY <2>3 DEF Event
  <2> QED BY <1>1, <1>3, <2>3, <2>4 DEF OwedOK
<1>4. CASE worker[s] # w
  BY <1>1, <1>2, <1>4, OwedKept DEF TypeOK
<1> QED BY <1>3, <1>4

\* The events of an ending thread follow its reply and are none.
LEMMA OwedEnds ==
    ASSUME OwedInv, NEW w \in Workers, NEW s \in Slots, ThreadFails(w) \/ ThreadExits(w)
    PROVE  OwedOK(s)'
<1> USE Numbers DEF OwedInv, PoolInv
<1>1. PICK events \in {<<Event("error", None, None), Event("exit", None, None)>>,
                       <<Event("exit", None, None)>>} : ThreadEnds(w, events)
  BY DEF ThreadFails, ThreadExits
<1>2. /\ outbox' = [outbox EXCEPT ![w] = @ \o events] /\ inbox' = [inbox EXCEPT ![w] = <<>>]
      /\ thread' = [thread EXCEPT ![w] = "ended"]
      /\ UNCHANGED <<worker, active>>
  BY <1>1 DEF ThreadEnds, supervisorVars, poolVars
<1>3. worker[s] \in Workers \cup {None}
  BY DEF TypeOK
<1>4. events \in Seq(Events) /\ \A i \in DOMAIN events : events[i].kind # "message"
  <2>1. Event("error", None, None) \in Events /\ Event("exit", None, None) \in Events
    BY DEF Events
  <2>2. CASE events = <<Event("error", None, None), Event("exit", None, None)>>
    BY <2>1, <2>2 DEF Event
  <2>3. CASE events = <<Event("exit", None, None)>>
    BY <2>1, <2>3 DEF Event
  <2> QED BY <2>2, <2>3
<1>5. CASE worker[s] = w
  <2>1. /\ outbox'[w] = outbox[w] \o events /\ inbox'[w] = <<>> /\ thread'[w] = "ended"
    BY <1>2 DEF TypeOK
  <2>2. ASSUME NEW i \in DOMAIN (outbox[w] \o events), (outbox[w] \o events)[i].kind = "message"
        PROVE  i \in DOMAIN outbox[w] /\ (outbox[w] \o events)[i] = outbox[w][i]
    <3>1. outbox[w] \in Seq(Events)
      BY DEF TypeOK
    <3>2. /\ i \in 1 .. Len(outbox[w]) + Len(events) /\ Len(outbox[w]) \in Nat /\ Len(events) \in Nat
          /\ (outbox[w] \o events)[i] =
                IF i <= Len(outbox[w]) THEN outbox[w][i] ELSE events[i - Len(outbox[w])]
          /\ DOMAIN events = 1 .. Len(events) /\ DOMAIN outbox[w] = 1 .. Len(outbox[w])
      BY <1>4, <2>2, <3>1, ConcatProperties, LenProperties
    <3>3. CASE ~(i <= Len(outbox[w]))
      <4>1. i - Len(outbox[w]) \in DOMAIN events
        BY <3>2, <3>3
      <4> QED BY <1>4, <2>2, <3>2, <3>3, <4>1
    <3> QED BY <3>2, <3>3
  <2>3. worker'[s] = w /\ active'[s] = active[s]
    BY <1>2, <1>5
  <2>4. ASSUME NEW i \in DOMAIN outbox'[w], outbox'[w][i].kind = "message"
        PROVE  i = 1 /\ outbox'[w][i].id = active'[s]
    <3>1. i \in DOMAIN outbox[w] /\ outbox'[w][i] = outbox[w][i]
      BY <2>1, <2>2, <2>4
    <3>2. i = 1 /\ outbox[w][i].id = active[s]
      BY <1>5, <2>4, <3>1 DEF OwedOK
    <3> QED BY <2>3, <3>1, <3>2
  <2> QED BY <2>1, <2>3, <2>4 DEF OwedOK
<1>6. CASE worker[s] # w
  BY <1>2, <1>3, <1>6, OwedKept DEF TypeOK
<1> QED BY <1>5, <1>6

\* The rest takes the worker from its slot or leaves both alone.
LEMMA OwedInductive ==
    ASSUME OwedInv, [Next]_vars
    PROVE  OwedInv'
<1> USE Numbers DEF OwedInv
<1>1. PoolInv'
  BY PoolInductive
<1> SUFFICES ASSUME NEW s \in Slots
             PROVE  OwedOK(s)'
  BY <1>1
<1>2. worker[s] \in Workers \cup {None}
  BY DEF PoolInv, TypeOK
<1>3. CASE PostFails
  <2>1. PICK t \in Slots, w \in Workers :
          /\ Ensured(t, w)
          /\ worker' = [worker EXCEPT ![t] = None]
          /\ thread' = [thread EXCEPT ![w] = IF @ = "ended" THEN @ ELSE "stopping"]
          /\ UNCHANGED <<active, inbox, outbox>>
    BY <1>3 DEF PostFails
  <2>2. s # t => worker[s] # w
    BY <2>1 DEF Ensured, PoolInv, SlotOK
  <2> QED BY <1>2, <2>1, <2>2, OwedKept DEF PoolInv, TypeOK
<1>4. ASSUME NEW t \in Slots, RecycleDone(t)
      PROVE  OwedOK(s)'
  <2>1. worker[s] # recycling[t] \/ worker[s] = None
    BY <1>4 DEF RecycleDone, PoolInv, SlotOK
  <2> QED BY <1>2, <1>4, <2>1, OwedKept DEF RecycleDone, Forget, PoolInv, TypeOK
<1>5. ASSUME NEW t \in Slots, WorkTimeout(t)
      PROVE  OwedOK(s)'
  <2>1. active[t] # None /\ worker[t] # None /\ on[active[t]] = worker[t] /\ recycling[t] = None
    BY <1>5 DEF WorkTimeout, PoolInv, SlotOK
  <2>2. s # t /\ worker[s] # None => worker[s] # worker[t]
    BY DEF PoolInv, SlotOK
  <2>3. /\ worker' = [worker EXCEPT ![t] = None] /\ active' = [active EXCEPT ![t] = None]
        /\ thread' = [thread EXCEPT ![worker[t]] = IF @ = "alive" THEN "stopping" ELSE @]
        /\ UNCHANGED <<inbox, outbox>>
    BY <1>5, <2>1 DEF WorkTimeout, Finish, Recycle, Stop, PoolInv, TypeOK
  <2> QED BY <1>2, <2>2, <2>3, OwedKept DEF PoolInv, TypeOK
<1>6. ASSUME NEW t \in Slots, TerminateWorker(t), recycling[t] = None, UNCHANGED <<inbox, outbox>>,
             \A u \in Slots : u # t => active'[u] = active[u]
      PROVE  OwedOK(s)'
  <2>1. s # t /\ worker[s] # None => worker[s] # worker[t]
    BY DEF PoolInv, SlotOK
  <2>2. worker'[t] = None /\ (s # t => worker'[s] = worker[s])
    BY <1>6 DEF TerminateWorker, PoolInv, TypeOK
  <2>3. s # t /\ worker[s] # None => thread'[worker[s]] = thread[worker[s]]
    BY <1>2, <1>6, <2>1 DEF TerminateWorker, Stop, PoolInv, TypeOK
  <2> QED BY <1>2, <1>6, <2>2, <2>3, OwedKept
<1>7. CASE CloseSlot
  <2>1. closing \in Slots /\ UNCHANGED <<inbox, outbox>>
    BY <1>7 DEF CloseSlot, CloseRuns
  <2>2. \A u \in Slots : u # closing => active'[u] = active[u]
    BY <1>7, <2>1 DEF CloseSlot, Finish, PoolInv, TypeOK
  <2>3. CASE recycling[closing] = None
    BY <1>6, <1>7, <2>1, <2>2, <2>3 DEF CloseSlot
  <2>4. CASE recycling[closing] # None
    <3>1. active[closing] = None /\ worker[closing] = None
      BY <2>1, <2>4 DEF PoolInv, SlotOK
    <3> QED BY <1>7, <2>1, <2>4, <3>1, OwedKept DEF CloseSlot
  <2> QED BY <2>3, <2>4
<1>8. CASE CloseRecycled
  BY <1>6, <1>8 DEF CloseRecycled, CloseRuns
<1>9. CASE CloseTerminated
  <2>1. worker[s] # terminating \/ worker[s] = None
    BY <1>9 DEF CloseTerminated, PoolInv, CloseOK, SlotOK
  <2> QED BY <1>2, <1>9, <2>1, OwedKept DEF CloseTerminated, Forget, poolVars, PoolInv, TypeOK
<1>10. CASE UNCHANGED <<active, worker, threadVars>>
  BY <1>10, OwedKept DEF threadVars
<1>11. CASE \/ \E r \in Requests : Enqueue(r) \/ QueueTimeout(r) \/ Abort(r)
            \/ SpawnFails \/ NothingToStart \/ Close \/ UNCHANGED vars
  BY <1>10, <1>11 DEF Enqueue, QueueTimeout, Abort, AbortActive, Dequeue, SpawnFails, NothingToStart,
     Close, poolVars, threadVars, vars
<1> QED
  BY <1>3, <1>4, <1>5, <1>7, <1>8, <1>9, <1>11, OwedDispatch, OwedEvents, OwedReply, OwedEnds
     DEF Next, Start, CloseStep
--------------------------------------------------------------------------
(* Timers, listeners and promises *)

Actives == {active[s] : s \in Slots} \ {None}
Held == Queued \cup Actives

\* NothingLeftBehind, and a request not made yet is not settled.
TimersOK ==
    /\ queueTimer = Queued
    /\ workTimer = Actives
    /\ \A r \in Requests : r \in listening <=> (r \in Held /\ settled[r] = None)
    /\ \A r \in Queued : settled[r] = None
    /\ \A r \in seen : settled[r] = None => r \in Held
    /\ \A r \in Requests \ seen : settled[r] = None

TimersInv == OwedInv /\ TimersOK

\* No request waits and is active at once.
LEMMA Holding ==
    ASSUME PoolInv
    PROVE  Queued \subseteq seen /\ Actives \subseteq seen /\ Queued \cap Actives = {}
           /\ seen \subseteq Requests
BY DEF PoolInv, WaitingOK, Actives, TypeOK

\* Requests G are settled; those that leave the pool are among them.
LEMMA TimersSettled ==
    ASSUME TimersInv, NEW G, NEW how \in {"answered", "rejected"}, Settle(G, how),
           G \subseteq seen', seen \subseteq seen', seen' \ seen \subseteq G, seen' \subseteq Requests,
           queueTimer' = Queued', workTimer' = Actives',
           Queued' \subseteq Queued \ G, Held' \subseteq Held, Held \ Held' \subseteq G
    PROVE  TimersOK'
<1>1. Queued \subseteq Requests
  BY Holding DEF TimersInv, OwedInv
<1>2. \A r \in Requests : settled'[r] = IF r \in G /\ settled[r] = None THEN how ELSE settled[r]
  BY DEF Settle
<1>3. how # None
  BY SupervisorAssumption
<1>4. \A r \in Requests : r \in listening' <=> r \in listening /\ r \notin G
  BY DEF Settle
<1>5. \A r \in Requests : r \in G => settled'[r] # None
  BY <1>2, <1>3
<1> QED BY <1>1, <1>2, <1>4, <1>5 DEF TimersInv, TimersOK

\* No request enters or leaves the pool, and none is settled.
LEMMA TimersKept ==
    ASSUME TimersInv, UNCHANGED <<listening, settled, seen>>,
           queueTimer' = Queued', workTimer' = Actives', Queued' \subseteq Queued, Held' = Held
    PROVE  TimersOK'
BY DEF TimersInv, TimersOK

\* finishActiveSlot takes the request off the slot and disarms its timer.
LEMMA TimersFinished ==
    ASSUME TimersInv, NEW s \in Slots, active[s] # None, Finish(s, active[s])
    PROVE  Actives' = Actives \ {active[s]} /\ workTimer' = Actives' /\ active[s] \in Actives
<1>1. \A t \in Slots : active'[t] = IF t = s THEN None ELSE active[t]
  BY DEF Finish, TimersInv, OwedInv, PoolInv, TypeOK
<1>2. \A t \in Slots : active[t] = active[s] => t = s
  BY DEF TimersInv, OwedInv, PoolInv, ActiveOnce
<1>3. Actives' = Actives \ {active[s]}
  BY <1>1, <1>2 DEF Actives
<1> QED BY <1>3 DEF Finish, TimersInv, TimersOK, Actives

\* A slot's request is finished and settled, or the slot has none.
LEMMA TimersFreed ==
    ASSUME TimersInv, NEW s \in Slots, NEW how \in {"answered", "rejected"},
           \/ active[s] = None /\ UNCHANGED <<active, workTimer, listening, settled>>
           \/ active[s] # None /\ Finish(s, active[s]) /\ Settle({active[s]}, how),
           UNCHANGED <<queue, queueTimer, seen>>
    PROVE  TimersOK'
<1> USE DEF TimersInv, OwedInv
<1>1. Queued' = Queued
  BY DEF Queued
<1>2. CASE active[s] = None
  BY <1>1, <1>2, TimersKept DEF Held, Actives, TimersOK
<1>3. CASE active[s] # None
  <2>1. Actives' = Actives \ {active[s]} /\ workTimer' = Actives' /\ active[s] \in Actives
    BY <1>3, TimersFinished
  <2>2. Queued \subseteq seen /\ Actives \subseteq seen /\ Queued \cap Actives = {} /\ seen \subseteq Requests
    BY Holding
  <2> QED BY <1>1, <1>3, <2>1, <2>2, TimersSettled DEF Held, TimersOK
<1> QED BY <1>2, <1>3

\* Waiting requests G leave the queue and are settled.
LEMMA TimersDropped ==
    ASSUME TimersInv, NEW G \in SUBSET Queued, Queued' = Queued \ G, queueTimer' = queueTimer \ G,
           Settle(G, "rejected"), UNCHANGED <<active, workTimer, seen>>
    PROVE  TimersOK'
<1>1. Queued \subseteq seen /\ Actives \subseteq seen /\ Queued \cap Actives = {} /\ seen \subseteq Requests
  BY Holding DEF TimersInv, OwedInv
<1>2. Actives' = Actives
  BY DEF Actives
<1> QED BY <1>1, <1>2, TimersSettled DEF Held, TimersInv, TimersOK

\* Each action keeps the accounts by one of the four lemmas above.
LEMMA TimersInductive ==
    ASSUME TimersInv, [Next]_vars
    PROVE  TimersInv'
<1> USE DEF TimersInv, OwedInv
<1>1. OwedInv'
  BY OwedInductive
<1> SUFFICES TimersOK'
  BY <1>1
<1>2. Queued \subseteq seen /\ Actives \subseteq seen /\ Queued \cap Actives = {} /\ seen \subseteq Requests
  BY Holding
<1>3. TypeOK /\ queueTimer = Queued /\ workTimer = Actives
  BY DEF PoolInv, TimersOK
<1>4. ASSUME UNCHANGED <<queue, active, requestVars>>
      PROVE  TimersOK'
  BY <1>3, <1>4, TimersKept DEF requestVars, Held, Actives, Queued
<1>5. ASSUME NEW r \in Requests, Enqueue(r)
      PROVE  TimersOK'
  <2>1. seen' = seen \cup {r} /\ r \notin seen /\ UNCHANGED <<active, workTimer>>
    BY <1>5 DEF Enqueue, poolVars
  <2>2. Actives' = Actives
    BY <2>1 DEF Actives
  <2>3. CASE Refuse(r) \/ AbortedEarly(r)
    <3>1. Settle({r}, "rejected") /\ UNCHANGED <<queue, queueTimer>>
      BY <2>3 DEF Refuse, AbortedEarly
    <3>2. Queued' = Queued
      BY <3>1 DEF Queued
    <3> QED BY <1>2, <1>3, <2>1, <2>2, <3>1, <3>2, TimersSettled DEF Held
  <2>4. CASE Accept(r)
    <3>1. listening' = listening \cup {r} /\ queueTimer' = queueTimer \cup {r} /\ UNCHANGED settled
          /\ queue' = Append(queue, r)
      BY <2>4 DEF Accept
    <3>2. Queued' = Queued \cup {r}
      BY <1>2, <2>1, <3>1, Appended DEF Queued, PoolInv, TypeOK, WaitingOK
    <3>3. settled[r] = None
      BY <2>1 DEF TimersOK
    <3> QED BY <1>2, <2>1, <2>2, <3>1, <3>2, <3>3 DEF TimersOK, Held
  <2> QED BY <1>5, <2>3, <2>4 DEF Enqueue
<1>6. ASSUME NEW r \in Requests, Dequeue(r)
      PROVE  TimersOK'
  <2>1. PICK i \in DOMAIN queue : queue[i] = r /\ queue' = RemoveAt(queue, i)
    BY <1>6 DEF Dequeue
  <2>2. Queued' = Queued \ {r}
    BY <2>1, TakenOut DEF Queued, PoolInv, TypeOK, WaitingOK
  <2>3. r \in Queued
    BY <2>1 DEF Queued, Range
  <2> QED BY <1>6, <2>2, <2>3, TimersDropped DEF Dequeue, poolVars
<1>7. ASSUME NEW r \in Requests, AbortActive(r)
      PROVE  TimersOK'
  <2>1. r \in Actives /\ Settle({r}, "rejected") /\ UNCHANGED <<queue, active, queueTimer, workTimer, seen>>
    BY <1>7, Numbers DEF AbortActive, Actives, poolVars
  <2>2. Queued' = Queued /\ Actives' = Actives
    BY <2>1 DEF Queued, Actives
  <2> QED BY <1>2, <1>3, <2>1, <2>2, TimersSettled DEF Held
<1>8. CASE Dispatch
  <2>1. PICK s \in Slots : active[s] = None /\ active' = [active EXCEPT ![s] = Head(queue)]
    BY <1>8 DEF Dispatch, FirstIdle, IdleSlots
  <2>2. /\ queue # <<>> /\ queue' = Tail(queue) /\ queueTimer' = queueTimer \ {Head(queue)}
        /\ workTimer' = workTimer \cup {Head(queue)} /\ UNCHANGED <<listening, settled, seen>>
    BY <1>8 DEF Dispatch, CanStart, TakeHead
  <2>3. /\ Head(queue) \in Requests /\ Head(queue) \in Queued /\ Queued' = Queued \ {Head(queue)}
    BY <2>2, HeadWaits DEF Queued
  <2>4. Actives' = Actives \cup {Head(queue)}
    <3>1. \A t \in Slots : active'[t] = IF t = s THEN Head(queue) ELSE active[t]
      BY <1>3, <2>1 DEF TypeOK
    <3> QED BY <2>1, <2>3, <3>1, Numbers DEF Actives
  <2> QED BY <1>3, <2>2, <2>3, <2>4, TimersKept DEF Held
<1>9. CASE SpawnFails \/ PostFails
  <2>1. /\ queue # <<>> /\ queue' = Tail(queue) /\ queueTimer' = queueTimer \ {Head(queue)}
        /\ Settle({Head(queue)}, "rejected") /\ UNCHANGED <<active, workTimer, seen>>
    BY <1>9 DEF SpawnFails, PostFails, CanStart, TakeHead, poolVars
  <2>2. Head(queue) \in Queued /\ Queued' = Queued \ {Head(queue)}
    BY <2>1, HeadWaits DEF Queued
  <2> QED BY <2>1, <2>2, TimersDropped
<1>10. CASE NothingToStart
  BY <1>4, <1>10 DEF NothingToStart, poolVars
<1>11. ASSUME NEW w \in Workers, WorkerMessage(w)
       PROVE  TimersOK'
  <2>1. UNCHANGED <<queue, queueTimer, seen>>
    BY <1>11 DEF WorkerMessage
  <2>2. CASE Awaited(w, Head(outbox[w]).id)
    <3>1. /\ outbox[w] # <<>> /\ Head(outbox[w]).kind = "message" /\ TakeEvent(w)
      BY <1>11 DEF WorkerMessage, NextEvent
    <3>2. Head(outbox[w]).id \in Requests /\ Head(outbox[w]).how \in {"answered", "rejected"}
      BY <1>3, <3>1, EventTaken
    <3>3. slotOf[w] \in Slots
      BY <3>1 DEF PoolInv, ThreadOK, TypeOK
    <3>4. active[slotOf[w]] = Head(outbox[w]).id
      BY <2>2 DEF Awaited
    <3> QED BY <1>11, <2>1, <2>2, <3>2, <3>3, <3>4, Numbers, TimersFreed DEF WorkerMessage
  <2>3. CASE ~Awaited(w, Head(outbox[w]).id)
    BY <1>4, <1>11, <2>1, <2>3 DEF WorkerMessage, requestVars
  <2> QED BY <2>2, <2>3
<1>12. ASSUME NEW w \in Workers, NEW kind, WorkerGone(w, kind)
       PROVE  TimersOK'
  <2>1. UNCHANGED <<queue, queueTimer, seen>> /\ outbox[w] # <<>>
    BY <1>12 DEF WorkerGone, NextEvent
  <2>2. CASE Current(slotOf[w], w)
    <3>1. slotOf[w] \in Slots
      BY <2>1 DEF PoolInv, ThreadOK, TypeOK
    <3>2. CASE active[slotOf[w]] # None
      <4>1. on[active[slotOf[w]]] = w
        BY <2>2, <3>1, <3>2 DEF Current, PoolInv, SlotOK
      <4> QED BY <1>12, <2>1, <2>2, <3>1, <3>2, <4>1, TimersFreed DEF WorkerGone
    <3>3. CASE active[slotOf[w]] = None
      BY <1>4, <1>12, <2>1, <2>2, <3>3 DEF WorkerGone, requestVars
    <3> QED BY <3>2, <3>3
  <2>3. CASE ~Current(slotOf[w], w)
    BY <1>4, <1>12, <2>1, <2>3 DEF WorkerGone, requestVars
  <2> QED BY <2>2, <2>3
<1>13. ASSUME NEW w \in Workers, Reply(w) \/ ThreadFails(w) \/ ThreadExits(w)
       PROVE  TimersOK'
  BY <1>4, <1>13 DEF Reply, ThreadFails, ThreadExits, ThreadEnds, supervisorVars, poolVars
<1>14. ASSUME NEW s \in Slots, RecycleDone(s)
       PROVE  TimersOK'
  BY <1>4, <1>14 DEF RecycleDone
<1>15. ASSUME NEW s \in Slots, WorkTimeout(s)
       PROVE  TimersOK'
  BY <1>15, TimersFreed DEF WorkTimeout
<1>16. CASE Close
  <2>1. queue' = <<>> /\ queueTimer' = queueTimer \ Queued /\ Settle(Queued, "rejected")
        /\ UNCHANGED <<active, workTimer, seen>>
    BY <1>16 DEF Close, poolVars
  <2>2. Queued' = Queued \ Queued
    BY <2>1 DEF Queued, Range
  <2> QED BY <2>1, <2>2, TimersDropped
<1>17. CASE CloseSlot
  BY <1>17, TimersFreed DEF CloseSlot, CloseRuns
<1>18. CASE CloseRecycled \/ CloseTerminated
  BY <1>4, <1>18 DEF CloseRecycled, CloseTerminated, poolVars
<1>19. CASE UNCHANGED vars
  BY <1>4, <1>19 DEF vars, requestVars
<1> QED
  BY <1>5, <1>6, <1>7, <1>8, <1>9, <1>10, <1>11, <1>12, <1>13, <1>14, <1>15, <1>16, <1>17, <1>18, <1>19
     DEF Next, Start, CloseStep, WorkerError, WorkerExit, QueueTimeout, Abort

LEMMA TimersInit == Init => TimersInv
<1> SUFFICES ASSUME Init PROVE TimersInv
  OBVIOUS
<1>1. PoolInv
  BY PoolInit
<1>2. \A s \in Slots : OwedOK(s)
  BY DEF Init, OwedOK
<1>3. Queued = {} /\ Actives = {}
  BY DEF Init, Queued, Range, Actives
<1>4. TimersOK
  BY <1>3 DEF Init, TimersOK, Held
<1> QED BY <1>1, <1>2, <1>4 DEF TimersInv, OwedInv

LEMMA Reachable == Spec => []TimersInv
<1>1. Init => TimersInv
  BY TimersInit
<1>2. TimersInv /\ [Next]_vars => TimersInv'
  BY TimersInductive
<1> QED BY <1>1, <1>2, PTL DEF Spec
--------------------------------------------------------------------------
(* What the pool promises *)

(* The variables hold values of their types. *)
THEOREM Typed == Spec => []TypeOK
<1>1. TimersInv => TypeOK
  BY DEF TimersInv, OwedInv, PoolInv
<1> QED BY <1>1, Reachable, PTL

(* A slot never has two running threads, in whatever order recycleWorker,  *)
(* the worker's own events, the timeouts and close() come, and no running  *)
(* thread is without an owner that terminates it.                          *)
THEOREM ThreadsOwned == Spec => []OneThreadPerSlot
<1>1. ASSUME TimersInv
      PROVE  OneThreadPerSlot
  <2> USE <1>1, Numbers DEF TimersInv, OwedInv, PoolInv
  <2>1. ASSUME NEW w \in Workers, thread[w] \in {"alive", "stopping"}
        PROVE  slotOf[w] \in Slots /\ w \in {worker[slotOf[w]], recycling[slotOf[w]], terminating}
    BY <2>1 DEF ThreadOK
  <2>2. ASSUME NEW s \in Slots
        PROVE  /\ worker[s] # None => recycling[s] = None
               /\ terminating # None /\ slotOf[terminating] = s => worker[s] = None /\ recycling[s] = None
    BY DEF SlotOK, CloseOK
  <2>3. ASSUME NEW w \in Workers, thread[w] \in {"alive", "stopping"},
               NEW v \in Workers, thread[v] \in {"alive", "stopping"}, slotOf[v] = slotOf[w]
        PROVE  v = w
    BY <2>1, <2>2, <2>3
  <2> QED BY <2>1, <2>3 DEF OneThreadPerSlot
<1> QED BY <1>1, Reachable, PTL

(* startNextIfPossible posts a request only to a worker that owes nothing: *)
(* an aborted client frees no slot, and a recycled worker is not reused.   *)
THEOREM OneRequestPerWorker == Spec => []OneOutstanding
<1>1. ASSUME TimersInv
      PROVE  OneOutstanding
  <2> USE <1>1 DEF TimersInv, OwedInv
  <2>1. ASSUME NEW s \in Slots, worker[s] # None
        PROVE  /\ Range(inbox[worker[s]]) \subseteq {active[s]}
               /\ \A i \in DOMAIN outbox[worker[s]] :
                     outbox[worker[s]][i].kind = "message" => outbox[worker[s]][i].id = active[s]
    <3>1. inbox[worker[s]] = <<>> \/ inbox[worker[s]] = <<active[s]>>
      BY <2>1 DEF OwedOK
    <3>2. Range(inbox[worker[s]]) \subseteq {active[s]}
      BY <3>1 DEF Range
    <3> QED BY <2>1, <3>2 DEF OwedOK
  <2> QED BY <2>1 DEF OneOutstanding
<1> QED BY <1>1, Reachable, PTL

(* The queue timer, the work timer and the abort listener of a request are *)
(* cleared on every path it leaves the pool by, and on each its promise is *)
(* settled: enqueue, dispatch, failure, timeout, abort and close().        *)
THEOREM RequestsAccounted == Spec => []NothingLeftBehind
<1>1. ASSUME TimersInv
      PROVE  NothingLeftBehind
  <2>1. Queued \cup Actives \subseteq Requests /\ listening \subseteq Requests
    BY <1>1, Holding DEF TimersInv, OwedInv, PoolInv, TypeOK
  <2> QED BY <1>1, <2>1 DEF TimersInv, TimersOK, NothingLeftBehind, Actives, Held
<1> QED BY <1>1, Reachable, PTL

(* close() leaves no thread, no active or waiting request and no promise   *)
(* open: what finishes or is recycled while it waits is behind its loop or *)
(* still ahead of it, and nothing new is accepted or started.              *)
THEOREM CloseLeavesNothing == Spec => []CloseIsComplete
<1>1. ASSUME TimersInv, closing = PoolSize + 1
      PROVE  /\ \A s \in Slots : active[s] = None /\ worker[s] = None /\ recycling[s] = None
             /\ \A w \in Workers : thread[w] = "unborn"
             /\ \A r \in seen : settled[r] # None
  <2> USE <1>1, Numbers DEF TimersInv, OwedInv, PoolInv
  <2>1. PoolSize + 1 # 0 /\ PoolSize + 1 \notin Slots /\ \A s \in Slots : s < PoolSize + 1
    BY DEF Slots
  <2>2. \A s \in Slots : active[s] = None /\ worker[s] = None /\ recycling[s] = None
    BY <2>1 DEF CloseOK
  <2>3. terminating = None /\ queue = <<>>
    BY <2>1 DEF CloseOK
  <2>4. \A w \in Workers : thread[w] = "unborn"
    BY <2>2, <2>3 DEF ThreadOK
  <2>5. Queued = {} /\ Actives = {}
    BY <2>2, <2>3 DEF Queued, Range, Actives
  <2> QED BY <2>2, <2>4, <2>5 DEF TimersOK, Held
<1>2. TimersInv => CloseIsComplete
  BY <1>1 DEF CloseIsComplete
<1> QED BY <1>2, Reachable, PTL
=============================================================================
