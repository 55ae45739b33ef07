------------------------- MODULE NoiseOnflySupervisor -------------------------
(***************************************************************************)
(* The server's pool of noise workers: requests wait in one queue, each    *)
(* slot of the pool owns at most one worker thread and one active request, *)
(* and a worker that times out, fails or exits is replaced.                *)
(*                                                                         *)
(* The supervisor runs on the event loop: a handler is one action, and     *)
(* nothing else of the supervisor runs between its parts or before the     *)
(* microtasks it queued (Running).  Workers run in their own threads; what *)
(* they post arrives later, even after their termination was asked for.    *)
(***************************************************************************)
EXTENDS Naturals, Sequences, FiniteSets, SequencesExt

CONSTANTS
    Requests,
    PoolSize,
    MaxQueue,
    MaxWorkers, \* bound on the workers that exist at a time
    None

ASSUME SupervisorAssumption ==
    /\ PoolSize \in Nat \ {0}
    /\ MaxQueue \in Nat
    /\ MaxWorkers \in Nat \ {0}
    /\ None \notin Requests \cup Nat \cup {"answered", "rejected"}

Slots == 1 .. PoolSize
Workers == 1 .. MaxWorkers

VARIABLES
    queue,
    active,     \* per slot, slot.active
    worker,     \* per slot, slot.worker
    recycling,  \* per slot, slot.recyclingWorker while slot.recycling is pending
    on,         \* per request, entry.worker
    queueTimer, \* the requests whose queue timer is armed
    workTimer,  \* the requests whose work timer is armed
    listening,  \* the requests whose abort listener is attached
    settled,    \* per request, how its promise was settled, or None
    seen,       \* the requests that have been made
    starting,   \* startNextIfPossible is running or is the next microtask
    closing,    \* 0, or where the loop of close() is, or PoolSize + 1 after it
    awaiting,   \* what close() awaits: "nothing", "recycling" or "terminate"
    terminating,\* the worker whose terminate() close() awaits, or None
    thread,     \* per worker, "unborn", "alive", "stopping" or "ended"
    slotOf,     \* per worker, the slot it was created for
    inbox,      \* per worker, the requests posted to it
    outbox      \* per worker, events on their way to the supervisor

poolVars == <<active, worker, recycling, on>>
requestVars == <<queueTimer, workTimer, listening, settled, seen>>
closeVars == <<closing, awaiting, terminating>>
threadVars == <<thread, slotOf, inbox, outbox>>
vars == <<queue, active, worker, recycling, on, queueTimer, workTimer, listening, settled,
          seen, starting, closing, awaiting, terminating, thread, slotOf, inbox, outbox>>

Init ==
    /\ queue = <<>>
    /\ active = [s \in Slots |-> None]
    /\ worker = [s \in Slots |-> None]
    /\ recycling = [s \in Slots |-> None]
    /\ on = [r \in Requests |-> None]
    /\ queueTimer = {} /\ workTimer = {} /\ listening = {} /\ seen = {}
    /\ settled = [r \in Requests |-> None]
    /\ starting = FALSE
    /\ closing = 0 /\ awaiting = "nothing" /\ terminating = None
    /\ thread = [w \in Workers |-> "unborn"]
    /\ slotOf = [w \in Workers |-> None]
    /\ inbox = [w \in Workers |-> <<>>]
    /\ outbox = [w \in Workers |-> <<>>]

\* The thread is gone and its 'exit' event has been emitted.
Ended(w) == thread[w] = "ended" /\ outbox[w] = <<>>

Closed == closing # 0
CloseRuns ==
    /\ closing \in Slots
    /\ \/ awaiting = "nothing"
       \/ awaiting = "recycling" /\ recycling[closing] = None
       \/ awaiting = "terminate" /\ Ended(terminating)
Running == starting \/ CloseRuns        \* a handler or microtask is under way
Queued == Range(queue)
IdleSlots == {s \in Slots : active[s] = None /\ recycling[s] = None}
------------------------------------------------------------------------------
(* Effects shared by the handlers *)

\* resolveClient and rejectClient: only the first settlement of each counts.
Settle(rs, how) ==
    /\ settled' = [r \in Requests |-> IF r \in rs /\ settled[r] = None THEN how ELSE settled[r]]
    /\ listening' = listening \ rs

\* finishActiveSlot
Finish(s, r) ==
    /\ active' = [active EXCEPT ![s] = None]
    /\ workTimer' = workTimer \ {r}
    /\ on' = [on EXCEPT ![r] = None]

\* Worker.terminate()
Stop(w) == thread' = [thread EXCEPT ![w] = IF @ = "alive" THEN "stopping" ELSE @]

\* Nothing refers to an ended worker any more: its number may be used again.
Forget(w) ==
    /\ thread' = [thread EXCEPT ![w] = "unborn"]
    /\ slotOf' = [slotOf EXCEPT ![w] = None]

\* recycleWorker: the slot has no worker until its termination is through.
Recycle(s, w) ==
    IF recycling[s] # None
    THEN UNCHANGED <<worker, recycling, thread>>
    ELSE /\ worker' = [worker EXCEPT ![s] = IF @ = w THEN None ELSE @]
         /\ recycling' = [recycling EXCEPT ![s] = w]
         /\ Stop(w)
------------------------------------------------------------------------------
(* enqueue and startNextIfPossible *)

Refuse(r) ==
    /\ Closed \/ Len(queue) >= MaxQueue
    /\ Settle({r}, "rejected")
    /\ UNCHANGED <<queue, queueTimer, starting>>

\* The signal is aborted before the promise is set up.
AbortedEarly(r) ==
    /\ ~Closed /\ Len(queue) < MaxQueue
    /\ Settle({r}, "rejected")
    /\ UNCHANGED <<queue, queueTimer, starting>>

Accept(r) ==
    /\ ~Closed /\ Len(queue) < MaxQueue
    /\ listening' = listening \cup {r}
    /\ queueTimer' = queueTimer \cup {r}
    /\ queue' = Append(queue, r)
    /\ starting' = TRUE
    /\ UNCHANGED settled

Enqueue(r) ==
    /\ ~Running
    /\ r \notin seen
    /\ seen' = seen \cup {r}
    /\ Refuse(r) \/ AbortedEarly(r) \/ Accept(r)
    /\ UNCHANGED <<poolVars, workTimer, closeVars, threadVars>>

FirstIdle(s) == s \in IdleSlots /\ \A t \in IdleSlots : s <= t

\* ensureWorker: the slot's worker, or a new one.
Ensured(s, w) ==
    /\ IF worker[s] # None
       THEN w = worker[s]
       ELSE thread[w] = "unborn" /\ \A v \in Workers : thread[v] = "unborn" => w <= v
    /\ slotOf' = [slotOf EXCEPT ![w] = s]

CanStart == starting /\ ~Closed /\ queue # <<>> /\ IdleSlots # {}

TakeHead ==
    /\ queue' = Tail(queue)
    /\ queueTimer' = queueTimer \ {Head(queue)}

Dispatch ==
    LET r == Head(queue) IN
    /\ CanStart
    /\ TakeHead
    /\ \E s \in Slots, w \in Workers :
          /\ FirstIdle(s)
          /\ Ensured(s, w)
          /\ worker' = [worker EXCEPT ![s] = w]
          /\ thread' = [thread EXCEPT ![w] = IF @ = "unborn" THEN "alive" ELSE @]
          /\ active' = [active EXCEPT ![s] = r]
          /\ on' = [on EXCEPT ![r] = w]
          /\ inbox' = IF thread[w] = "ended" THEN inbox ELSE [inbox EXCEPT ![w] = Append(@, r)]
    /\ workTimer' = workTimer \cup {r}
    /\ UNCHANGED <<recycling, listening, settled, seen, starting, closeVars, outbox>>

SpawnFails ==
    /\ CanStart
    /\ \E s \in Slots : FirstIdle(s) /\ worker[s] = None
    /\ TakeHead
    /\ Settle({Head(queue)}, "rejected")
    /\ UNCHANGED <<poolVars, workTimer, seen, starting, closeVars, threadVars>>

\* postMessage throws: the request fails and the worker is replaced.
PostFails ==
    /\ CanStart
    /\ TakeHead
    /\ Settle({Head(queue)}, "rejected")
    /\ \E s \in Slots, w \in Workers :
          /\ FirstIdle(s)
          /\ Ensured(s, w)
          /\ worker' = [worker EXCEPT ![s] = None]
          /\ recycling' = [recycling EXCEPT ![s] = w]
          /\ thread' = [thread EXCEPT ![w] = IF @ = "ended" THEN @ ELSE "stopping"]
    /\ UNCHANGED <<active, on, workTimer, seen, starting, closeVars, inbox, outbox>>

NothingToStart ==
    /\ starting
    /\ Closed \/ queue = <<>> \/ IdleSlots = {}
    /\ starting' = FALSE
    /\ UNCHANGED <<queue, poolVars, requestVars, closeVars, threadVars>>
------------------------------------------------------------------------------
(* Events of a worker, in the order it emitted them *)

NextEvent(w, kind) == outbox[w] # <<>> /\ Head(outbox[w]).kind = kind
TakeEvent(w) == outbox' = [outbox EXCEPT ![w] = Tail(@)]

\* A reply counts only for the active request of its slot, posted to this very
\* worker, and not once the worker is being recycled.
Awaited(w, r) ==
    /\ recycling[slotOf[w]] # w
    /\ active[slotOf[w]] = r
    /\ on[r] = w

WorkerMessage(w) ==
    LET r == Head(outbox[w]).id IN
    /\ ~Running
    /\ NextEvent(w, "message")
    /\ TakeEvent(w)
    /\ IF Awaited(w, r)
       THEN /\ Finish(slotOf[w], r)
            /\ Settle({r}, Head(outbox[w]).how)
            /\ starting' = TRUE
       ELSE UNCHANGED <<active, on, workTimer, listening, settled, starting>>
    /\ UNCHANGED <<queue, worker, recycling, queueTimer, seen, closeVars, thread, slotOf, inbox>>

\* 'error' and 'exit': the slot's current worker is gone, and its request with
\* it; an event of a worker already recycled or forgotten is ignored.
Current(s, w) == recycling[s] # w /\ (worker[s] = w \/ (active[s] # None /\ on[active[s]] = w))

\* Broken: the slot is recycled and its request forgotten.
WorkerGoneSilently(w, kind) ==
    LET s == slotOf[w] IN
    /\ ~Running
    /\ NextEvent(w, kind)
    /\ TakeEvent(w)
    /\ IF Current(s, w)
       THEN /\ IF active[s] # None /\ on[active[s]] = w
               THEN Finish(s, active[s])
               ELSE UNCHANGED <<active, on, workTimer>>
            /\ Recycle(s, w)
       ELSE UNCHANGED <<active, on, workTimer, worker, recycling, thread>>
    /\ UNCHANGED <<queue, queueTimer, listening, settled, seen, starting, closeVars, slotOf, inbox>>

WorkerGone(w, kind) ==
    LET s == slotOf[w] IN
    /\ ~Running
    /\ NextEvent(w, kind)
    /\ TakeEvent(w)
    /\ IF Current(s, w)
       THEN /\ IF active[s] # None /\ on[active[s]] = w
               THEN Finish(s, active[s]) /\ Settle({active[s]}, "rejected")
               ELSE UNCHANGED <<active, on, workTimer, listening, settled>>
            /\ Recycle(s, w)
       ELSE UNCHANGED <<active, on, workTimer, listening, settled, worker, recycling, thread>>
    /\ UNCHANGED <<queue, queueTimer, seen, starting, closeVars, slotOf, inbox>>

WorkerError(w) == WorkerGone(w, "error")
WorkerExit(w) == WorkerGone(w, "exit")

\* Broken: the slot is free as soon as the termination is asked for.
RecycleDoneEarly(s) ==
    /\ ~Running
    /\ recycling[s] # None
    /\ recycling' = [recycling EXCEPT ![s] = None]
    /\ starting' = TRUE
    /\ UNCHANGED <<queue, active, worker, on, requestVars, closeVars, threadVars>>

\* The finally of recycleWorker.
RecycleDone(s) ==
    /\ ~Running
    /\ recycling[s] # None
    /\ Ended(recycling[s])
    /\ Forget(recycling[s])
    /\ recycling' = [recycling EXCEPT ![s] = None]
    /\ starting' = TRUE
    /\ UNCHANGED <<queue, active, worker, on, requestVars, closeVars, inbox, outbox>>
------------------------------------------------------------------------------
(* Timers and aborts *)

WorkTimeout(s) ==
    LET r == active[s] IN
    /\ ~Running
    /\ r # None /\ r \in workTimer
    /\ Finish(s, r)
    /\ Settle({r}, "rejected")
    /\ Recycle(s, on[r])
    /\ UNCHANGED <<queue, queueTimer, seen, starting, closeVars, slotOf, inbox, outbox>>

Dequeue(r) ==
    /\ \E i \in DOMAIN queue : queue[i] = r /\ queue' = RemoveAt(queue, i)
    /\ queueTimer' = queueTimer \ {r}
    /\ Settle({r}, "rejected")
    /\ UNCHANGED <<poolVars, workTimer, seen, starting, closeVars, threadVars>>

QueueTimeout(r) ==
    /\ ~Running
    /\ r \in queueTimer /\ r \in Queued
    /\ Dequeue(r)

\* Broken: an aborted request frees its slot while the worker still computes.
AbortFreesSlot(r) ==
    /\ \E s \in Slots : active[s] = r /\ on[r] # None /\ Finish(s, r)
    /\ Settle({r}, "rejected")
    /\ starting' = TRUE
    /\ UNCHANGED <<queue, worker, recycling, queueTimer, seen, closeVars, threadVars>>

\* The client of an active request is told at once, but its slot stays taken
\* until the worker has answered or timed out.
AbortActive(r) ==
    /\ \E s \in Slots : active[s] = r /\ on[r] # None
    /\ Settle({r}, "rejected")
    /\ UNCHANGED <<queue, poolVars, queueTimer, workTimer, seen, starting, closeVars, threadVars>>

Abort(r) ==
    /\ ~Running
    /\ r \in listening
    /\ AbortActive(r) \/ (r \in Queued /\ Dequeue(r))
------------------------------------------------------------------------------
(* close() *)

\* Broken: the timers of the requests it drops stay armed.
CloseKeepsTimers ==
    /\ ~Running
    /\ closing = 0
    /\ closing' = 1
    /\ Settle(Queued, "rejected")
    /\ queue' = <<>>
    /\ UNCHANGED <<poolVars, queueTimer, workTimer, seen, starting, awaiting, terminating, threadVars>>

Close ==
    /\ ~Running
    /\ closing = 0
    /\ closing' = 1
    /\ Settle(Queued, "rejected")
    /\ queueTimer' = queueTimer \ Queued
    /\ queue' = <<>>
    /\ UNCHANGED <<poolVars, workTimer, seen, starting, awaiting, terminating, threadVars>>

\* Broken: close() waits for the worker to end by itself.
AwaitWorkerExit(s) ==
    IF worker[s] = None
    THEN /\ closing' = s + 1 /\ awaiting' = "nothing"
         /\ UNCHANGED <<worker, terminating, thread>>
    ELSE /\ awaiting' = "terminate" /\ terminating' = worker[s]
         /\ worker' = [worker EXCEPT ![s] = None]
         /\ UNCHANGED <<closing, thread>>

\* The rest of a slot's turn, once it is not being recycled.
TerminateWorker(s) ==
    IF worker[s] = None
    THEN /\ closing' = s + 1 /\ awaiting' = "nothing"
         /\ UNCHANGED <<worker, terminating, thread>>
    ELSE /\ awaiting' = "terminate" /\ terminating' = worker[s]
         /\ Stop(worker[s])
         /\ worker' = [worker EXCEPT ![s] = None]
         /\ UNCHANGED closing

\* Broken: close() does not wait for a recycling.
CloseSlotAtOnce ==
    LET s == closing
        r == active[s]
    IN
    /\ ~starting /\ CloseRuns /\ awaiting = "nothing"
    /\ IF r = None
       THEN UNCHANGED <<active, on, workTimer, listening, settled>>
       ELSE Finish(s, r) /\ Settle({r}, "rejected")
    /\ TerminateWorker(s)
    /\ UNCHANGED <<queue, recycling, queueTimer, seen, starting, slotOf, inbox, outbox>>

\* A slot's turn in the loop, up to its first await.
CloseSlot ==
    LET s == closing
        r == active[s]
    IN
    /\ ~starting /\ CloseRuns /\ awaiting = "nothing"
    /\ IF r = None
       THEN UNCHANGED <<active, on, workTimer, listening, settled>>
       ELSE Finish(s, r) /\ Settle({r}, "rejected")
    /\ IF recycling[s] = None
       THEN TerminateWorker(s)
       ELSE awaiting' = "recycling" /\ UNCHANGED <<closing, terminating, worker, thread>>
    /\ UNCHANGED <<queue, recycling, queueTimer, seen, starting, slotOf, inbox, outbox>>

CloseRecycled ==
    /\ ~starting /\ CloseRuns /\ awaiting = "recycling"
    /\ TerminateWorker(closing)
    /\ UNCHANGED <<queue, active, recycling, on, requestVars, starting, slotOf, inbox, outbox>>

CloseTerminated ==
    /\ ~starting /\ CloseRuns /\ awaiting = "terminate"
    /\ Forget(terminating)
    /\ closing' = closing + 1 /\ awaiting' = "nothing" /\ terminating' = None
    /\ UNCHANGED <<queue, poolVars, requestVars, starting, inbox, outbox>>
------------------------------------------------------------------------------
(* The worker threads: what they post and when they end is not up to the   *)
(* supervisor, and a thread that was told to stop may still post.          *)

supervisorVars == <<queue, poolVars, requestVars, starting, closeVars>>

Event(kind, r, how) == [kind |-> kind, id |-> r, how |-> how]
Events == [kind : {"message"}, id : Requests, how : {"answered", "rejected"}]
              \cup {Event("error", None, None), Event("exit", None, None)}

Reply(w) ==
    /\ thread[w] \in {"alive", "stopping"}
    /\ inbox[w] # <<>>
    /\ \E how \in {"answered", "rejected"} :
          outbox' = [outbox EXCEPT ![w] = Append(@, Event("message", Head(inbox[w]), how))]
    /\ inbox' = [inbox EXCEPT ![w] = Tail(@)]
    /\ UNCHANGED <<supervisorVars, thread, slotOf>>

ThreadEnds(w, events) ==
    /\ thread[w] \in {"alive", "stopping"}
    /\ thread' = [thread EXCEPT ![w] = "ended"]
    /\ inbox' = [inbox EXCEPT ![w] = <<>>]
    /\ outbox' = [outbox EXCEPT ![w] = @ \o events]
    /\ UNCHANGED <<supervisorVars, slotOf>>

ThreadFails(w) ==
    /\ thread[w] = "alive"
    /\ ThreadEnds(w, <<Event("error", None, None), Event("exit", None, None)>>)

ThreadExits(w) == ThreadEnds(w, <<Event("exit", None, None)>>)
------------------------------------------------------------------------------
Start == Dispatch \/ SpawnFails \/ PostFails \/ NothingToStart
CloseStep == CloseSlot \/ CloseRecycled \/ CloseTerminated
Delivery(w) == WorkerMessage(w) \/ WorkerError(w) \/ WorkerExit(w)

Next ==
    \/ \E r \in Requests : Enqueue(r) \/ QueueTimeout(r) \/ Abort(r)
    \/ Start
    \/ \E w \in Workers :
          \/ WorkerMessage(w) \/ WorkerError(w) \/ WorkerExit(w)
          \/ Reply(w) \/ ThreadFails(w) \/ ThreadExits(w)
    \/ \E s \in Slots : RecycleDone(s) \/ WorkTimeout(s)
    \/ Close
    \/ CloseStep

Spec == Init /\ [][Next]_vars

(* The event loop runs every queued microtask, delivers every event, fires *)
(* every armed timer, and a terminate() that was called ends its thread.   *)
(* No worker has to answer, and nobody has to abort or to close.           *)
Fairness ==
    /\ WF_vars(Start)
    /\ WF_vars(CloseStep)
    /\ \A w \in Workers :
          /\ WF_vars(Delivery(w))
          /\ WF_vars(thread[w] = "stopping" /\ ThreadExits(w))
    /\ \A s \in Slots : WF_vars(RecycleDone(s)) /\ WF_vars(WorkTimeout(s))
    /\ \A r \in Requests : WF_vars(QueueTimeout(r))

FairSpec == Spec /\ Fairness
------------------------------------------------------------------------------
(* The variables hold values of their types. *)
TypeOK ==
    /\ queue \in Seq(Requests)
    /\ active \in [Slots -> Requests \cup {None}]
    /\ worker \in [Slots -> Workers \cup {None}]
    /\ recycling \in [Slots -> Workers \cup {None}]
    /\ on \in [Requests -> Workers \cup {None}]
    /\ queueTimer \subseteq Requests /\ workTimer \subseteq Requests
    /\ listening \subseteq Requests /\ seen \subseteq Requests
    /\ settled \in [Requests -> {"answered", "rejected", None}]
    /\ starting \in BOOLEAN
    /\ closing \in 0 .. PoolSize + 1
    /\ awaiting \in {"nothing", "recycling", "terminate"}
    /\ terminating \in Workers \cup {None}
    /\ thread \in [Workers -> {"unborn", "alive", "stopping", "ended"}]
    /\ slotOf \in [Workers -> Slots \cup {None}]
    /\ inbox \in [Workers -> Seq(Requests)]
    /\ outbox \in [Workers -> Seq(Events)]

(* "Each slot owns at most one live worker": a replacement is never        *)
(* spawned while the thread it replaces may still run, whatever order      *)
(* timeouts, failures, exits and close() come in; and a running thread is  *)
(* always somebody's: the slot's worker, the one being recycled, or the    *)
(* one close() is terminating.                                             *)
OneThreadPerSlot ==
    \A w \in Workers : thread[w] \in {"alive", "stopping"} =>
        /\ \A v \in Workers : thread[v] \in {"alive", "stopping"} /\ slotOf[v] = slotOf[w] => v = w
        /\ w \in {worker[slotOf[w]], recycling[slotOf[w]], terminating}

(* A request is posted only to a worker that owes no answer: all that is   *)
(* under way at a slot's worker is the slot's active request, even after   *)
(* its client has gone away.                                               *)
OneOutstanding ==
    \A s \in Slots : worker[s] # None =>
        LET w == worker[s]
            owed == Range(inbox[w]) \cup
                    {outbox[w][i].id : i \in {j \in DOMAIN outbox[w] : outbox[w][j].kind = "message"}}
        IN  owed \subseteq {active[s]}

(* Exactly the waiting requests have a queue timer, exactly the active     *)
(* ones a work timer, and exactly those of them that are not settled an    *)
(* abort listener, and every other request made is settled: none is        *)
(* forgotten and no timer or listener outlives its request.                *)
NothingLeftBehind ==
    LET actives == {active[s] : s \in Slots} \ {None} IN
    /\ queueTimer = Queued
    /\ workTimer = actives
    /\ listening = {r \in Queued \cup actives : settled[r] = None}
    /\ \A r \in Queued : settled[r] = None
    /\ \A r \in seen : settled[r] = None => r \in Queued \cup actives

(* When close() returns, every thread has ended, every request is settled  *)
(* and no slot holds anything: nothing was started behind its loop.        *)
CloseIsComplete ==
    closing = PoolSize + 1 =>
        /\ \A s \in Slots : active[s] = None /\ worker[s] = None /\ recycling[s] = None
        /\ \A w \in Workers : thread[w] = "unborn"
        /\ \A r \in seen : settled[r] # None

(* Every request is settled, whether or not a worker ever answers.         *)
EventuallySettled == \A r \in Requests : r \in seen ~> settled[r] # None

(* close() returns, though workers may never answer and slots may be under *)
(* recycling when it starts.                                               *)
CloseReturns == closing = 1 ~> closing = PoolSize + 1
==============================================================================
