----------------------------- MODULE Admission -----------------------------
(***************************************************************************)
(* The admission controller of app/core/admission.py: MaxActive execution  *)
(* slots behind an asyncio.Semaphore and a FIFO list of at most MaxQueue   *)
(* waiting entries, each woken through its own asyncio.Event.              *)
(*                                                                         *)
(* One action is what one task does between two suspension points of the   *)
(* event loop.  The controller's asyncio.Lock is never held across a       *)
(* suspension, so taking it never waits and it has no state here.  The     *)
(* points where a task of acquire() really suspends are the wait for its   *)
(* event, the semaphore (when the slot it was granted has been taken by    *)
(* somebody else) and the body of the `async with'.                        *)
(*                                                                         *)
(* A task may be cancelled at each of these points (a client that closes   *)
(* a stream, a server that shuts down), and the timeout of the queue may   *)
(* reach a task whose event is already set but which has not yet run.      *)
(***************************************************************************)
EXTENDS Integers, FiniteSets, Sequences, SequencesExt

CONSTANTS Req,        \* the requests; each calls acquire() at most once
          MaxActive,  \* max_active, positive
          MaxQueue    \* max_queue, zero disables queueing

ASSUME AdmissionAssumption ==
  /\ MaxActive \in Nat \ {0}
  /\ MaxQueue \in Nat

VARIABLES
  pc,        \* pc[r]: the suspension point of request r, or how it ended
  queue,     \* _queue: the entries, named by their requests
  granted,   \* granted[r]: _QueueEntry.granted, kept after the entry is gone
  active,    \* _active
  value,     \* the semaphore's counter
  waiters,   \* the semaphore's waiters, in order of arrival
  woken      \* those of them whose future has its result: a slot is theirs

vars == <<pc, queue, granted, active, value, waiters, woken>>

Ended == {"done", "rejected", "timedout", "cancelled"}
Suspended == {"queued", "semwait", "active"}

TypeOK ==
  /\ pc \in [Req -> {"new"} \cup Suspended \cup Ended]
  /\ queue \in Seq(Req)
  /\ granted \in [Req -> BOOLEAN]
  /\ active \in Int
  /\ value \in Nat
  /\ waiters \in Seq(Req)
  /\ woken \in SUBSET Req

Init ==
  /\ pc = [r \in Req |-> "new"]
  /\ queue = <<>>
  /\ granted = [r \in Req |-> FALSE]
  /\ active = 0
  /\ value = MaxActive
  /\ waiters = <<>>
  /\ woken = {}

-----------------------------------------------------------------------------
(* asyncio.Semaphore.                                                      *)

(* Semaphore.locked(): a new caller would have to wait.                    *)
Locked == value = 0 \/ waiters # <<>>

(* The waiters of ws, outside wk, whose future is still pending.           *)
Pending(ws, wk) == ToSet(ws) \ wk

(* No element of s occurs twice.                                           *)
Distinct(s) == \A i, j \in DOMAIN s : s[i] = s[j] => i = j

(* list.remove: t is s without r, or s itself where r is not in it.        *)
Without(s, r, t) ==
  \/ \E i \in DOMAIN s : s[i] = r /\ t = RemoveAt(s, i)
  \/ r \notin ToSet(s) /\ t = s

(* a stands before b among the waiters ws.                                 *)
Before(ws, a, b) ==
  \E i, j \in DOMAIN ws : i < j /\ ws[i] = a /\ ws[j] = b

(* Semaphore._wake_up_next(), at most n times: the first pending waiters   *)
(* of ws, each of which is handed one unit of the counter v.               *)
WakeUp(n, v, ws, wk) ==
  \E W \in SUBSET Pending(ws, wk) :
    /\ IsFiniteSet(W)
    /\ Cardinality(W) <= n
    /\ Cardinality(W) < n => W = Pending(ws, wk)
    /\ \A a \in W : \A b \in Pending(ws, wk) \ W : Before(ws, a, b)
    /\ woken' = wk \cup W
    /\ value' = v - Cardinality(W)

-----------------------------------------------------------------------------
(* acquire().                                                              *)

(* Wrong: a fast path that does not look at the semaphore.                 *)
AcquireFastUnchecked(r) ==
  /\ pc[r] = "new" /\ queue = <<>>
  /\ value' = value - 1
  /\ active' = active + 1
  /\ pc' = [pc EXCEPT ![r] = "active"]
  /\ UNCHANGED <<queue, granted, waiters, woken>>

(* No slot is taken ahead of us: take one without suspending.              *)
AcquireFast(r) ==
  /\ pc[r] = "new"
  /\ ~Locked /\ queue = <<>>
  /\ value' = value - 1
  /\ active' = active + 1
  /\ pc' = [pc EXCEPT ![r] = "active"]
  /\ UNCHANGED <<queue, granted, waiters, woken>>

(* QueueFullError.                                                         *)
AcquireReject(r) ==
  /\ pc[r] = "new"
  /\ Locked \/ queue # <<>>
  /\ Len(queue) >= MaxQueue
  /\ pc' = [pc EXCEPT ![r] = "rejected"]
  /\ UNCHANGED <<queue, granted, active, value, waiters, woken>>

(* Wrong: one entry too many.                                              *)
EnqueueOffByOne(r) ==
  /\ pc[r] = "new"
  /\ Locked \/ queue # <<>>
  /\ Len(queue) <= MaxQueue
  /\ queue' = Append(queue, r)
  /\ pc' = [pc EXCEPT ![r] = "queued"]
  /\ UNCHANGED <<granted, active, value, waiters, woken>>

(* Append an entry and wait for its event.                                 *)
Enqueue(r) ==
  /\ pc[r] = "new"
  /\ Locked \/ queue # <<>>
  /\ Len(queue) < MaxQueue
  /\ queue' = Append(queue, r)
  /\ pc' = [pc EXCEPT ![r] = "queued"]
  /\ UNCHANGED <<granted, active, value, waiters, woken>>

(* The task runs after its event was set and asks the semaphore for the    *)
(* slot, which somebody else may have taken in the meantime.               *)
TakeGrantedSlot(r) ==
  /\ pc[r] = "queued" /\ granted[r]
  /\ \/ /\ ~Locked
        /\ value' = value - 1
        /\ active' = active + 1
        /\ pc' = [pc EXCEPT ![r] = "active"]
        /\ UNCHANGED waiters
     \/ /\ Locked
        /\ waiters' = Append(waiters, r)
        /\ pc' = [pc EXCEPT ![r] = "semwait"]
        /\ UNCHANGED <<value, active>>
  /\ UNCHANGED <<queue, granted, woken>>

(* wait_for gives up: _remove_queued_entry, then QueueTimeoutError.  The   *)
(* entry is no longer in the queue when a release has granted it.          *)
QueueTimeout(r) ==
  /\ pc[r] = "queued"
  /\ pc' = [pc EXCEPT ![r] = "timedout"]
  /\ Without(queue, r, queue')
  /\ UNCHANGED <<granted, active, value, waiters, woken>>

(* The task is cancelled in wait_for.  Only TimeoutError is caught: the    *)
(* entry stays in the queue.                                               *)
CancelQueued(r) ==
  /\ pc[r] = "queued"
  /\ pc' = [pc EXCEPT ![r] = "cancelled"]
  /\ UNCHANGED <<queue, granted, active, value, waiters, woken>>

(* Wrong: only the fast path counts itself in _active.                     *)
TakeHandedSlotUncounted(r) ==
  /\ pc[r] = "semwait" /\ r \in woken
  /\ Without(waiters, r, waiters')
  /\ WakeUp(value, value, waiters', woken \ {r})
  /\ pc' = [pc EXCEPT ![r] = "active"]
  /\ UNCHANGED <<queue, granted, active>>

(* The task resumes in Semaphore.acquire with the slot it was handed, and  *)
(* passes on whatever else the counter holds.                              *)
TakeHandedSlot(r) ==
  /\ pc[r] = "semwait" /\ r \in woken
  /\ Without(waiters, r, waiters')
  /\ WakeUp(value, value, waiters', woken \ {r})
  /\ active' = active + 1
  /\ pc' = [pc EXCEPT ![r] = "active"]
  /\ UNCHANGED <<queue, granted>>

(* Wrong: a cancelled waiter keeps the slot it was handed.                 *)
CancelSemWaitKeepsSlot(r) ==
  /\ pc[r] = "semwait"
  /\ Without(waiters, r, waiters')
  /\ WakeUp(value, value, waiters', woken \ {r})
  /\ pc' = [pc EXCEPT ![r] = "cancelled"]
  /\ UNCHANGED <<queue, granted, active>>

(* The task is cancelled in Semaphore.acquire: a slot it was already       *)
(* handed goes back to the counter and from there to the next waiters.     *)
CancelSemWait(r) ==
  /\ pc[r] = "semwait"
  /\ Without(waiters, r, waiters')
  /\ LET v == IF r \in woken THEN value + 1 ELSE value
     IN  WakeUp(v, v, waiters', woken \ {r})
  /\ pc' = [pc EXCEPT ![r] = "cancelled"]
  /\ UNCHANGED <<queue, granted, active>>

(* Wrong: the semaphore gets its unit back and wakes nobody.               *)
ReleaseWakesNobody(r) ==
  /\ pc[r] = "active"
  /\ active' = active - 1
  /\ queue' = IF queue = <<>> THEN queue ELSE Tail(queue)
  /\ granted' = [q \in Req |-> granted[q] \/ (queue # <<>> /\ q = Head(queue))]
  /\ value' = value + 1
  /\ pc' = [pc EXCEPT ![r] = "done"]
  /\ UNCHANGED <<waiters, woken>>

(* Wrong: the semaphore is released, but no entry of the queue is granted. *)
ReleaseGrantsNobody(r) ==
  /\ pc[r] = "active"
  /\ active' = active - 1
  /\ WakeUp(1, value + 1, waiters, woken)
  /\ pc' = [pc EXCEPT ![r] = "done"]
  /\ UNCHANGED <<queue, granted, waiters>>

(* Wrong: pop() for pop(0).                                                *)
ReleaseGrantsLast(r) ==
  /\ pc[r] = "active"
  /\ active' = active - 1
  /\ queue' = IF queue = <<>> THEN queue ELSE Front(queue)
  /\ granted' = [q \in Req |-> granted[q] \/ (queue # <<>> /\ q = Last(queue))]
  /\ WakeUp(1, value + 1, waiters, woken)
  /\ pc' = [pc EXCEPT ![r] = "done"]
  /\ UNCHANGED waiters

(* The body of the `async with' is over, normally, by an exception or by   *)
(* cancellation: _release() grants the slot to the first entry of the      *)
(* queue, whoever that is, and returns it to the semaphore.                *)
Release(r) ==
  /\ pc[r] = "active"
  /\ active' = active - 1
  /\ \/ /\ queue # <<>>
        /\ granted' = [granted EXCEPT ![Head(queue)] = TRUE]
        /\ queue' = Tail(queue)
     \/ /\ queue = <<>>
        /\ UNCHANGED <<queue, granted>>
  /\ WakeUp(1, value + 1, waiters, woken)
  /\ pc' = [pc EXCEPT ![r] = "done"]
  /\ UNCHANGED waiters

-----------------------------------------------------------------------------
Acquire(r) == AcquireFast(r) \/ AcquireReject(r) \/ Enqueue(r)
Cancel(r) == CancelQueued(r) \/ CancelSemWait(r)

Next ==
  \E r \in Req :
    \/ Acquire(r)
    \/ TakeGrantedSlot(r) \/ TakeHandedSlot(r)
    \/ QueueTimeout(r)
    \/ Cancel(r)
    \/ Release(r)

(* A task whose event or future is set is in the loop's ready queue, and   *)
(* the timer of wait_for fires.  That the body ends (Release) is not in    *)
(* the controller's hands: ChatCompletion says what it rests on.  Nobody   *)
(* has to arrive or to be cancelled.                                       *)
Fairness ==
  \A r \in Req :
    /\ WF_vars(TakeGrantedSlot(r))
    /\ WF_vars(TakeHandedSlot(r))
    /\ WF_vars(QueueTimeout(r))
    /\ WF_vars(Release(r))

Spec == Init /\ [][Next]_vars
FairSpec == Spec /\ Fairness

-----------------------------------------------------------------------------
(* Properties.                                                             *)

Holders == {r \in Req : pc[r] = "active"}

(* The slots: one per request in the body, one per semaphore waiter that   *)
(* was handed one, the rest in the counter.  None is lost by a timeout or  *)
(* a cancellation and none is created.                                     *)
SlotConservation ==
  value + Cardinality(Holders) + Cardinality(woken) = MaxActive

(* _active, which GET /admin/status and the assertion in _release read,    *)
(* counts the requests in the body.                                        *)
ActiveCountExact == active = Cardinality(Holders)

(* _queue never holds more than max_queue entries, none twice, and none    *)
(* that was granted.                                                       *)
QueueWellFormed ==
  /\ Len(queue) <= MaxQueue
  /\ Distinct(queue)
  /\ \A q \in ToSet(queue) : pc[q] \in {"queued", "cancelled"} /\ ~granted[q]

(* A semaphore waiter is left pending next to a positive counter only      *)
(* while another waiter, already woken, has still to run and pass it on.   *)
NoStrandedWaiter ==
  value > 0 /\ Pending(waiters, woken) # {} => woken # {}

(* A request that was handed or promised the slot and is still on its way. *)
InHand(r) == pc[r] \in {"active", "semwait"} \/ (pc[r] = "queued" /\ granted[r])

(* A grant that reached a request which had given up, so that nobody will  *)
(* pass it on.                                                             *)
LostGrant(r) == granted[r] /\ pc[r] \in {"timedout", "cancelled"}

(* The queue stands still (entries in it, nobody in hand who would pop the *)
(* next one) only after a release spent its grant on a request that timed  *)
(* out or was cancelled.                                                   *)
StallOnlyByLostGrant ==
  queue # <<>> => \E r \in Req : InHand(r) \/ LostGrant(r)

(* Among those that queue, order is kept: no request is granted while one  *)
(* that stands before it in the queue is still there.                      *)
GrantsInQueueOrder ==
  [][\A q, r \in Req :
       Before(queue, q, r) /\ granted'[r] => granted'[q]]_vars

-----------------------------------------------------------------------------
(* The contract, with the suspension points forgotten: at most MaxActive   *)
(* run, and whoever waits or runs moves on.  The wait in the semaphore has *)
(* no timeout; it ends because every release hands the slot to the longest *)
(* waiter.                                                                 *)
StatusOf(p) ==
  IF p = "new" THEN "outside"
  ELSE IF p \in {"queued", "semwait"} THEN "waiting"
  ELSE IF p = "active" THEN "running"
  ELSE "over"

Contract == INSTANCE AdmissionContract
              WITH status <- [r \in Req |-> StatusOf(pc[r])]

ImplementsContract == Contract!FairSpec
=============================================================================
