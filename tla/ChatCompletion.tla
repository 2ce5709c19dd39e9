-------------------------- MODULE ChatCompletion ---------------------------
(***************************************************************************)
(* POST /v1/chat/completions, app/api/chat.py: a request is prechecked     *)
(* against the limits of its key, routed to a backend, admitted by the     *)
(* controller of module Admission, served, and recorded.                   *)
(*                                                                         *)
(* An action is what one task does between two suspension points.  The     *)
(* release of the slot and the recording of the outcome have none between  *)
(* them, so they are one step; the lookup of the models, the admission,    *)
(* the backend call and every write to the client suspend.                 *)
(*                                                                         *)
(* What the precheck decides and what the records are counted for is in    *)
(* module Usage; here it may let a request pass or refuse it.              *)
(***************************************************************************)
EXTENDS Integers, FiniteSets, Sequences

CONSTANTS Req, MaxActive, MaxQueue,   \* as in Admission
          Streaming,        \* the requests with stream = true
          MaxChunks,        \* bound: chunks one stream can have
          MaxLost           \* bound: records the database may refuse

ASSUME ChatAssumption ==
  /\ MaxActive \in Nat \ {0} /\ MaxQueue \in Nat
  /\ Streaming \subseteq Req
  /\ MaxChunks \in Nat /\ MaxLost \in Nat

VARIABLES
  pc, queue, granted, active, value, waiters, woken,  \* the controller
  stage,     \* stage[r]: where the handler of r is
  answer,    \* answer[r]: the HTTP status sent to the client; "refused" for
             \* any error before admission, "5xx" for a 500 or 502 after it
  recorded,  \* recorded[r]: UsageRecord.status, "none" without a record
  lost,      \* the requests whose record the database refused
  sent       \* sent[r]: chunks written to the client

Adm == INSTANCE Admission

admVars == <<pc, queue, granted, active, value, waiters, woken>>
chatVars == <<stage, answer, recorded, lost, sent>>
vars == <<admVars, chatVars>>

Stages ==
  {"new",         \* not yet prechecked
   "routing",     \* waiting for the backend's list of models
   "headers",     \* a StreamingResponse whose generator has not started
   "waiting",     \* inside admission.acquire()
   "generating",  \* waiting for backend.chat_completion
   "upstream",    \* the stream waits for the backend's next chunk
   "sending",     \* the stream is suspended at the yield of a chunk
   "lastsend",    \* ... at the yield of [DONE]
   "abandoned",   \* ... and the task that iterated it is gone
   "over"}

Outcomes == {"completed", "failed", "cancelled", "timed_out", "rejected"}

TypeOK ==
  /\ Adm!TypeOK
  /\ stage \in [Req -> Stages]
  /\ answer \in [Req -> {"none", "refused", "200", "429", "503", "5xx"}]
  /\ recorded \in [Req -> Outcomes \cup {"none"}]
  /\ lost \in SUBSET Req
  /\ sent \in [Req -> 0 .. MaxChunks]

Init ==
  /\ Adm!Init
  /\ stage = [r \in Req |-> "new"]
  /\ answer = [r \in Req |-> "none"]
  /\ recorded = [r \in Req |-> "none"]
  /\ lost = {}
  /\ sent = [r \in Req |-> 0]

-----------------------------------------------------------------------------
(* Wrong: the outcome and the HTTP status change places.                   *)
FinishSwapped(r, status, code) ==
  /\ stage' = [stage EXCEPT ![r] = "over"]
  /\ answer' = [answer EXCEPT ![r] = status]
  /\ recorded' = [recorded EXCEPT ![r] = code]
  /\ UNCHANGED <<lost, sent>>

(* The end of the handler: the client has its answer, the outcome goes to  *)
(* the usage records; an error of the database is logged and swallowed.    *)
Finish(r, status, code) ==
  /\ stage' = [stage EXCEPT ![r] = "over"]
  /\ answer' = [answer EXCEPT ![r] = code]
  /\ \/ /\ recorded' = [recorded EXCEPT ![r] = status]
        /\ UNCHANGED lost
     \/ /\ Cardinality(lost) < MaxLost
        /\ lost' = lost \cup {r}
        /\ UNCHANGED recorded
  /\ UNCHANGED sent

Goto(r, s) ==
  /\ stage' = [stage EXCEPT ![r] = s]
  /\ UNCHANGED <<recorded, lost, sent>>

(* An error before admission leaves no record.                             *)
Refuse(r) ==
  /\ answer' = [answer EXCEPT ![r] = "refused"]
  /\ Goto(r, "over")
  /\ UNCHANGED admVars

-----------------------------------------------------------------------------
(* create_chat_completion.                                                 *)

PrecheckPass(r) ==
  /\ stage[r] = "new"
  /\ Goto(r, "routing")
  /\ UNCHANGED <<admVars, answer>>

(* A limit is exceeded, or the database cannot be asked.                   *)
PrecheckRefuse(r) == stage[r] = "new" /\ Refuse(r)

(* No such model, no access to it, no backend for it, no streaming, or no  *)
(* list of models from the backend.                                        *)
RouteFail(r) == stage[r] = "routing" /\ Refuse(r)

(* The body of the `async with' begins.                                    *)
Begin(r) ==
  /\ Goto(r, IF r \in Streaming THEN "upstream" ELSE "generating")
  /\ UNCHANGED answer

(* The three ways through admission.acquire().  A generator's QueueFull    *)
(* and QueueTimeout errors end in its `except Exception', which leaves the *)
(* outcome failed and the error code unset, and that is recorded as        *)
(* cancelled; the status line has long been sent.                          *)
Enter(r) ==
  \/ Adm!AcquireFast(r) /\ Begin(r)
  \/ Adm!Enqueue(r) /\ Goto(r, "waiting") /\ UNCHANGED answer
  \/ /\ Adm!AcquireReject(r)
     /\ IF r \in Streaming THEN Finish(r, "cancelled", "200")
                           ELSE Finish(r, "rejected", "429")

RouteNonStreaming(r) ==
  /\ stage[r] = "routing" /\ r \notin Streaming
  /\ Enter(r)

(* The StreamingResponse is created and its status line goes out before    *)
(* the generator, and with it acquire(), runs.                             *)
RouteStreaming(r) ==
  /\ stage[r] = "routing" /\ r \in Streaming
  /\ answer' = [answer EXCEPT ![r] = "200"]
  /\ Goto(r, "headers")
  /\ UNCHANGED admVars

StartGenerator(r) ==
  /\ stage[r] = "headers"
  /\ Enter(r)

(* The client goes before the generator starts: it never runs.             *)
DropResponse(r) ==
  /\ stage[r] = "headers"
  /\ Goto(r, "over")
  /\ UNCHANGED <<admVars, answer>>

-----------------------------------------------------------------------------
(* Waiting for a slot.                                                     *)

WaitEnds(r) ==
  /\ stage[r] = "waiting"
  /\ \/ Adm!TakeGrantedSlot(r) \/ Adm!TakeHandedSlot(r)
  /\ \/ pc'[r] = "active" /\ Begin(r)
     \/ pc'[r] = "semwait" /\ Goto(r, "waiting") /\ UNCHANGED answer

WaitTimesOut(r) ==
  /\ stage[r] = "waiting"
  /\ Adm!QueueTimeout(r)
  /\ IF r \in Streaming THEN Finish(r, "cancelled", "200")
                        ELSE Finish(r, "timed_out", "503")

(* Wrong: `except Exception' for `finally', which a cancellation passes.   *)
WaitCancelledUnrecorded(r) ==
  /\ stage[r] = "waiting"
  /\ Adm!Cancel(r)
  /\ Goto(r, "over")
  /\ UNCHANGED answer

(* A closed stream or a server shutdown.  The non-streaming handler has no *)
(* case for it and records its initial outcome, failed.                    *)
WaitCancelled(r) ==
  /\ stage[r] = "waiting"
  /\ Adm!Cancel(r)
  /\ Finish(r, IF r \in Streaming THEN "cancelled" ELSE "failed", answer[r])

-----------------------------------------------------------------------------
(* The backend call.  Leaving the `async with' releases the slot.          *)

Leave(r, status, code) ==
  /\ Adm!Release(r)
  /\ Finish(r, status, code)

GenerationDone(r) ==
  /\ stage[r] = "generating"
  /\ Leave(r, "completed", "200")

(* The answer does not fit the response schema: the slot is back and the   *)
(* completion is on record when the client gets its 500.                   *)
GenerationUnfit(r) ==
  /\ stage[r] = "generating"
  /\ Leave(r, "completed", "5xx")

(* An error of the backend, or an exception nobody expects.                *)
GenerationFails(r) == stage[r] = "generating" /\ Leave(r, "failed", "5xx")

GenerationCancelled(r) == stage[r] = "generating" /\ Leave(r, "failed", "none")

(* The backend's next chunk is written to the client.                      *)
StreamChunk(r) ==
  /\ stage[r] = "upstream" /\ sent[r] < MaxChunks
  /\ stage' = [stage EXCEPT ![r] = "sending"]
  /\ sent' = [sent EXCEPT ![r] = @ + 1]
  /\ UNCHANGED <<admVars, answer, recorded, lost>>

(* Wrong: [DONE] is written after the `async with'.                        *)
StreamExhaustedReleases(r) ==
  /\ stage[r] = "upstream"
  /\ Adm!Release(r)
  /\ Goto(r, "lastsend")
  /\ UNCHANGED answer

(* Wrong: the completion is recorded before [DONE] is written.             *)
StreamExhaustedRecords(r) ==
  /\ stage[r] = "upstream"
  /\ stage' = [stage EXCEPT ![r] = "lastsend"]
  /\ recorded' = [recorded EXCEPT ![r] = "completed"]
  /\ UNCHANGED <<admVars, answer, lost, sent>>

(* The backend has no more chunks: [DONE] is written, the slot still held. *)
StreamExhausted(r) ==
  /\ stage[r] = "upstream"
  /\ Goto(r, "lastsend")
  /\ UNCHANGED <<admVars, answer>>

ChunkSent(r) ==
  /\ stage[r] = "sending"
  /\ Goto(r, "upstream")
  /\ UNCHANGED <<admVars, answer>>

DoneSent(r) == stage[r] = "lastsend" /\ Leave(r, "completed", "200")

(* A backend error sets the error code; an exception nobody expects does   *)
(* not, and the `finally' then records it as a cancellation.               *)
StreamFails(r) ==
  /\ stage[r] = "upstream"
  /\ \E status \in {"failed", "cancelled"} : Leave(r, status, "200")

(* The task is cancelled while the generator awaits the backend: the       *)
(* CancelledError runs through it.                                         *)
StreamCancelled(r) == stage[r] = "upstream" /\ Leave(r, "cancelled", "200")

(* The task is cancelled in the write to the client: the generator stays   *)
(* suspended at its yield, with its slot, until it is finalised.           *)
ClientGone(r) ==
  /\ stage[r] \in {"sending", "lastsend"}
  /\ Goto(r, "abandoned")
  /\ UNCHANGED <<admVars, answer>>

(* aclose(): GeneratorExit at the yield.                                   *)
CloseGenerator(r) == stage[r] = "abandoned" /\ Leave(r, "cancelled", "200")

-----------------------------------------------------------------------------
Arrive(r) == PrecheckPass(r) \/ PrecheckRefuse(r)
Route(r) == RouteFail(r) \/ RouteNonStreaming(r) \/ RouteStreaming(r)
Open(r) == StartGenerator(r) \/ DropResponse(r)
Wait(r) == WaitEnds(r) \/ WaitTimesOut(r)
Generation(r) == GenerationDone(r) \/ GenerationUnfit(r) \/ GenerationFails(r)
Upstream(r) == StreamChunk(r) \/ StreamExhausted(r) \/ StreamFails(r)
Write(r) == ChunkSent(r) \/ DoneSent(r) \/ ClientGone(r)
Interrupt(r) == WaitCancelled(r) \/ GenerationCancelled(r) \/ StreamCancelled(r)

Next ==
  \/ \E r \in Req :
       \/ Arrive(r) \/ Route(r) \/ Open(r) \/ Wait(r)
       \/ Generation(r) \/ Upstream(r) \/ Write(r)
       \/ Interrupt(r) \/ CloseGenerator(r)

(* What the server sees to by itself: the loop runs ready tasks and fires  *)
(* timers, a whole answer is awaited with the backend's timeout, and the   *)
(* loop finalises generators nobody iterates.  A request is at one of      *)
(* these at a time and leaves it by its own steps only, so that fairness   *)
(* of the whole is fairness of each.                                       *)
ServerFairness(r) ==
  WF_vars(Route(r) \/ Open(r) \/ Wait(r) \/ Generation(r) \/ CloseGenerator(r))

(* What it leaves to its peers: the read of a stream and the write to a    *)
(* client have no timeout.                                                 *)
PeerFairness(r) == WF_vars(Upstream(r) \/ Write(r))

Spec == Init /\ [][Next]_vars
ServerSpec == Spec /\ \A r \in Req : ServerFairness(r)
FairSpec == ServerSpec /\ \A r \in Req : PeerFairness(r)

-----------------------------------------------------------------------------
(* GET /admin/observability/summary, and /metrics with the same numbers:   *)
(* the status of the controller and, without suspending in between, the    *)
(* records by outcome.                                                     *)
ObservabilityPage ==
  [active   |-> active,
   queued   |-> Len(queue),
   requests |-> [o \in Outcomes |-> Cardinality({r \in Req : recorded[r] = o})]]

-----------------------------------------------------------------------------
(* Properties.                                                             *)

(* "A streaming request occupies an active admission slot for the ENTIRE   *)
(* lifetime of the stream": the handler is inside its backend call or its  *)
(* stream, the abandoned one included, exactly while it holds a slot of    *)
(* the controller.  Nothing is said of a response whose generator has not  *)
(* started.  The docstring of _streaming_completion promises it a slot,    *)
(* "acquired BEFORE the StreamingResponse is created", and the code has    *)
(* none for it yet: acquire() is in the generator (RouteStreaming).        *)
SlotHeldWhileServing ==
  \A r \in Req :
    stage[r] # "headers" =>
      (stage[r] \in {"generating", "upstream", "sending", "lastsend", "abandoned"}
         <=> pc[r] = "active")

(* "Failed/cancelled requests DO count": every request that reached        *)
(* admission ends with a record, unless the database refused it.           *)
EveryAdmittedRecorded ==
  \A r \in Req :
    stage[r] = "over" /\ pc[r] # "new" => recorded[r] # "none" \/ r \in lost

(* The record is there and tells what happened at the gate and what the    *)
(* client got: completed needs a slot and a whole answer of the backend;   *)
(* rejected and timed_out never had a slot; what failed was not answered   *)
(* with a 200.                                                             *)
RecordTellsFate ==
  /\ EveryAdmittedRecorded
  /\ \A r \in Req :
       /\ recorded[r] = "completed" => pc[r] = "done" /\ answer[r] \in {"200", "5xx"}
       /\ recorded[r] = "rejected" => pc[r] = "rejected" /\ answer[r] = "429"
       /\ recorded[r] = "timed_out" => pc[r] = "timedout" /\ answer[r] = "503"
       /\ recorded[r] \in {"failed", "cancelled"} /\ r \notin Streaming
            => answer[r] # "200"

(* The ledger: what the page shows as running, as queued and as ended adds *)
(* up to the requests that have reached admission, each once.  Missing are *)
(* those on their way from a grant to the slot, which are neither queued   *)
(* nor active, and the lost records; counted twice are those cancelled in  *)
(* the queue, until a release pops what they have left there.              *)
LedgerBalances ==
  LET page == ObservabilityPage
      shown == page.active + page.queued
                 + page.requests["completed"] + page.requests["failed"]
                 + page.requests["cancelled"] + page.requests["timed_out"]
                 + page.requests["rejected"]
      granting == {r \in Req : Adm!InHand(r) /\ pc[r] # "active"}
      leftInQueue ==
        {r \in Req : pc[r] = "cancelled" /\ \E i \in DOMAIN queue : queue[i] = r}
  IN  shown + Cardinality(granting) + Cardinality(lost)
        = Cardinality({r \in Req : pc[r] # "new"}) + Cardinality(leftInQueue)

(* Whoever arrives is refused, served or recorded in the end: where the    *)
(* peers read and write, nobody waits or holds a slot forever, whoever     *)
(* else times out, is cancelled or leaves a generator behind.  (A request  *)
(* is over for good, so that all of them are at once some day.)            *)
EveryRequestEnds == <>[](\A r \in Req : stage[r] \in {"new", "over"})

(* "rejected: queue full", "timed_out: queue timeout" (ARCHITECTURE.md).   *)
(* The code does not keep this for streams.                                *)
OutcomeNamesCause ==
  \A r \in Req :
    /\ pc[r] = "rejected" => recorded[r] = "rejected"
    /\ pc[r] = "timedout" => recorded[r] = "timed_out"

(* "A queued request that waits longer than queue_timeout_seconds is       *)
(* rejected": the wait for a slot ends by itself, whatever the peers of    *)
(* the requests that hold one do.  The code does not keep this: a granted  *)
(* request that finds its slot taken waits in the semaphore, which has no  *)
(* timeout, behind a stream, which has none either.                        *)
QueueWaitEnds == \A r \in Req : stage[r] = "waiting" ~> stage[r] # "waiting"
=============================================================================
