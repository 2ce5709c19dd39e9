------------------------ MODULE ChatCompletionProofs ------------------------
(***************************************************************************)
(* Theorems about ChatCompletion, for every set of requests, those that    *)
(* stream among them, every number of slots and places in the queue.       *)
(*                                                                         *)
(* The handler drives the controller of module Admission; what is proved   *)
(* of that controller alone is brought in as AP and holds here as well.    *)
(***************************************************************************)
EXTENDS ChatCompletion, TLAPS, FiniteSetTheorems, SequenceTheorems

AP == INSTANCE AdmissionProofs

-----------------------------------------------------------------------------
(* The inductive invariant.                                                *)

Outside == {"new", "routing", "headers"}
Serving == {"generating", "upstream", "sending", "lastsend", "abandoned"}
Answers == {"none", "refused", "200", "429", "503", "5xx"}
Fates == {"new", "done", "rejected", "timedout", "cancelled"}
Points == {"new", "queued", "semwait", "active", "done", "rejected", "timedout", "cancelled"}

ChatType ==
  /\ stage \in [Req -> Stages]
  /\ answer \in [Req -> Answers]
  /\ recorded \in [Req -> Outcomes \cup {"none"}]
  /\ lost \in SUBSET Req
  /\ sent \in [Req -> 0 .. MaxChunks]

(* A handler at s belongs to a task that is at p in the controller.        *)
Gate(r, s, p) ==
  /\ s \in Outside => p = "new"
  /\ s = "waiting" => p \in {"queued", "semwait"}
  /\ s \in Serving => p = "active"
  /\ s = "over" => p \in Fates
  /\ s \in Serving \cup {"headers"} => s = "generating" \/ r \in Streaming

(* What the client of r was answered (a) and what is on record (o), the    *)
(* record perhaps being lost (l).                                          *)
Told(r, s, p, a, o, l) ==
  /\ s # "over" => o = "none" /\ (r \notin Streaming => a = "none")
  /\ s = "over" /\ p # "new" => o # "none" \/ l
  /\ o = "completed" => p = "done" /\ a \in {"200", "5xx"}
  /\ o = "rejected" => p = "rejected" /\ a = "429"
  /\ o = "timed_out" => p = "timedout" /\ a = "503"
  /\ o \in {"failed", "cancelled"} /\ r \notin Streaming => a # "200"
  /\ o # "none" \/ l => p \in Fates \ {"new"}
  /\ l => o = "none"

Consistent(r) ==
  /\ Gate(r, stage[r], pc[r])
  /\ Told(r, stage[r], pc[r], answer[r], recorded[r], r \in lost)

ChatInv == ChatType /\ \A r \in Req : Consistent(r)

IndInv == AP!IndInv /\ AP!Known /\ ChatInv

-----------------------------------------------------------------------------
(* The controller.                                                         *)

LEMMA GateAssumption == AP!AdmissionAssumption
  BY ChatAssumption DEF AP!AdmissionAssumption

LEMMA SameSizes ==
  /\ \A S : Adm!Cardinality(S) = AP!Cardinality(S)
  /\ \A S : Adm!IsFiniteSet(S) <=> AP!IsFiniteSet(S)
  /\ \A S : Cardinality(S) = AP!Cardinality(S)
  /\ \A S : IsFiniteSet(S) <=> AP!IsFiniteSet(S)
  BY DEF Adm!Cardinality, AP!Cardinality, Adm!IsFiniteSet, AP!IsFiniteSet,
         Cardinality, IsFiniteSet

LEMMA SameLists ==
  /\ \A ws, wk : Adm!Pending(ws, wk) = AP!Pending(ws, wk)
  /\ \A ws, a, b : Adm!Before(ws, a, b) <=> AP!Before(ws, a, b)
  /\ \A s, r, t : Adm!Without(s, r, t) <=> AP!Without(s, r, t)
  BY DEF Adm!Pending, AP!Pending, Adm!Before, AP!Before, Adm!Without, AP!Without,
         Adm!RemoveAt, AP!RemoveAt, Adm!ToSet, AP!ToSet

LEMMA SameWakeUp ==
  ASSUME NEW n, NEW v, NEW ws, NEW wk
  PROVE  Adm!WakeUp(n, v, ws, wk) => AP!WakeUp(n, v, ws, wk)
  <1> SUFFICES ASSUME Adm!WakeUp(n, v, ws, wk) PROVE AP!WakeUp(n, v, ws, wk)
    OBVIOUS
  <1>1. PICK W \in SUBSET Adm!Pending(ws, wk) :
          /\ Adm!IsFiniteSet(W)
          /\ Adm!Cardinality(W) <= n
          /\ Adm!Cardinality(W) < n => W = Adm!Pending(ws, wk)
          /\ \A a \in W : \A b \in Adm!Pending(ws, wk) \ W : Adm!Before(ws, a, b)
          /\ woken' = wk \cup W
          /\ value' = v - Adm!Cardinality(W)
    BY DEF Adm!WakeUp
  <1>2. Adm!Cardinality(W) = AP!Cardinality(W) /\ AP!IsFiniteSet(W)
    BY <1>1, SameSizes
  <1> QED BY <1>1, <1>2, SameLists DEF AP!WakeUp

(* The controller that the handler drives is the one of AdmissionProofs.   *)
LEMMA SameController ==
  ASSUME NEW r \in Req
  PROVE  /\ Adm!AcquireFast(r) => AP!AcquireFast(r)
         /\ Adm!AcquireReject(r) => AP!AcquireReject(r)
         /\ Adm!Enqueue(r) => AP!Enqueue(r)
         /\ Adm!TakeGrantedSlot(r) => AP!TakeGrantedSlot(r)
         /\ Adm!TakeHandedSlot(r) => AP!TakeHandedSlot(r)
         /\ Adm!QueueTimeout(r) => AP!QueueTimeout(r)
         /\ Adm!Cancel(r) => AP!Cancel(r)
         /\ Adm!Release(r) => AP!Release(r)
  <1>1. /\ Adm!AcquireFast(r) => AP!AcquireFast(r)
        /\ Adm!AcquireReject(r) => AP!AcquireReject(r)
        /\ Adm!Enqueue(r) => AP!Enqueue(r)
        /\ Adm!TakeGrantedSlot(r) => AP!TakeGrantedSlot(r)
    BY DEF Adm!AcquireFast, AP!AcquireFast, Adm!AcquireReject, AP!AcquireReject,
           Adm!Enqueue, AP!Enqueue, Adm!TakeGrantedSlot, AP!TakeGrantedSlot,
           Adm!Locked, AP!Locked
  <1>2. Adm!QueueTimeout(r) => AP!QueueTimeout(r)
    BY SameLists DEF Adm!QueueTimeout, AP!QueueTimeout
  <1>3. Adm!TakeHandedSlot(r) => AP!TakeHandedSlot(r)
    BY SameLists, SameWakeUp DEF Adm!TakeHandedSlot, AP!TakeHandedSlot
  <1>4. Adm!Cancel(r) => AP!Cancel(r)
    <2>1. Adm!CancelQueued(r) => AP!CancelQueued(r)
      BY DEF Adm!CancelQueued, AP!CancelQueued
    <2>2. Adm!CancelSemWait(r) => AP!CancelSemWait(r)
      BY SameLists, SameWakeUp DEF Adm!CancelSemWait, AP!CancelSemWait
    <2> QED BY <2>1, <2>2 DEF Adm!Cancel, AP!Cancel
  <1>5. Adm!Release(r) => AP!Release(r)
    BY SameWakeUp DEF Adm!Release, AP!Release
  <1> QED BY <1>1, <1>2, <1>3, <1>4, <1>5
(* What the controller's operations do to the task of r.                   *)
LEMMA GateMoves ==
  ASSUME NEW r \in Req
  PROVE  /\ Adm!AcquireFast(r) => pc' = [pc EXCEPT ![r] = "active"]
         /\ Adm!AcquireReject(r) => pc' = [pc EXCEPT ![r] = "rejected"]
         /\ Adm!Enqueue(r) => pc' = [pc EXCEPT ![r] = "queued"]
         /\ Adm!TakeGrantedSlot(r) \/ Adm!TakeHandedSlot(r)
              => \E p \in {"active", "semwait"} : pc' = [pc EXCEPT ![r] = p]
         /\ Adm!QueueTimeout(r) => pc' = [pc EXCEPT ![r] = "timedout"]
         /\ Adm!Cancel(r) => pc' = [pc EXCEPT ![r] = "cancelled"]
         /\ Adm!Release(r) => pc' = [pc EXCEPT ![r] = "done"]
  BY DEF Adm!AcquireFast, Adm!AcquireReject, Adm!Enqueue, Adm!TakeGrantedSlot,
         Adm!TakeHandedSlot, Adm!QueueTimeout, Adm!Cancel, Adm!CancelQueued,
         Adm!CancelSemWait, Adm!Release

LEMMA PointType == AP!IndInv => pc \in [Req -> Points]
  BY DEF AP!IndInv, AP!TypeOK, AP!Suspended, AP!Ended, Points

-----------------------------------------------------------------------------
(* The handler.                                                            *)

(* r and nobody else goes to the stage s, with its task at p, is answered  *)
(* a and recorded as o, or its record is lost.                             *)
MovesTo(r, s, p, a, o) ==
  /\ stage' = [stage EXCEPT ![r] = s]
  /\ pc' = [pc EXCEPT ![r] = p]
  /\ answer' = [answer EXCEPT ![r] = a]
  /\ recorded' = [recorded EXCEPT ![r] = o]
  /\ lost' \in {lost, lost \cup {r}}
  /\ sent' \in [Req -> 0 .. MaxChunks]

LEMMA MoveKeeps ==
  ASSUME IndInv, NEW r \in Req,
         NEW s \in Stages, NEW p \in Points, NEW a \in Answers,
         NEW o \in Outcomes \cup {"none"}, MovesTo(r, s, p, a, o),
         Gate(r, s, p), Told(r, s, p, a, o, r \in lost')
  PROVE  ChatInv'
  <1>1. ChatType /\ pc \in [Req -> Points]
    BY PointType DEF IndInv, ChatInv
  <1>2. ChatType'
    BY <1>1 DEF ChatType, MovesTo
  <1>3. ASSUME NEW q \in Req, q # r PROVE Consistent(q)'
    <2>1. /\ stage'[q] = stage[q] /\ pc'[q] = pc[q] /\ answer'[q] = answer[q]
          /\ recorded'[q] = recorded[q] /\ (q \in lost' <=> q \in lost)
      BY <1>1, <1>3 DEF ChatType, MovesTo
    <2>2. Consistent(q)
      BY DEF IndInv, ChatInv
    <2>3. Gate(q, stage'[q], pc'[q])
      BY <2>1, <2>2 DEF Consistent
    <2>4. Told(q, stage'[q], pc'[q], answer'[q], recorded'[q], q \in lost')
      BY <2>1, <2>2 DEF Consistent, Told
    <2> QED BY <2>3, <2>4 DEF Consistent, Gate, Told
  <1>4. Consistent(r)'
    <2>1. /\ stage'[r] = s /\ pc'[r] = p /\ answer'[r] = a /\ recorded'[r] = o
      BY <1>1 DEF ChatType, MovesTo
    <2>2. Gate(r, stage'[r], pc'[r])
      BY <2>1
    <2>3. Told(r, stage'[r], pc'[r], answer'[r], recorded'[r], r \in lost')
      BY <2>1 DEF Told
    <2> QED BY <2>2, <2>3 DEF Consistent, Gate, Told
  <1> QED BY <1>2, <1>3, <1>4 DEF ChatInv

(* What a request is and has before its handler takes a step.              *)
LEMMA AsIs ==
  ASSUME IndInv, NEW r \in Req
  PROVE  /\ stage[r] \in Stages /\ pc[r] \in Points /\ answer[r] \in Answers
         /\ pc = [pc EXCEPT ![r] = pc[r]]
         /\ answer = [answer EXCEPT ![r] = answer[r]]
         /\ recorded = [recorded EXCEPT ![r] = recorded[r]]
         /\ stage[r] # "over" => recorded[r] = "none" /\ r \notin lost
         /\ stage[r] # "over" /\ r \notin Streaming => answer[r] = "none"
         /\ Gate(r, stage[r], pc[r])
  <1>1. ChatType /\ pc \in [Req -> Points] /\ Consistent(r)
    BY PointType DEF IndInv, ChatInv
  <1> QED BY <1>1 DEF ChatType, Consistent, Told, Gate, Stages, Outside, Serving, Fates

(* A handler that goes on, or ends before it has reached the controller.   *)
LEMMA GotoKeeps ==
  ASSUME IndInv, NEW r \in Req, stage[r] # "over",
         NEW s \in Stages, NEW p \in Points, NEW a \in Answers,
         Goto(r, s), pc' = [pc EXCEPT ![r] = p], answer' = [answer EXCEPT ![r] = a],
         Gate(r, s, p), s = "over" => p = "new",
         s # "over" /\ r \notin Streaming => a = "none"
  PROVE  ChatInv'
  <1>1. MovesTo(r, s, p, a, "none")
    <2>1. sent \in [Req -> 0 .. MaxChunks]
      BY DEF IndInv, ChatInv, ChatType
    <2> QED BY <2>1, AsIs DEF MovesTo, Goto
  <1>2. Told(r, s, p, a, "none", r \in lost')
    BY AsIs DEF Told, Goto
  <1> QED BY <1>1, <1>2, MoveKeeps

(* A handler that ends with an outcome, whether it gets on record or not.  *)
LEMMA FinishKeeps ==
  ASSUME IndInv, NEW r \in Req, stage[r] # "over",
         NEW status \in Outcomes, NEW code \in Answers, NEW p \in Fates \ {"new"},
         Finish(r, status, code), pc' = [pc EXCEPT ![r] = p],
         Told(r, "over", p, code, status, FALSE)
  PROVE  ChatInv'
  <1>1. /\ "over" \in Stages /\ p \in Points /\ status \in Outcomes \cup {"none"}
        /\ Gate(r, "over", p)
    BY DEF Stages, Points, Fates, Gate, Outside, Serving
  <1>2. sent \in [Req -> 0 .. MaxChunks]
    BY DEF IndInv, ChatInv, ChatType
  <1>3. CASE recorded' = [recorded EXCEPT ![r] = status] /\ UNCHANGED lost
    <2>1. MovesTo(r, "over", p, code, status)
      BY <1>2, <1>3 DEF MovesTo, Finish
    <2>2. Told(r, "over", p, code, status, r \in lost')
      BY <1>3, AsIs DEF Told, Outcomes
    <2> QED BY <1>1, <2>1, <2>2, MoveKeeps
  <1>4. CASE lost' = lost \cup {r} /\ UNCHANGED recorded
    <2>1. MovesTo(r, "over", p, code, "none")
      BY <1>2, <1>4, AsIs DEF MovesTo, Finish
    <2>2. Told(r, "over", p, code, "none", r \in lost')
      BY <1>4 DEF Told
    <2> QED BY <1>1, <2>1, <2>2, MoveKeeps
  <1> QED BY <1>3, <1>4 DEF Finish

-----------------------------------------------------------------------------
(* The actions keep the invariant of the handler.                          *)

LEMMA ArriveKeeps ==
  ASSUME IndInv, NEW r \in Req, Arrive(r) PROVE ChatInv'
  <1>1. /\ stage[r] = "new" /\ pc[r] = "new" /\ UNCHANGED pc
        /\ "routing" \in Stages /\ "over" \in Stages /\ "refused" \in Answers
    BY AsIs DEF Arrive, PrecheckPass, PrecheckRefuse, Refuse, admVars, Gate, Outside,
                Stages, Answers
  <1>2. Gate(r, "routing", "new") /\ Gate(r, "over", "new")
    BY DEF Gate, Outside, Serving, Fates
  <1>3. CASE PrecheckPass(r)
    BY <1>1, <1>2, <1>3, AsIs, GotoKeeps DEF PrecheckPass
  <1>4. CASE PrecheckRefuse(r)
    BY <1>1, <1>2, <1>4, AsIs, GotoKeeps DEF PrecheckRefuse, Refuse
  <1> QED BY <1>3, <1>4 DEF Arrive

(* The body of the `async with' begins.                                    *)
LEMMA BeginKeeps ==
  ASSUME IndInv, NEW r \in Req, stage[r] # "over", Begin(r),
         pc' = [pc EXCEPT ![r] = "active"]
  PROVE  ChatInv'
  <1> DEFINE s == IF r \in Streaming THEN "upstream" ELSE "generating"
  <1>1. s \in Stages /\ "active" \in Points /\ s # "over"
    BY DEF Stages, Points
  <1>2. Gate(r, s, "active")
    BY DEF Gate, Outside, Serving
  <1> QED BY <1>1, <1>2, AsIs, GotoKeeps DEF Begin

LEMMA EnterKeeps ==
  ASSUME IndInv, NEW r \in Req, stage[r] \in {"routing", "headers"}, Enter(r)
  PROVE  ChatInv'
  <1>1. CASE Adm!AcquireFast(r) /\ Begin(r)
    BY <1>1, GateMoves, BeginKeeps
  <1>2. CASE Adm!Enqueue(r) /\ Goto(r, "waiting") /\ UNCHANGED answer
    <2>1. "waiting" \in Stages /\ "queued" \in Points /\ Gate(r, "waiting", "queued")
      BY DEF Stages, Points, Gate, Outside, Serving
    <2> QED BY <1>2, <2>1, AsIs, GateMoves, GotoKeeps
  <1>3. CASE Adm!AcquireReject(r) /\ r \in Streaming /\ Finish(r, "cancelled", "200")
    <2>1. Told(r, "over", "rejected", "200", "cancelled", FALSE)
      BY <1>3 DEF Told, Fates
    <2>2. pc' = [pc EXCEPT ![r] = "rejected"]
      BY <1>3, GateMoves
    <2> QED BY <1>3, <2>1, <2>2, FinishKeeps DEF Outcomes, Answers, Fates
  <1>4. CASE Adm!AcquireReject(r) /\ r \notin Streaming /\ Finish(r, "rejected", "429")
    <2>1. Told(r, "over", "rejected", "429", "rejected", FALSE)
      BY DEF Told, Fates
    <2>2. pc' = [pc EXCEPT ![r] = "rejected"]
      BY <1>4, GateMoves
    <2> QED BY <1>4, <2>1, <2>2, FinishKeeps DEF Outcomes, Answers, Fates
  <1> QED BY <1>1, <1>2, <1>3, <1>4 DEF Enter

LEMMA RouteKeeps ==
  ASSUME IndInv, NEW r \in Req, Route(r) PROVE ChatInv'
  <1>1. stage[r] = "routing" /\ pc[r] = "new"
    BY AsIs DEF Route, RouteFail, RouteNonStreaming, RouteStreaming, Gate, Outside
  <1>2. CASE RouteFail(r)
    <2>1. /\ "over" \in Stages /\ "refused" \in Answers /\ "new" \in Points
          /\ Gate(r, "over", "new")
      BY DEF Stages, Answers, Points, Gate, Outside, Serving, Fates
    <2>2. Goto(r, "over") /\ pc' = [pc EXCEPT ![r] = "new"]
      BY <1>1, <1>2, AsIs DEF RouteFail, Refuse, admVars
    <2> QED BY <1>1, <1>2, <2>1, <2>2, GotoKeeps DEF RouteFail, Refuse
  <1>3. CASE RouteNonStreaming(r)
    BY <1>1, <1>3, EnterKeeps DEF RouteNonStreaming
  <1>4. CASE RouteStreaming(r)
    <2>1. "headers" \in Stages /\ "200" \in Answers /\ Gate(r, "headers", "new")
      BY <1>4 DEF RouteStreaming, Stages, Answers, Gate, Outside, Serving
    <2> QED BY <1>1, <1>4, <2>1, AsIs, GotoKeeps DEF RouteStreaming, admVars
  <1> QED BY <1>2, <1>3, <1>4 DEF Route

LEMMA OpenKeeps ==
  ASSUME IndInv, NEW r \in Req, Open(r) PROVE ChatInv'
  <1>1. stage[r] = "headers" /\ pc[r] = "new"
    BY AsIs DEF Open, StartGenerator, DropResponse, Gate, Outside
  <1>2. CASE StartGenerator(r)
    BY <1>1, <1>2, EnterKeeps DEF StartGenerator
  <1>3. CASE DropResponse(r)
    <2>1. "over" \in Stages /\ "new" \in Points /\ Gate(r, "over", "new")
      BY DEF Stages, Points, Gate, Outside, Serving, Fates
    <2>2. /\ Goto(r, "over") /\ answer[r] \in Answers
          /\ pc' = [pc EXCEPT ![r] = "new"] /\ answer' = [answer EXCEPT ![r] = answer[r]]
      BY <1>1, <1>3, AsIs DEF DropResponse, admVars
    <2> QED BY <1>1, <2>1, <2>2, GotoKeeps
  <1> QED BY <1>2, <1>3 DEF Open

LEMMA WaitKeeps ==
  ASSUME IndInv, NEW r \in Req, Wait(r) \/ WaitCancelled(r) PROVE ChatInv'
  <1>1. stage[r] = "waiting"
    BY DEF Wait, WaitEnds, WaitTimesOut, WaitCancelled
  <1>2. CASE WaitEnds(r)
    <2>1. PICK p \in {"active", "semwait"} : pc' = [pc EXCEPT ![r] = p]
      BY <1>2, GateMoves DEF WaitEnds
    <2>2. pc'[r] = p
      BY <2>1, PointType DEF IndInv
    <2>3. CASE p = "active"
      BY <1>1, <1>2, <2>1, <2>2, <2>3, BeginKeeps DEF WaitEnds
    <2>4. CASE p = "semwait"
      <3>1. "waiting" \in Stages /\ "semwait" \in Points /\ Gate(r, "waiting", "semwait")
        BY DEF Stages, Points, Gate, Outside, Serving
      <3>2. Goto(r, "waiting") /\ answer' = [answer EXCEPT ![r] = answer[r]]
        BY <1>2, <2>2, <2>4, AsIs DEF WaitEnds
      <3> QED BY <1>1, <2>1, <2>4, <3>1, <3>2, AsIs, GotoKeeps
    <2> QED BY <2>3, <2>4
  <1>3. CASE WaitTimesOut(r)
    <2>1. pc' = [pc EXCEPT ![r] = "timedout"]
      BY <1>3, GateMoves DEF WaitTimesOut
    <2>2. CASE r \in Streaming
      <3>1. Told(r, "over", "timedout", "200", "cancelled", FALSE)
        BY <2>2 DEF Told, Fates
      <3> QED BY <1>1, <1>3, <2>1, <2>2, <3>1, FinishKeeps
                 DEF WaitTimesOut, Outcomes, Answers, Fates
    <2>3. CASE r \notin Streaming
      <3>1. Told(r, "over", "timedout", "503", "timed_out", FALSE)
        BY DEF Told, Fates
      <3> QED BY <1>1, <1>3, <2>1, <2>3, <3>1, FinishKeeps
                 DEF WaitTimesOut, Outcomes, Answers, Fates
    <2> QED BY <2>2, <2>3
  <1>4. CASE WaitCancelled(r)
    <2> DEFINE o == IF r \in Streaming THEN "cancelled" ELSE "failed"
    <2>1. pc' = [pc EXCEPT ![r] = "cancelled"] /\ Finish(r, o, answer[r])
      BY <1>4, GateMoves DEF WaitCancelled
    <2>2. o \in Outcomes /\ "cancelled" \in Fates \ {"new"}
      BY DEF Outcomes, Fates
    <2>3. Told(r, "over", "cancelled", answer[r], o, FALSE)
      BY <1>1, AsIs DEF Told, Fates
    <2> QED BY <1>1, <2>1, <2>2, <2>3, AsIs, FinishKeeps
  <1> QED BY <1>2, <1>3, <1>4 DEF Wait

(* The `async with' is left.                                               *)
LEMMA LeaveKeeps ==
  ASSUME IndInv, NEW r \in Req, stage[r] # "over",
         NEW status \in {"completed", "failed", "cancelled"},
         NEW code \in {"none", "200", "5xx"}, Leave(r, status, code),
         status = "completed" => code # "none",
         status # "completed" /\ r \notin Streaming => code # "200"
  PROVE  ChatInv'
  <1>1. pc' = [pc EXCEPT ![r] = "done"] /\ Finish(r, status, code)
    BY GateMoves DEF Leave
  <1>2. status \in Outcomes /\ code \in Answers /\ "done" \in Fates \ {"new"}
    BY DEF Outcomes, Answers, Fates
  <1>3. Told(r, "over", "done", code, status, FALSE)
    BY DEF Told, Fates
  <1> QED BY <1>1, <1>2, <1>3, FinishKeeps

LEMMA GenerationKeeps ==
  ASSUME IndInv, NEW r \in Req, Generation(r) \/ GenerationCancelled(r)
  PROVE  ChatInv'
  <1>1. stage[r] = "generating"
    BY DEF Generation, GenerationDone, GenerationUnfit, GenerationFails, GenerationCancelled
  <1>2. CASE GenerationDone(r)
    BY <1>1, <1>2, LeaveKeeps DEF GenerationDone
  <1>3. CASE GenerationUnfit(r)
    BY <1>1, <1>3, LeaveKeeps DEF GenerationUnfit
  <1>4. CASE GenerationFails(r)
    BY <1>1, <1>4, LeaveKeeps DEF GenerationFails
  <1>5. CASE GenerationCancelled(r)
    BY <1>1, <1>5, LeaveKeeps DEF GenerationCancelled
  <1> QED BY <1>2, <1>3, <1>4, <1>5 DEF Generation

LEMMA UpstreamKeeps ==
  ASSUME IndInv, NEW r \in Req, Upstream(r) \/ StreamCancelled(r)
  PROVE  ChatInv'
  <1>1. stage[r] = "upstream"
    BY DEF Upstream, StreamChunk, StreamExhausted, StreamFails, StreamCancelled
  <1>2. pc[r] = "active" /\ r \in Streaming
    BY <1>1, AsIs DEF Gate, Serving
  <1>3. CASE StreamChunk(r)
    <2>1. sent' \in [Req -> 0 .. MaxChunks]
      <3>1. sent \in [Req -> 0 .. MaxChunks] /\ MaxChunks \in Nat
        BY ChatAssumption DEF IndInv, ChatInv, ChatType
      <3> QED BY <1>3, <3>1 DEF StreamChunk
    <2>2. MovesTo(r, "sending", "active", answer[r], "none")
      BY <1>1, <1>2, <1>3, <2>1, AsIs DEF MovesTo, StreamChunk, admVars
    <2>3. /\ "sending" \in Stages /\ "active" \in Points /\ answer[r] \in Answers
          /\ Gate(r, "sending", "active")
      BY <1>2, AsIs DEF Stages, Points, Gate, Outside, Serving
    <2>4. Told(r, "sending", "active", answer[r], "none", r \in lost')
      BY <1>1, <1>2, <1>3, AsIs DEF Told, StreamChunk
    <2> QED BY <2>2, <2>3, <2>4, MoveKeeps
  <1>4. CASE StreamExhausted(r)
    <2>1. "lastsend" \in Stages /\ "active" \in Points /\ Gate(r, "lastsend", "active")
      BY <1>2 DEF Stages, Points, Gate, Outside, Serving
    <2> QED BY <1>1, <1>2, <1>4, <2>1, AsIs, GotoKeeps DEF StreamExhausted, admVars
  <1>5. CASE StreamFails(r)
    BY <1>1, <1>2, <1>5, LeaveKeeps DEF StreamFails
  <1>6. CASE StreamCancelled(r)
    BY <1>1, <1>2, <1>6, LeaveKeeps DEF StreamCancelled
  <1> QED BY <1>3, <1>4, <1>5, <1>6 DEF Upstream

LEMMA WriteKeeps ==
  ASSUME IndInv, NEW r \in Req, Write(r) \/ CloseGenerator(r)
  PROVE  ChatInv'
  <1>1. stage[r] \in {"sending", "lastsend", "abandoned"}
    BY DEF Write, ChunkSent, DoneSent, ClientGone, CloseGenerator
  <1>2. pc[r] = "active" /\ r \in Streaming /\ stage[r] # "over"
    BY <1>1, AsIs DEF Gate, Serving
  <1>3. ASSUME NEW s \in {"upstream", "abandoned"}, Goto(r, s), UNCHANGED <<admVars, answer>>
        PROVE  ChatInv'
    <2>1. s \in Stages /\ "active" \in Points /\ Gate(r, s, "active") /\ s # "over"
      BY <1>2 DEF Stages, Points, Gate, Outside, Serving
    <2> QED BY <1>2, <1>3, <2>1, AsIs, GotoKeeps DEF admVars
  <1>4. CASE ChunkSent(r)
    BY <1>3, <1>4 DEF ChunkSent
  <1>5. CASE ClientGone(r)
    BY <1>3, <1>5 DEF ClientGone
  <1>6. CASE DoneSent(r)
    BY <1>2, <1>6, LeaveKeeps DEF DoneSent
  <1>7. CASE CloseGenerator(r)
    BY <1>2, <1>7, LeaveKeeps DEF CloseGenerator
  <1> QED BY <1>4, <1>5, <1>6, <1>7 DEF Write

-----------------------------------------------------------------------------
(* A step of the handler is a step of the controller, or none.             *)
LEMMA ControllerStep == Next => AP!Next \/ UNCHANGED admVars
  <1> SUFFICES ASSUME NEW r \in Req,
                      \/ Arrive(r) \/ Route(r) \/ Open(r) \/ Wait(r)
                      \/ Generation(r) \/ Upstream(r) \/ Write(r)
                      \/ Interrupt(r) \/ CloseGenerator(r)
               PROVE  AP!Next \/ UNCHANGED admVars
    BY Zenon DEF Next
  <1> DEFINE Drives ==
        \/ Adm!AcquireFast(r) \/ Adm!AcquireReject(r) \/ Adm!Enqueue(r)
        \/ Adm!TakeGrantedSlot(r) \/ Adm!TakeHandedSlot(r)
        \/ Adm!QueueTimeout(r) \/ Adm!Cancel(r) \/ Adm!Release(r)
  <1>1. Drives => AP!Next
    BY SameController DEF AP!Next, AP!Acquire
  <1>2. Drives \/ UNCHANGED admVars
    <2>1. Enter(r) => Drives
      BY DEF Enter
    <2>2. ASSUME Arrive(r) \/ Route(r) \/ Open(r) PROVE Drives \/ UNCHANGED admVars
      BY <2>1, <2>2 DEF Arrive, PrecheckPass, PrecheckRefuse, Route, RouteFail,
         RouteNonStreaming, RouteStreaming, Open, StartGenerator, DropResponse, Refuse
    <2>3. ASSUME Wait(r) \/ Interrupt(r) PROVE Drives
      BY <2>3 DEF Wait, WaitEnds, WaitTimesOut, Interrupt, WaitCancelled,
         GenerationCancelled, StreamCancelled, Leave
    <2>4. ASSUME Generation(r) \/ Upstream(r) \/ Write(r) \/ CloseGenerator(r)
          PROVE  Drives \/ UNCHANGED admVars
      BY <2>4 DEF Generation, GenerationDone, GenerationUnfit, GenerationFails,
         Upstream, StreamChunk, StreamExhausted, StreamFails, Write, ChunkSent,
         DoneSent, ClientGone, CloseGenerator, Leave
    <2> QED BY <2>2, <2>3, <2>4
  <1> QED BY <1>1, <1>2

LEMMA InitIndInv == Init => IndInv
  <1> SUFFICES ASSUME Init PROVE IndInv
    OBVIOUS
  <1>1. AP!IndInv /\ AP!Known
    <2>1. AP!Init
      BY DEF Init, Adm!Init, AP!Init
    <2> QED BY <2>1, GateAssumption, AP!InitIndInv, AP!InitKnown
  <1>2. ChatType
    BY ChatAssumption DEF Init, ChatType, Stages, Answers
  <1>3. ASSUME NEW r \in Req PROVE Consistent(r)
    BY DEF Init, Adm!Init, Consistent, Gate, Told, Outside, Serving
  <1> QED BY <1>1, <1>2, <1>3 DEF IndInv, ChatInv

LEMMA StepIndInv == IndInv /\ [Next]_vars => IndInv'
  <1> SUFFICES ASSUME IndInv, [Next]_vars PROVE IndInv'
    OBVIOUS
  <1>1. AP!IndInv' /\ AP!Known'
    <2>1. [AP!Next]_(AP!vars)
      BY ControllerStep DEF vars, admVars, AP!vars
    <2> QED BY <2>1, GateAssumption, AP!StepIndInv, AP!StepKnown DEF IndInv
  <1>2. ChatInv'
    <2>1. CASE UNCHANGED vars
      BY <2>1 DEF IndInv, ChatInv, ChatType, Consistent, Gate, Told, vars, admVars, chatVars
    <2>2. CASE Next
      BY <2>2, ArriveKeeps, RouteKeeps, OpenKeeps, WaitKeeps, GenerationKeeps,
         UpstreamKeeps, WriteKeeps DEF Next, Interrupt
    <2> QED BY <2>1, <2>2
  <1> QED BY <1>1, <1>2 DEF IndInv

LEMMA IndInvHolds == Spec => []IndInv
  BY InitIndInv, StepIndInv, PTL DEF Spec

-----------------------------------------------------------------------------
(* The ledger.                                                             *)

LEMMA Apart ==
  ASSUME NEW A, IsFiniteSet(A), NEW B, IsFiniteSet(B), A \cap B = {}
  PROVE  /\ IsFiniteSet(A \cup B)
         /\ Cardinality(A) \in Nat /\ Cardinality(B) \in Nat
         /\ Cardinality(A \cup B) = Cardinality(A) + Cardinality(B)
  <1>1. IsFiniteSet(A \cup B)
          /\ Cardinality(A \cup B) = Cardinality(A) + Cardinality(B) - Cardinality(A \cap B)
    BY FS_Union
  <1>2. Cardinality(A \cap B) = 0
    BY FS_EmptySet
  <1>3. Cardinality(A) \in Nat /\ Cardinality(B) \in Nat
    BY FS_CardinalityType
  <1> QED BY <1>1, <1>2, <1>3

(* Where the requests are that have reached admission.                     *)
Running == {r \in Req : pc[r] = "active"}
Granting == {r \in Req : Adm!InHand(r) /\ pc[r] # "active"}
Queueing == {r \in Req : pc[r] = "queued" /\ ~granted[r]}
LeftInQueue == {r \in Req : pc[r] = "cancelled" /\ \E i \in DOMAIN queue : queue[i] = r}
Ending == {r \in Req : pc[r] \in Fates \ {"new"}}
Arrived == {r \in Req : pc[r] # "new"}
As(o) == {r \in Req : recorded[r] = o}

LEMMA AllAreFinite ==
  ASSUME IndInv
  PROVE  /\ IsFiniteSet(Arrived)
         /\ \A T \in SUBSET Arrived : IsFiniteSet(T) /\ Cardinality(T) \in Nat
  <1>1. IsFiniteSet(Arrived)
    BY SameSizes DEF IndInv, AP!Known, AP!Arrived, Arrived
  <1> QED BY <1>1, FS_Subset, FS_CardinalityType

(* A request that ended at the gate has its record or has lost it.         *)
LEMMA RecordsOfEnded ==
  ASSUME IndInv
  PROVE  /\ As("completed") \cup As("failed") \cup As("cancelled") \cup As("timed_out")
              \cup As("rejected") \cup lost = Ending
         /\ \A o \in Outcomes : As(o) \cap lost = {}
  <1>1. ASSUME NEW r \in Req
        PROVE  /\ r \in Ending <=> recorded[r] # "none" \/ r \in lost
               /\ r \in lost => recorded[r] = "none"
               /\ recorded[r] \in Outcomes \cup {"none"}
    <2>1. Consistent(r) /\ stage[r] \in Stages /\ recorded[r] \in Outcomes \cup {"none"}
      BY AsIs DEF IndInv, ChatInv, ChatType
    <2>2. pc[r] \in Fates \ {"new"} => stage[r] = "over"
      BY <2>1 DEF Consistent, Gate, Stages, Outside, Serving, Fates
    <2> QED BY <2>1, <2>2 DEF Consistent, Told, Ending, Fates
  <1>2. lost \subseteq Req
    BY DEF IndInv, ChatInv, ChatType
  <1>3. "none" \notin Outcomes
    BY DEF Outcomes
  <1>4. ASSUME NEW o \in Outcomes PROVE As(o) \cap lost = {}
    BY <1>1, <1>3 DEF As
  <1>5. As("completed") \cup As("failed") \cup As("cancelled") \cup As("timed_out")
          \cup As("rejected") = {r \in Req : recorded[r] # "none"}
    BY <1>1 DEF As, Outcomes
  <1>6. {r \in Req : recorded[r] # "none"} \cup lost = Ending
    BY <1>1, <1>2 DEF Ending
  <1> QED BY <1>4, <1>5, <1>6

LEMMA EndedAreRecorded ==
  ASSUME IndInv
  PROVE  Cardinality(As("completed")) + Cardinality(As("failed"))
           + Cardinality(As("cancelled")) + Cardinality(As("timed_out"))
           + Cardinality(As("rejected")) + Cardinality(lost) = Cardinality(Ending)
  <1> DEFINE c == As("completed")
             f == c \cup As("failed")
             g == f \cup As("cancelled")
             t == g \cup As("timed_out")
             w == t \cup As("rejected")
  <1>1. \A o, p : o # p => As(o) \cap As(p) = {}
    BY DEF As
  <1>2. /\ c \cap As("failed") = {} /\ f \cap As("cancelled") = {}
        /\ g \cap As("timed_out") = {} /\ t \cap As("rejected") = {}
    BY DEF As
  <1>3. w \cap lost = {}
    BY RecordsOfEnded DEF Outcomes
  <1>4. w \cup lost = Ending
    BY RecordsOfEnded
  <1>5. Ending \subseteq Arrived
    BY DEF Ending, Arrived, Fates
  <1>6. /\ IsFiniteSet(As("completed")) /\ IsFiniteSet(As("failed"))
        /\ IsFiniteSet(As("cancelled")) /\ IsFiniteSet(As("timed_out"))
        /\ IsFiniteSet(As("rejected")) /\ IsFiniteSet(lost)
    BY <1>4, <1>5, AllAreFinite
  <1> HIDE DEF c, f, g, t, w
  <1>7. IsFiniteSet(c) /\ Cardinality(c) = Cardinality(As("completed"))
    BY <1>6 DEF c
  <1>8. /\ IsFiniteSet(f)
        /\ Cardinality(f) = Cardinality(c) + Cardinality(As("failed"))
    BY <1>2, <1>6, <1>7, Apart DEF f
  <1>9. /\ IsFiniteSet(g)
        /\ Cardinality(g) = Cardinality(f) + Cardinality(As("cancelled"))
    BY <1>2, <1>6, <1>8, Apart DEF g
  <1>10. /\ IsFiniteSet(t)
         /\ Cardinality(t) = Cardinality(g) + Cardinality(As("timed_out"))
    BY <1>2, <1>6, <1>9, Apart DEF t
  <1>11. /\ IsFiniteSet(w)
         /\ Cardinality(w) = Cardinality(t) + Cardinality(As("rejected"))
    BY <1>2, <1>6, <1>10, Apart DEF w
  <1>12. Cardinality(Ending) = Cardinality(w) + Cardinality(lost)
    BY <1>3, <1>4, <1>6, <1>11, Apart
  <1> QED BY <1>7, <1>8, <1>9, <1>10, <1>11, <1>12

(* In the queue are those that wait for a grant, and those that have been  *)
(* cancelled and left their entry there.                                   *)
LEMMA QueueHolds ==
  ASSUME IndInv
  PROVE  Len(queue) = Cardinality(Queueing) + Cardinality(LeftInQueue)
  <1>1. /\ queue \in Seq(Req) /\ AP!Distinct(queue) /\ AP!Listed
        /\ \A r \in AP!ToSet(queue) : pc[r] \in {"queued", "cancelled"} /\ ~granted[r]
    BY DEF IndInv, AP!IndInv, AP!TypeOK, AP!Lists, AP!QueueWellFormed, AP!Known
  <1>2. AP!Cardinality(AP!ToSet(queue)) = Len(queue)
    BY <1>1, GateAssumption, AP!LenIsCount
  <1>3. \A r : r \in AP!ToSet(queue) <=> \E i \in DOMAIN queue : queue[i] = r
    BY DEF AP!ToSet
  <1>4. AP!ToSet(queue) \subseteq Req
    BY <1>1, <1>3, ElementOfSeq, LenProperties
  <1>5. AP!ToSet(queue) = Queueing \cup LeftInQueue
    BY <1>1, <1>3, <1>4 DEF Queueing, LeftInQueue, AP!Listed
  <1>6. Queueing \cap LeftInQueue = {}
    BY DEF Queueing, LeftInQueue
  <1>7. IsFiniteSet(Queueing) /\ IsFiniteSet(LeftInQueue)
    BY AllAreFinite DEF Queueing, LeftInQueue, Arrived
  <1>8. Cardinality(Queueing \cup LeftInQueue)
          = Cardinality(Queueing) + Cardinality(LeftInQueue)
    BY <1>6, <1>7, Apart
  <1> QED BY <1>2, <1>5, <1>8, SameSizes

LEMMA ArrivedAreSomewhere ==
  ASSUME IndInv
  PROVE  Cardinality(Running) + Cardinality(Granting) + Cardinality(Queueing)
           + Cardinality(Ending) = Cardinality(Arrived)
  <1> DEFINE g == Running \cup Granting
             q == g \cup Queueing
  <1>1. pc \in [Req -> Points]
    BY PointType DEF IndInv
  <1>2. q \cup Ending = Arrived
    BY <1>1 DEF Running, Granting, Queueing, Ending, Arrived, Adm!InHand, Points, Fates
  <1>3. /\ Running \cap Granting = {} /\ g \cap Queueing = {} /\ q \cap Ending = {}
    BY DEF Running, Granting, Queueing, Ending, Adm!InHand, Fates
  <1>4. /\ IsFiniteSet(Running) /\ IsFiniteSet(Granting)
        /\ IsFiniteSet(Queueing) /\ IsFiniteSet(Ending)
    BY <1>2, AllAreFinite
  <1> HIDE DEF g, q
  <1>5. IsFiniteSet(g) /\ Cardinality(g) = Cardinality(Running) + Cardinality(Granting)
    BY <1>3, <1>4, Apart DEF g
  <1>6. IsFiniteSet(q) /\ Cardinality(q) = Cardinality(g) + Cardinality(Queueing)
    BY <1>3, <1>4, <1>5, Apart DEF q
  <1>7. Cardinality(Arrived) = Cardinality(q) + Cardinality(Ending)
    BY <1>2, <1>3, <1>4, <1>6, Apart
  <1> QED BY <1>5, <1>6, <1>7

LEMMA LedgerAdds == ASSUME IndInv PROVE LedgerBalances
  <1>1. active = Cardinality(Running)
    <2>1. active = AP!Cardinality(AP!Holders)
      BY DEF IndInv, AP!IndInv, AP!Slots, AP!ActiveCountExact
    <2> QED BY <2>1, SameSizes DEF AP!Holders, Running
  <1>2. /\ ObservabilityPage.active = active /\ ObservabilityPage.queued = Len(queue)
        /\ \A o \in Outcomes : ObservabilityPage.requests[o] = Cardinality(As(o))
    BY DEF ObservabilityPage, As
  <1>3. /\ ObservabilityPage.requests["completed"] = Cardinality(As("completed"))
        /\ ObservabilityPage.requests["failed"] = Cardinality(As("failed"))
        /\ ObservabilityPage.requests["cancelled"] = Cardinality(As("cancelled"))
        /\ ObservabilityPage.requests["timed_out"] = Cardinality(As("timed_out"))
        /\ ObservabilityPage.requests["rejected"] = Cardinality(As("rejected"))
    BY <1>2 DEF Outcomes
  <1>4. /\ Cardinality(As("completed")) \in Nat /\ Cardinality(As("failed")) \in Nat
        /\ Cardinality(As("cancelled")) \in Nat /\ Cardinality(As("timed_out")) \in Nat
        /\ Cardinality(As("rejected")) \in Nat /\ Cardinality(lost) \in Nat
    <2>1. Ending \subseteq Arrived
      BY DEF Ending, Arrived, Fates
    <2> QED BY <2>1, AllAreFinite, RecordsOfEnded
  <1>5. /\ Cardinality(Running) \in Nat /\ Cardinality(Granting) \in Nat
        /\ Cardinality(Queueing) \in Nat /\ Cardinality(LeftInQueue) \in Nat
        /\ Cardinality(Ending) \in Nat /\ Cardinality(Arrived) \in Nat
    <2>1. /\ Running \subseteq Arrived /\ Granting \subseteq Arrived
          /\ Queueing \subseteq Arrived /\ LeftInQueue \subseteq Arrived
          /\ Ending \subseteq Arrived
      BY DEF Running, Granting, Queueing, LeftInQueue, Ending, Arrived, Adm!InHand, Fates
    <2> QED BY <2>1, AllAreFinite
  <1>6. Cardinality(Running) + Len(queue)
          + Cardinality(As("completed")) + Cardinality(As("failed"))
          + Cardinality(As("cancelled")) + Cardinality(As("timed_out"))
          + Cardinality(As("rejected")) + Cardinality(Granting) + Cardinality(lost)
          = Cardinality(Arrived) + Cardinality(LeftInQueue)
    <2> DEFINE gate == Cardinality(Running) + Len(queue)
               records == Cardinality(As("completed")) + Cardinality(As("failed"))
                            + Cardinality(As("cancelled")) + Cardinality(As("timed_out"))
                            + Cardinality(As("rejected"))
    <2>1. records \in Nat /\ records + Cardinality(lost) = Cardinality(Ending)
      BY <1>4, EndedAreRecorded
    <2>2. /\ gate \in Nat
          /\ gate = Cardinality(Running) + Cardinality(Queueing) + Cardinality(LeftInQueue)
      BY <1>5, QueueHolds
    <2>3. Cardinality(Running) + Cardinality(Granting) + Cardinality(Queueing)
            + Cardinality(Ending) = Cardinality(Arrived)
      BY ArrivedAreSomewhere
    <2>4. gate + Cardinality(As("completed")) + Cardinality(As("failed"))
            + Cardinality(As("cancelled")) + Cardinality(As("timed_out"))
            + Cardinality(As("rejected")) = gate + records
      <3> HIDE DEF gate
      <3> QED BY <1>4, <2>2
    <2> HIDE DEF records
    <2>5. gate + records + Cardinality(Granting) + Cardinality(lost)
            = Cardinality(Arrived) + Cardinality(LeftInQueue)
      <3> HIDE DEF gate
      <3> QED BY <1>4, <1>5, <2>1, <2>2, <2>3
    <2> QED BY <2>4, <2>5
  <1> QED BY <1>1, <1>2, <1>3, <1>6 DEF LedgerBalances, Granting, Arrived, LeftInQueue

-----------------------------------------------------------------------------
(* Theorems.                                                               *)

(* Handlers, answers, records and the controller under them keep their     *)
(* types: _record_usage writes only the outcomes of usage_records.         *)
THEOREM TypeCorrect == Spec => []TypeOK
  <1>1. IndInv => TypeOK
    <2>1. AP!IndInv => Adm!TypeOK
      BY DEF AP!IndInv, AP!TypeOK, Adm!TypeOK, AP!Suspended, Adm!Suspended,
             AP!Ended, Adm!Ended
    <2> QED BY <2>1 DEF IndInv, ChatInv, ChatType, Answers, TypeOK
  <1> QED BY <1>1, IndInvHolds, PTL

(* The handler is in its backend call or its stream, an abandoned one      *)
(* included, exactly while acquire() holds a slot for it; of a response    *)
(* whose generator has not started the theorem says nothing.               *)
THEOREM SlotIsHeldWhileServing == Spec => []SlotHeldWhileServing
  <1>1. IndInv => SlotHeldWhileServing
    <2> SUFFICES ASSUME IndInv, NEW r \in Req
                 PROVE  stage[r] # "headers" => (stage[r] \in Serving <=> pc[r] = "active")
      BY DEF SlotHeldWhileServing, Serving
    <2>1. stage[r] \in Stages /\ Gate(r, stage[r], pc[r])
      BY AsIs
    <2> QED BY <2>1 DEF Gate, Stages, Outside, Serving, Fates
  <1> QED BY <1>1, IndInvHolds, PTL

(* Whoever reached admission is on record when the handler ends, unless    *)
(* the database refused it, and the record tells its fate at the gate and  *)
(* agrees with what the client was answered.                               *)
THEOREM RecordsTellFate == Spec => []RecordTellsFate
  <1>1. IndInv => RecordTellsFate
    BY DEF IndInv, ChatInv, Consistent, Told, RecordTellsFate, EveryAdmittedRecorded
  <1> QED BY <1>1, IndInvHolds, PTL

(* What the page shows as running, queued and ended adds up to those that  *)
(* have reached admission, but for the requests on their way to a granted  *)
(* slot, the lost records and the entries of the cancelled in the queue.   *)
THEOREM LedgerIsBalanced == Spec => []LedgerBalances
  BY IndInvHolds, LedgerAdds, PTL

(* The handler uses acquire() only as the controller is made to be used:   *)
(* whatever holds of the controller alone holds of it under the handler.   *)
THEOREM ControllerDriven == Spec => AP!Spec
  <1>1. Init => AP!Init
    BY DEF Init, Adm!Init, AP!Init
  <1>2. [Next]_vars => [AP!Next]_(AP!vars)
    BY ControllerStep DEF vars, admVars, AP!vars
  <1> QED BY <1>1, <1>2, PTL DEF Spec, AP!Spec

(* The server as a whole keeps the contract of its controller: requests    *)
(* come in, wait, run and are over as it says, at most max_active of them  *)
(* running, whatever the clients and the backends do.                      *)
THEOREM ContractKept == Spec => AP!Contract!Spec
  BY ControllerDriven, GateAssumption, AP!ContractKept, PTL

(* So no slot is lost or made by any way a request or a stream can end.    *)
THEOREM SlotsConserved == Spec => []Adm!SlotConservation
  <1>1. AP!IndInv => Adm!SlotConservation
    BY SameSizes DEF AP!IndInv, AP!Slots, AP!SlotConservation, Adm!SlotConservation,
       AP!Holders, Adm!Holders
  <1> QED BY <1>1, IndInvHolds, PTL DEF IndInv
=============================================================================
