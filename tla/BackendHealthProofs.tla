------------------------- MODULE BackendHealthProofs ------------------------
(***************************************************************************)
(* Theorems about BackendHealth, for any number of backends and pages, any *)
(* life of the cache and a clock of any length.                            *)
(***************************************************************************)
EXTENDS BackendHealth, TLAPS

-----------------------------------------------------------------------------
(* The inductive invariant.                                                *)

Kind == Listing \cup {"preview", "default", "none"}
Step == {"idle", "call", "health", "info", "models"}

Task == [kind : Kind, step : Step, over : Seq(Backend), i : Nat, began : Nat,
         started : Nat, first : Health \cup {Unknown}, rows : Seq(Row)]

(* What the type invariant says of the task t of page p.                   *)
TaskType(p, t) ==
  /\ t \in Task
  /\ t.kind \in Kinds[p] \cup {"none"}
  /\ t.i \in DOMAIN t.over
  /\ t.began \in 0 .. now /\ t.started \in 0 .. now
  /\ Len(t.rows) = IF t.step = "idle" /\ t.kind # "none" THEN Len(t.over) ELSE t.i - 1

(* The backend b was up when a page like t may say so.                     *)
UpSince(t, b) ==
  lastUp[b] >= t.began - (IF t.kind \notin {"status", "preview"} THEN 0 ELSE Ttl)

(* What a page has found reachable was, and how it knows.                  *)
TaskTrue(t) ==
  /\ \A i \in DOMAIN t.rows : t.rows[i].reachable => UpSince(t, t.over[i])
  /\ t.step # "idle" => t.kind # "none"
  /\ t.step \in {"health", "info"} => t.started >= t.began
  /\ t.step = "info" => lastUp[t.over[t.i]] >= t.started
  /\ Reachable(t.first) => UpSince(t, t.over[t.i])
  /\ t.step = "models" => t.kind \in {"backends", "models"}
  /\ t.step = "models" /\ t.kind = "models" => UpSince(t, t.over[t.i])

(* What the cache calls reachable was, when the probe began or later.      *)
CacheTrue == \A b \in Backend : Reachable(cache[b]) => lastUp[b] >= at[b]

(* A backend that serves served last now.                                  *)
UpIsNow == \A b \in Backend : up[b] => lastUp[b] = now

WorldType ==
  /\ now \in 0 .. LastTick
  /\ up \in [Backend -> BOOLEAN] /\ lastUp \in [Backend -> -1 .. now]

CacheType ==
  /\ cache \in [Backend -> Health \cup {Unknown}]
  /\ at \in [Backend -> 0 .. now]

IndInv ==
  /\ WorldType /\ CacheType /\ CacheTrue /\ UpIsNow
  /\ task = [p \in Page |-> task[p]]
  /\ \A p \in Page : TaskType(p, task[p]) /\ TaskTrue(task[p])

-----------------------------------------------------------------------------
(* Tasks.                                                                  *)

LEMMA IdleTask ==
  ASSUME WorldType, NEW p \in Page
  PROVE  Idle \in Task /\ TaskType(p, Idle) /\ TaskTrue(Idle)
  <1>1. Order \in Seq(Backend) /\ 1 \in DOMAIN Order /\ 0 \in 0 .. now
    <2>1. Order \in Seq(Backend)
      BY HealthAssumption DEF Backend
    <2>2. Len(Order) # 0 /\ Len(Order) \in Nat /\ DOMAIN Order = 1 .. Len(Order)
      BY HealthAssumption
    <2> QED BY <2>1, <2>2, HealthAssumption DEF WorldType
  <1>2. Idle \in Task
    BY <1>1 DEF Idle, Task, Kind, Step
  <1>3. TaskType(p, Idle)
    BY <1>1, <1>2 DEF TaskType, Idle
  <1>4. TaskTrue(Idle)
    BY DEF TaskTrue, Idle, Unknown, Result, Reachable
  <1> QED BY <1>2, <1>3, <1>4

(* The backend a page is at.                                               *)
LEMMA AtBackend ==
  ASSUME NEW p \in Page, NEW t, TaskType(p, t)
  PROVE  t.over[t.i] \in Backend
  BY DEF TaskType, Task

(* A row that is true brings the page to its next backend, or its end.     *)
LEMMA RowDoneKeeps ==
  ASSUME WorldType, NEW p \in Page, NEW t, TaskType(p, t), TaskTrue(t),
         t.step # "idle", NEW row \in Row,
         row.reachable => UpSince(t, t.over[t.i])
  PROVE  TaskType(p, RowDone(t, row)) /\ TaskTrue(RowDone(t, row))
  <1> DEFINE u == RowDone(t, row)
             last == t.i = Len(t.over)
  <1>1. /\ t \in Task /\ t.i \in 1 .. Len(t.over) /\ Len(t.over) \in Nat
        /\ t.rows \in Seq(Row) /\ Len(t.rows) = t.i - 1 /\ t.i \in Nat
        /\ DOMAIN t.over = 1 .. Len(t.over)
    BY DEF TaskType, Task
  <1>2. /\ u.kind = t.kind /\ u.over = t.over /\ u.began = t.began
        /\ u.rows = Append(t.rows, row) /\ u.first = Unknown /\ u.started = 0
        /\ u.i = (IF last THEN 1 ELSE t.i + 1)
        /\ u.step = (IF last THEN "idle" ELSE "call")
    BY <1>1 DEF RowDone, Task
  <1>3. /\ u.rows \in Seq(Row) /\ Len(u.rows) = t.i /\ DOMAIN u.rows = 1 .. t.i
        /\ \A i \in 1 .. t.i - 1 : u.rows[i] = t.rows[i]
        /\ u.rows[t.i] = row
    BY <1>1, <1>2
  <1>4. u.i \in 1 .. Len(t.over) /\ u.i \in Nat /\ u.step \in Step
    BY <1>1, <1>2 DEF Step
  <1>5. u \in Task
    <2>1. Append(t.rows, row) \in Seq(Row)
      BY <1>1
    <2>2. (IF last THEN 1 ELSE t.i + 1) \in Nat
      BY <1>1
    <2>3. (IF last THEN "idle" ELSE "call") \in Step
      BY DEF Step
    <2>4. Unknown \in Health \cup {Unknown} /\ 0 \in Nat
      OBVIOUS
    <2> QED BY <1>1, <2>1, <2>2, <2>3, <2>4 DEF RowDone, Task
  <1> HIDE DEF u
  <1>6. TaskType(p, u)
    <2>1. Len(u.rows) = IF u.step = "idle" /\ u.kind # "none" THEN Len(u.over) ELSE u.i - 1
      <3>1. t.kind # "none"
        BY DEF TaskTrue
      <3> QED BY <1>1, <1>2, <1>3, <3>1
    <2> QED BY <1>1, <1>2, <1>4, <1>5, <2>1 DEF TaskType, WorldType
  <1>7. TaskTrue(u)
    <2>1. \A i \in DOMAIN u.rows : u.rows[i].reachable => UpSince(t, t.over[i])
      <3>1. \A i \in 1 .. t.i - 1 : t.rows[i].reachable => UpSince(t, t.over[i])
        BY <1>1 DEF TaskTrue
      <3>2. \A i \in 1 .. t.i : i \in 1 .. t.i - 1 \/ i = t.i
        BY <1>1
      <3> QED BY <1>3, <3>1, <3>2
    <2>2. \A b : UpSince(u, b) <=> UpSince(t, b)
      BY <1>2 DEF UpSince
    <2>3. ~Reachable(u.first)
      BY <1>2 DEF Reachable, Unknown, Result
    <2>4. u.kind # "none" /\ u.step \in {"idle", "call"}
      BY <1>2 DEF TaskTrue
    <2> QED BY <1>2, <2>1, <2>2, <2>3, <2>4 DEF TaskTrue
  <1> QED BY <1>6, <1>7 DEF u

(* A page that stays at its backend, with all that it has.                 *)
LEMMA KeepsOn ==
  ASSUME WorldType, NEW p \in Page, NEW t, TaskType(p, t), TaskTrue(t),
         NEW u \in Task, t.step # "idle",
         u.kind = t.kind, u.over = t.over, u.i = t.i, u.began = t.began,
         u.rows = t.rows, u.step \in {"call", "health", "info", "models"},
         u.started \in 0 .. now,
         Reachable(u.first) => UpSince(t, t.over[t.i]),
         u.step \in {"health", "info"} => u.started >= u.began,
         u.step = "info" => lastUp[t.over[t.i]] >= u.started,
         u.step = "models" => t.kind \in {"backends", "models"},
         u.step = "models" /\ t.kind = "models" => UpSince(t, t.over[t.i])
  PROVE  TaskType(p, u) /\ TaskTrue(u)
  <1>1. TaskType(p, u)
    BY DEF TaskType
  <1>2. \A b : UpSince(u, b) <=> UpSince(t, b)
    BY DEF UpSince
  <1>3. TaskTrue(u)
    BY <1>2 DEF TaskTrue
  <1> QED BY <1>1, <1>3

(* The health h of its backend, if reachable true for t, is shown, kept or *)
(* taken for the list of models.                                           *)
LEMMA DeliverKeeps ==
  ASSUME WorldType, NEW p \in Page, NEW t, TaskType(p, t), TaskTrue(t),
         t.step # "idle", NEW h \in Health \cup {Unknown},
         h # Unknown,
         Reachable(h) => UpSince(t, t.over[t.i])
  PROVE  TaskType(p, Deliver(t, h)) /\ TaskTrue(Deliver(t, h))
  <1>1. /\ h.state \in {"reachable", "unreachable"} /\ h.model \in BOOLEAN
        /\ Reachable(h) \in BOOLEAN /\ Reachable(t.first) \in BOOLEAN
    BY DEF Health, Reachable
  <1>2. CASE t.kind \notin {"backends", "models"}
    <2>1. Deliver(t, h) = RowDone(t, HealthRow(h))
      BY <1>2 DEF Deliver
    <2>2. HealthRow(h) \in Row /\ (HealthRow(h).reachable <=> Reachable(h))
      BY <1>1 DEF HealthRow, Row
    <2> QED BY <2>1, <2>2, RowDoneKeeps
  <1>3. CASE t.kind = "backends" /\ t.first = Unknown
    <2> DEFINE u == [t EXCEPT !.first = h, !.step = "call", !.started = 0]
    <2>1. Deliver(t, h) = u
      BY <1>3 DEF Deliver
    <2>2. /\ u.kind = t.kind /\ u.over = t.over /\ u.i = t.i /\ u.began = t.began
          /\ u.rows = t.rows /\ u.first = h /\ u.step = "call" /\ u.started = 0
          /\ u \in Task
      BY DEF TaskType, Task, Step
    <2> HIDE DEF u
    <2>3. 0 \in 0 .. now
      BY HealthAssumption DEF WorldType
    <2> QED BY <1>1, <1>3, <2>1, <2>2, <2>3, KeepsOn
  <1>4. CASE /\ t.kind \in {"backends", "models"}
             /\ ~(t.kind = "backends" /\ t.first = Unknown)
             /\ Reachable(h)
    <2> DEFINE u == [t EXCEPT !.step = "models", !.started = 0]
    <2>1. Deliver(t, h) = u
      BY <1>4 DEF Deliver
    <2>2. /\ u.kind = t.kind /\ u.over = t.over /\ u.i = t.i /\ u.began = t.began
          /\ u.rows = t.rows /\ u.first = t.first /\ u.step = "models" /\ u.started = 0
          /\ u \in Task
      BY DEF TaskType, Task, Step
    <2> HIDE DEF u
    <2>3. Reachable(u.first) => UpSince(t, t.over[t.i])
      BY <2>2 DEF TaskTrue
    <2>4. 0 \in 0 .. now
      BY HealthAssumption DEF WorldType
    <2>5. t.kind = "models" => UpSince(t, t.over[t.i])
      BY <1>4
    <2> QED BY <1>4, <2>1, <2>2, <2>3, <2>4, <2>5, KeepsOn
  <1>5. CASE /\ t.kind \in {"backends", "models"}
             /\ ~(t.kind = "backends" /\ t.first = Unknown)
             /\ ~Reachable(h)
    <2>1. Deliver(t, h) = RowDone(t, DiscoveryRow(t, h, FALSE))
      BY <1>5 DEF Deliver
    <2>2. /\ DiscoveryRow(t, h, FALSE) \in Row
          /\ DiscoveryRow(t, h, FALSE).reachable => Reachable(t.first) \/ Reachable(h)
      BY DEF DiscoveryRow, Row, Reachable
    <2>3. DiscoveryRow(t, h, FALSE).reachable => UpSince(t, t.over[t.i])
      BY <2>2 DEF TaskTrue
    <2> QED BY <2>1, <2>2, <2>3, RowDoneKeeps
  <1> QED BY <1>2, <1>3, <1>4, <1>5

-----------------------------------------------------------------------------
(* Steps.                                                                  *)

(* A step of one page, at one time.                                        *)
LEMMA PageStep ==
  ASSUME IndInv, NEW p \in Page, NEW u, task' = [task EXCEPT ![p] = u],
         UNCHANGED world, TaskType(p, u), TaskTrue(u), CacheType', CacheTrue'
  PROVE  IndInv'
  <1>1. now' = now /\ up' = up /\ lastUp' = lastUp
    BY DEF world
  <1>2. WorldType' /\ UpIsNow'
    BY <1>1 DEF IndInv, WorldType, UpIsNow
  <1>3. /\ task' = [q \in Page |-> task'[q]]
        /\ \A q \in Page : task'[q] = IF q = p THEN u ELSE task[q]
    BY DEF IndInv
  <1>4. ASSUME NEW q \in Page PROVE TaskType(q, task[q])' /\ TaskTrue(task[q])'
    <2>1. TaskType(q, task'[q]) /\ TaskTrue(task'[q])
      BY <1>3 DEF IndInv
    <2>2. PICK v : v = task'[q]
      OBVIOUS
    <2>3. TaskType(q, v)' /\ TaskTrue(v)'
      BY <1>1, <2>1, <2>2 DEF TaskType, TaskTrue, UpSince
    <2> QED BY <2>2, <2>3
  <1> QED BY <1>2, <1>3, <1>4 DEF IndInv

(* A step of the clock or of a server: time goes on, and what was up was.  *)
LEMMA WorldStep ==
  ASSUME IndInv, WorldType', UpIsNow', UNCHANGED <<cached, task>>, now' >= now,
         \A b \in Backend : lastUp'[b] >= lastUp[b]
  PROVE  IndInv'
  <1>1. cache' = cache /\ at' = at /\ task' = task
    BY DEF cached
  <1>2. now \in Int /\ now' \in Int /\ \A b \in Backend : lastUp[b] \in Int /\ lastUp'[b] \in Int
    BY HealthAssumption DEF IndInv, WorldType
  <1>3. CacheType'
    <2>1. \A x \in 0 .. now : x \in 0 .. now'
      BY <1>2
    <2> QED BY <1>1, <2>1 DEF IndInv, CacheType
  <1>4. CacheTrue'
    <2>1. \A b \in Backend : at[b] \in Int
      BY <1>2 DEF IndInv, CacheType
    <2> QED BY <1>1, <1>2, <2>1 DEF IndInv, CacheTrue
  <1>5. ASSUME NEW p \in Page PROVE TaskType(p, task[p])' /\ TaskTrue(task[p])'
    <2>1. PICK t : t = task[p] /\ TaskType(p, t) /\ TaskTrue(t)
      BY DEF IndInv
    <2>2. TaskType(p, t)'
      BY <1>2, <2>1 DEF TaskType
    <2>3. t.began \in Int /\ t.started \in Int /\ Ttl \in Int
      BY <1>2, <2>1, HealthAssumption DEF TaskType
    <2>4. ASSUME NEW b \in Backend, UpSince(t, b) PROVE UpSince(t, b)'
      BY <1>2, <2>3, <2>4 DEF UpSince
    <2>5. \A i \in DOMAIN t.over : t.over[i] \in Backend
      BY <2>1 DEF TaskType, Task
    <2>6. t.over[t.i] \in Backend
      BY <2>1, AtBackend
    <2>7. DOMAIN t.rows \subseteq DOMAIN t.over
      <3>1. /\ t.over \in Seq(Backend) /\ t.rows \in Seq(Row)
            /\ t.i \in DOMAIN t.over /\ t.i \in Nat
        BY <2>1 DEF TaskType, Task
      <3>2. Len(t.rows) <= Len(t.over) /\ Len(t.rows) \in Nat /\ Len(t.over) \in Nat
        BY <2>1, <3>1 DEF TaskType
      <3> QED BY <3>1, <3>2
    <2>8. t.step = "info" => lastUp'[t.over[t.i]] >= t.started
      BY <1>2, <2>1, <2>3, <2>6 DEF TaskTrue
    <2>9. TaskTrue(t)'
      BY <2>1, <2>4, <2>5, <2>6, <2>7, <2>8 DEF TaskTrue
    <2> QED BY <1>1, <2>1, <2>2, <2>9
  <1> QED BY <1>1, <1>3, <1>4, <1>5 DEF IndInv

LEMMA AskStep ==
  ASSUME IndInv, NEW p \in Page, NEW kind \in Kind, NEW over \in Seq(Backend),
         1 \in DOMAIN over, Ask(p, kind, over)
  PROVE  IndInv'
  <1> DEFINE u == [Idle EXCEPT !.kind = kind, !.step = "call", !.over = over,
                               !.began = now]
  <1>1. task' = [task EXCEPT ![p] = u] /\ UNCHANGED <<world, cached>> /\ kind \in Kinds[p]
    BY DEF Ask
  <1>2. kind # "none" /\ now \in 0 .. now /\ 0 \in 0 .. now /\ now \in Nat
    <2>1. Kinds[p] \in SUBSET (Listing \cup {"preview", "default"})
      BY HealthAssumption
    <2>2. kind # "none"
      BY <1>1, <2>1 DEF Listing
    <2>3. now \in Nat
      BY HealthAssumption DEF IndInv, WorldType
    <2> QED BY <2>2, <2>3
  <1>3. /\ u.kind = kind /\ u.step = "call" /\ u.over = over /\ u.i = 1
        /\ u.began = now /\ u.started = 0 /\ u.first = Unknown /\ u.rows = <<>>
    BY DEF Idle
  <1>4. u \in Task
    <2>1. Idle \in Task
      BY IdleTask DEF IndInv
    <2> QED BY <1>2, <2>1 DEF Task, Step
  <1> HIDE DEF u
  <1>5. TaskType(p, u)
    BY <1>1, <1>2, <1>3, <1>4 DEF TaskType
  <1>6. TaskTrue(u)
    BY <1>2, <1>3 DEF TaskTrue, Reachable, Unknown, Result
  <1>7. CacheType' /\ CacheTrue'
    BY <1>1 DEF IndInv, CacheType, CacheTrue, world, cached
  <1> QED BY <1>1, <1>5, <1>6, <1>7, PageStep

(* A page at work.                                                         *)
LEMMA AtWork ==
  ASSUME IndInv, NEW p \in Page
  PROVE  /\ TaskType(p, task[p]) /\ TaskTrue(task[p]) /\ BackendOf(p) \in Backend
         /\ BackendOf(p) = task[p].over[task[p].i] /\ task[p] \in Task
         /\ task[p].began \in Nat /\ task[p].began <= now
         /\ task[p].started \in Nat /\ task[p].started <= now
         /\ now \in Nat /\ Ttl \in Nat /\ lastUp[BackendOf(p)] \in Int
         /\ at[BackendOf(p)] \in Nat
  <1>1. TaskType(p, task[p]) /\ TaskTrue(task[p]) /\ task[p] \in Task
    BY DEF IndInv, TaskType
  <1>2. BackendOf(p) \in Backend /\ BackendOf(p) = task[p].over[task[p].i]
    BY <1>1, AtBackend DEF BackendOf
  <1>3. now \in Nat /\ Ttl \in Nat
    BY HealthAssumption DEF IndInv, WorldType
  <1>4. lastUp[BackendOf(p)] \in Int /\ at[BackendOf(p)] \in Nat
    BY <1>2, <1>3 DEF IndInv, WorldType, CacheType
  <1>5. /\ task[p].began \in Nat /\ task[p].began <= now
        /\ task[p].started \in Nat /\ task[p].started <= now
    BY <1>1, <1>3 DEF TaskType
  <1> QED BY <1>1, <1>2, <1>3, <1>4, <1>5

LEMMA UseCacheStep ==
  ASSUME IndInv, NEW p \in Page, UseCache(p)
  PROVE  IndInv'
  <1> DEFINE t == task[p]
             h == cache[BackendOf(p)]
  <1>1. /\ task' = [task EXCEPT ![p] = Deliver(t, h)] /\ UNCHANGED <<world, cached>>
        /\ t.step = "call" /\ t.kind \in {"status", "preview"}
        /\ h # Unknown /\ now - at[BackendOf(p)] <= Ttl
    BY DEF UseCache, Forced, Fresh
  <1>2. h \in Health \cup {Unknown}
    BY AtWork DEF IndInv, CacheType
  <1>3. ASSUME Reachable(h) PROVE UpSince(t, t.over[t.i])
    <2>1. lastUp[BackendOf(p)] >= at[BackendOf(p)]
      BY <1>3, AtWork DEF IndInv, CacheTrue
    <2>2. lastUp[BackendOf(p)] >= t.began - Ttl
      BY <1>1, <2>1, AtWork
    <2> QED BY <1>1, <2>2, AtWork DEF UpSince
  <1>4. TaskType(p, Deliver(t, h)) /\ TaskTrue(Deliver(t, h))
    <2>1. TaskType(p, t) /\ TaskTrue(t) /\ WorldType
      BY AtWork DEF IndInv
    <2> HIDE DEF t, h
    <2> QED BY <1>1, <1>2, <1>3, <2>1, DeliverKeeps
  <1>5. CacheType' /\ CacheTrue'
    BY <1>1 DEF IndInv, CacheType, CacheTrue, world, cached
  <1> QED BY <1>1, <1>4, <1>5, PageStep

LEMMA ProbeStep ==
  ASSUME IndInv, NEW p \in Page, Probe(p)
  PROVE  IndInv'
  <1> DEFINE t == task[p]
             u == [t EXCEPT !.step = "health", !.started = now]
  <1>1. /\ task' = [task EXCEPT ![p] = u] /\ UNCHANGED <<world, cached>> /\ t.step = "call"
    BY DEF Probe
  <1>2. t \in Task /\ now \in Nat /\ t.began <= now /\ now \in 0 .. now
    BY AtWork
  <1>3. /\ u \in Task /\ u.kind = t.kind /\ u.over = t.over /\ u.i = t.i
        /\ u.began = t.began /\ u.rows = t.rows /\ u.first = t.first
        /\ u.step = "health" /\ u.started = now
    BY <1>2 DEF Task, Step
  <1>4. TaskType(p, t) /\ TaskTrue(t) /\ WorldType
    BY AtWork DEF IndInv
  <1>5. Reachable(t.first) => UpSince(t, t.over[t.i])
    BY <1>4 DEF TaskTrue
  <1>6. TaskType(p, u) /\ TaskTrue(u)
    <2> HIDE DEF t, u
    <2>1. u.started >= u.began
      BY <1>2, <1>3
    <2> QED BY <1>1, <1>2, <1>3, <1>4, <1>5, <2>1, KeepsOn
  <1>7. CacheType' /\ CacheTrue'
    BY <1>1 DEF IndInv, CacheType, CacheTrue, world, cached
  <1> QED BY <1>1, <1>6, <1>7, PageStep

LEMMA HealthIsOkStep ==
  ASSUME IndInv, NEW p \in Page, HealthIsOk(p)
  PROVE  IndInv'
  <1> DEFINE t == task[p]
             u == [t EXCEPT !.step = "info"]
  <1>1. /\ task' = [task EXCEPT ![p] = u] /\ UNCHANGED <<world, cached>>
        /\ t.step = "health" /\ up[BackendOf(p)]
    BY DEF HealthIsOk
  <1>2. t \in Task
    BY AtWork
  <1>3. /\ u \in Task /\ u.kind = t.kind /\ u.over = t.over /\ u.i = t.i
        /\ u.began = t.began /\ u.rows = t.rows /\ u.first = t.first
        /\ u.step = "info" /\ u.started = t.started
    BY <1>2 DEF Task, Step
  <1>4. TaskType(p, t) /\ TaskTrue(t) /\ WorldType
    BY AtWork DEF IndInv
  <1>5. Reachable(t.first) => UpSince(t, t.over[t.i])
    BY <1>4 DEF TaskTrue
  <1>6. lastUp[t.over[t.i]] >= t.started
    <2>1. lastUp[BackendOf(p)] = now
      BY <1>1, AtWork DEF IndInv, UpIsNow
    <2> QED BY <2>1, AtWork
  <1>7. t.started >= t.began /\ t.started \in 0 .. now
    BY <1>1, <1>4 DEF TaskTrue, TaskType
  <1>8. TaskType(p, u) /\ TaskTrue(u)
    <2> HIDE DEF t, u
    <2> QED BY <1>1, <1>3, <1>4, <1>5, <1>6, <1>7, KeepsOn
  <1>9. CacheType' /\ CacheTrue'
    BY <1>1 DEF IndInv, CacheType, CacheTrue, world, cached
  <1> QED BY <1>1, <1>8, <1>9, PageStep

(* A probe that ends, with a health that was true when it began or later.  *)
LEMMA RecordedStep ==
  ASSUME IndInv, NEW p \in Page, NEW h \in Health, Recorded(p, h),
         task[p].step \in {"health", "info"},
         Reachable(h) => lastUp[BackendOf(p)] >= task[p].started
  PROVE  IndInv'
  <1> DEFINE t == task[p]
  <1>1. task' = [task EXCEPT ![p] = Deliver(t, h)] /\ UNCHANGED world
    BY DEF Recorded
  <1>2. h # Unknown /\ h \in Health \cup {Unknown}
    BY DEF Health, Unknown, Result
  <1>3. TaskType(p, t) /\ TaskTrue(t) /\ WorldType
    BY AtWork DEF IndInv
  <1>4. ASSUME Reachable(h) PROVE UpSince(t, t.over[t.i])
    <2>1. t.started >= t.began
      BY <1>3 DEF TaskTrue
    <2>2. lastUp[BackendOf(p)] >= t.began /\ lastUp[BackendOf(p)] >= t.began - Ttl
      BY <1>4, <2>1, AtWork
    <2> QED BY <2>2, AtWork DEF UpSince
  <1>5. TaskType(p, Deliver(t, h)) /\ TaskTrue(Deliver(t, h))
    <2>1. t.step # "idle"
      OBVIOUS
    <2> HIDE DEF t
    <2> QED BY <1>2, <1>3, <1>4, <2>1, DeliverKeeps
  <1>6. now' = now /\ lastUp' = lastUp
    BY <1>1 DEF world
  <1>7. CacheType' /\ CacheTrue'
    <2>1. CASE UNCHANGED cached
      BY <1>6, <2>1 DEF IndInv, CacheType, CacheTrue, cached
    <2>2. CASE /\ cache' = [cache EXCEPT ![BackendOf(p)] = h]
               /\ at' = [at EXCEPT ![BackendOf(p)] = t.started]
      <3>1. t.started \in 0 .. now
        BY <1>3 DEF TaskType
      <3>2. CacheType'
        BY <1>6, <2>2, <3>1 DEF IndInv, CacheType
      <3>3. \A b \in Backend :
              /\ cache'[b] = IF b = BackendOf(p) THEN h ELSE cache[b]
              /\ at'[b] = IF b = BackendOf(p) THEN t.started ELSE at[b]
        BY <2>2 DEF IndInv, CacheType
      <3>4. CacheTrue'
        BY <1>6, <3>3 DEF IndInv, CacheTrue
      <3> QED BY <3>2, <3>4
    <2> QED BY <2>1, <2>2 DEF Recorded
  <1> QED BY <1>1, <1>5, <1>7, PageStep

LEMMA ModelsReturnStep ==
  ASSUME IndInv, NEW p \in Page, ModelsReturn(p)
  PROVE  IndInv'
  <1> DEFINE t == task[p]
             h == Result("reachable", FALSE)
  <1>1. PICK models \in Discovered(p) :
          task' = [task EXCEPT ![p] = RowDone(t, DiscoveryRow(t, h, models))]
    BY DEF ModelsReturn
  <1>2. UNCHANGED <<world, cached>> /\ t.step = "models"
    BY DEF ModelsReturn
  <1> DEFINE row == DiscoveryRow(t, h, models)
  <1>3. TaskType(p, t) /\ TaskTrue(t) /\ WorldType
    BY AtWork DEF IndInv
  <1>4. models \in BOOLEAN
    BY AtWork DEF Discovered, IndInv, WorldType
  <1>5. row \in Row
    BY <1>4 DEF DiscoveryRow, Row, Reachable
  <1>6. row.reachable => UpSince(t, t.over[t.i])
    <2>1. row.reachable = Reachable(IF t.kind = "backends" THEN t.first ELSE h)
      BY DEF DiscoveryRow
    <2>2. CASE t.kind = "backends"
      BY <1>3, <2>1, <2>2 DEF TaskTrue
    <2>3. CASE t.kind = "models"
      BY <1>2, <1>3, <2>3 DEF TaskTrue
    <2>4. t.kind \in {"backends", "models"}
      BY <1>2, <1>3 DEF TaskTrue
    <2> QED BY <2>2, <2>3, <2>4
  <1>7. TaskType(p, RowDone(t, row)) /\ TaskTrue(RowDone(t, row))
    <2> HIDE DEF t, row
    <2> QED BY <1>2, <1>3, <1>5, <1>6, RowDoneKeeps
  <1>8. CacheType' /\ CacheTrue'
    BY <1>2 DEF IndInv, CacheType, CacheTrue, world, cached
  <1> QED BY <1>1, <1>2, <1>7, <1>8, PageStep

LEMMA ServerChangesStep ==
  ASSUME IndInv, NEW s \in Backend, ServerChanges(s)
  PROVE  IndInv'
  <1>1. /\ up' = [up EXCEPT ![s] = ~up[s]]
        /\ lastUp' = [lastUp EXCEPT ![s] = IF up[s] THEN lastUp[s] ELSE now]
        /\ now' = now /\ UNCHANGED <<cached, task>>
    BY DEF ServerChanges
  <1>2. /\ now \in 0 .. LastTick /\ now \in Nat
        /\ up \in [Backend -> BOOLEAN] /\ lastUp \in [Backend -> -1 .. now]
    BY HealthAssumption DEF IndInv, WorldType
  <1>3. now \in -1 .. now /\ \A b \in Backend : lastUp[b] \in Int /\ lastUp[b] <= now
    BY <1>2
  <1>4. WorldType'
    BY <1>1, <1>2, <1>3 DEF WorldType
  <1>5. UpIsNow'
    BY <1>1, <1>2 DEF IndInv, UpIsNow
  <1>6. \A b \in Backend : lastUp'[b] >= lastUp[b]
    BY <1>1, <1>2, <1>3
  <1> QED BY <1>1, <1>2, <1>4, <1>5, <1>6, WorldStep

LEMMA TickStep ==
  ASSUME IndInv, Tick
  PROVE  IndInv'
  <1>1. /\ now < LastTick /\ now' = now + 1
        /\ lastUp' = [b \in Backend |-> IF up[b] THEN now + 1 ELSE lastUp[b]]
        /\ up' = up /\ UNCHANGED <<cached, task>>
    BY DEF Tick
  <1>2. /\ now \in Nat /\ LastTick \in Nat
        /\ up \in [Backend -> BOOLEAN] /\ lastUp \in [Backend -> -1 .. now]
    BY HealthAssumption DEF IndInv, WorldType
  <1>3. \A b \in Backend : lastUp[b] \in -1 .. now + 1 /\ lastUp[b] <= now + 1
    BY <1>2
  <1>4. WorldType'
    BY <1>1, <1>2, <1>3 DEF WorldType
  <1>5. UpIsNow'
    BY <1>1 DEF UpIsNow
  <1>6. \A b \in Backend : lastUp'[b] >= lastUp[b]
    BY <1>1, <1>2, <1>3
  <1> QED BY <1>1, <1>2, <1>4, <1>5, <1>6, WorldStep

LEMMA InitIndInv == Init => IndInv
  <1> SUFFICES ASSUME Init PROVE IndInv
    OBVIOUS
  <1>1. WorldType /\ UpIsNow
    BY HealthAssumption DEF Init, WorldType, UpIsNow
  <1>2. CacheType /\ CacheTrue
    BY DEF Init, CacheType, CacheTrue, Unknown, Result, Reachable
  <1>3. task = [p \in Page |-> task[p]] /\ \A p \in Page : task[p] = Idle
    BY DEF Init
  <1> QED BY <1>1, <1>2, <1>3, IdleTask DEF IndInv

LEMMA StepIndInv == IndInv /\ [Next]_vars => IndInv'
  <1> SUFFICES ASSUME IndInv, [Next]_vars PROVE IndInv'
    OBVIOUS
  <1>1. Listing \cup {"preview", "default"} \subseteq Kind
    BY DEF Kind
  <1>2. Order \in Seq(Backend) /\ 1 \in DOMAIN Order
    <2>1. Order \in Seq(Backend)
      BY HealthAssumption DEF Backend
    <2>2. Len(Order) # 0 /\ Len(Order) \in Nat /\ DOMAIN Order = 1 .. Len(Order)
      BY HealthAssumption
    <2> QED BY <2>1, <2>2
  <1>3. \A b \in Backend : <<b>> \in Seq(Backend) /\ 1 \in DOMAIN <<b>>
    OBVIOUS
  <1>4. Default \in Backend /\ Registered \subseteq Backend
    BY DEF Backend
  <1>5. ASSUME NEW p \in Page, AskAll(p) PROVE IndInv'
    BY <1>1, <1>2, <1>5, AskStep DEF AskAll
  <1>6. ASSUME NEW p \in Page, AskPreview(p) PROVE IndInv'
    BY <1>1, <1>3, <1>4, <1>6, AskStep DEF AskPreview
  <1>7. ASSUME NEW p \in Page, AskDefault(p) PROVE IndInv'
    BY <1>1, <1>3, <1>4, <1>7, AskStep DEF AskDefault
  <1>8. ASSUME NEW p \in Page, HealthFails(p) PROVE IndInv'
    <2>1. /\ Result("unreachable", FALSE) \in Health
          /\ ~Reachable(Result("unreachable", FALSE))
      BY DEF Health, Result, Reachable
    <2> QED BY <1>8, <2>1, RecordedStep DEF HealthFails
  <1>9. ASSUME NEW p \in Page, InfoReturns(p) PROVE IndInv'
    <2>1. PICK model \in Discovered(p) : Recorded(p, Result("reachable", model))
      BY <1>9 DEF InfoReturns
    <2>2. model \in BOOLEAN
      BY AtWork DEF Discovered, IndInv, WorldType
    <2>3. Result("reachable", model) \in Health
      BY <2>2 DEF Health, Result
    <2>4. task[p].step = "info" /\ lastUp[BackendOf(p)] >= task[p].started
      BY <1>9, AtWork DEF InfoReturns, TaskTrue
    <2> QED BY <2>1, <2>3, <2>4, RecordedStep
  <1>10. ASSUME NEW p \in Page, Resume(p) PROVE IndInv'
    BY <1>8, <1>9, <1>10, UseCacheStep, ProbeStep, HealthIsOkStep, ModelsReturnStep
       DEF Resume
  <1>11. CASE UNCHANGED vars
    <2>1. UNCHANGED <<now, up, lastUp, cache, at, task>>
      BY <1>11 DEF vars, world, cached
    <2>2. WorldType' /\ UpIsNow'
      BY <2>1 DEF IndInv, WorldType, UpIsNow
    <2>3. now \in Int /\ \A b \in Backend : lastUp[b] \in Int
      BY HealthAssumption DEF IndInv, WorldType
    <2> QED BY <2>1, <2>2, <2>3, WorldStep DEF cached
  <1> QED BY <1>5, <1>6, <1>7, <1>10, <1>11, ServerChangesStep, TickStep DEF Next

-----------------------------------------------------------------------------
(* The theorems.                                                           *)

LEMMA Invariance == Spec => []IndInv
  BY InitIndInv, StepIndInv, PTL DEF Spec

(* The type invariant: a page that is done has a row for each backend it   *)
(* asked for, and one at work those of the backends before                 *)
(* (BackendRegistry.health and the loops of the pages).                    *)
THEOREM TypeCorrect == Spec => []TypeOK
  <1>1. IndInv => TypeOK
    <2> SUFFICES ASSUME IndInv PROVE TypeOK
      OBVIOUS
    <2>1. ASSUME NEW p \in Page
          PROVE  /\ task[p].kind \in Kinds[p] \cup {"none"}
                 /\ task[p].step \in {"idle", "call", "health", "info", "models"}
                 /\ task[p].over \in Seq(Backend)
                 /\ task[p].i \in DOMAIN task[p].over
                 /\ task[p].began \in 0 .. now /\ task[p].started \in 0 .. now
                 /\ task[p].first \in Health \cup {Unknown}
                 /\ task[p].rows \in Seq(Row)
                 /\ Len(task[p].rows) = IF task[p].step = "idle" /\ task[p].kind # "none"
                                        THEN Len(task[p].over) ELSE task[p].i - 1
      BY DEF IndInv, TaskType, Task, Step
    <2> QED BY <2>1 DEF TypeOK, IndInv, WorldType, CacheType
  <1> QED BY <1>1, Invariance, PTL

(* Nothing is called reachable on evidence older than the cache allows,    *)
(* nor, by a page that probes, older than its request: whatever pages      *)
(* share the cache, however long probes take, and whatever servers do      *)
(* (BackendRegistry.health, and the rows and headlines of the pages).      *)
THEOREM ReachabilityIsEvidence == Spec => []ReachableWasTrue
  <1>1. ASSUME IndInv, NEW p \in Page, NEW i \in DOMAIN task[p].rows,
               task[p].rows[i].reachable
        PROVE  WasUp(p, i)
    BY <1>1 DEF IndInv, TaskTrue, UpSince, WasUp, Forced
  <1>2. ASSUME IndInv PROVE HeadlinesWereTrue
    <2> SUFFICES ASSUME NEW p \in Page
                 PROVE  LET rows == task[p].rows IN
                        CASE task[p].kind = "status" ->
                               /\ Aggregate(rows) = "healthy" =>
                                    \A i \in DOMAIN rows : WasUp(p, i)
                               /\ Aggregate(rows) = "degraded" =>
                                    \E i \in DOMAIN rows : WasUp(p, i)
                          [] task[p].kind = "overview" ->
                               LocalInference(rows) # "OFFLINE" =>
                                 \E i \in DOMAIN rows : WasUp(p, i)
                          [] task[p].kind = "models" ->
                               \A i \in DOMAIN rows :
                                 RuntimeStatus(rows[i]) = "online" => WasUp(p, i)
                          [] OTHER -> TRUE
      BY DEF HeadlinesWereTrue
    <2> DEFINE rows == task[p].rows
    <2>1. \A i \in DOMAIN rows : rows[i].reachable => WasUp(p, i)
      BY <1>1, <1>2
    <2>2. Aggregate(rows) = "healthy" => \A i \in DOMAIN rows : rows[i].reachable
      BY DEF Aggregate
    <2>3. Aggregate(rows) = "degraded" => \E i \in DOMAIN rows : rows[i].reachable
      BY DEF Aggregate
    <2>4. LocalInference(rows) # "OFFLINE" => \E i \in DOMAIN rows : rows[i].reachable
      BY DEF LocalInference
    <2>5. \A i \in DOMAIN rows : RuntimeStatus(rows[i]) = "online" => rows[i].reachable
      BY DEF RuntimeStatus
    <2> HIDE DEF rows
    <2> QED BY <2>1, <2>2, <2>3, <2>4, <2>5 DEF rows
  <1>3. IndInv => ReachableWasTrue
    BY <1>1, <1>2 DEF ReachableWasTrue, RowsWereTrue
  <1> QED BY <1>3, Invariance, PTL
=============================================================================
