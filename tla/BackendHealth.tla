---------------------------- MODULE BackendHealth ---------------------------
(***************************************************************************)
(* What Syn says about its backends: BackendRegistry.health and its cache  *)
(* (routing/backend_registry.py), the probe (LlamaCppBackend.health and    *)
(* models, backends/llama_cpp.py) and the pages that show it: GET /health  *)
(* and /admin/status (kind "status") and /admin/routing/preview, which     *)
(* take what is cached; /admin/overview, /admin/backends and               *)
(* /admin/models, which always probe; and the dashboard and the /health of *)
(* passthrough mode (kind "default"), which probe the default backend and  *)
(* know nothing of the cache.                                              *)
(*                                                                         *)
(* A page goes through the backends one after another and suspends while a *)
(* probe is under way; other pages run meanwhile and share the cache.      *)
(* A backend answers, and the page resumes, in one step.  Between two      *)
(* backends a page does not suspend; here another page may come in         *)
(* between, which only adds behaviours.                                    *)
(***************************************************************************)
EXTENDS Integers, Sequences

CONSTANTS Order,     \* the servers of the backends, in the order of the file
          Default,   \* the server of the default backend, one of them or not
          Page,      \* the requests for pages
          Kinds,     \* the pages each request can ask for
          Ttl,       \* health_ttl_seconds
          LastTick   \* bound: ticks the clock runs through

Registered == {Order[i] : i \in DOMAIN Order}
Backend == Registered \cup {Default}

Listing == {"status", "overview", "backends", "models"}

ASSUME HealthAssumption ==
  /\ Order \in Seq(Registered) /\ Order # <<>>
  /\ \A i, j \in DOMAIN Order : i # j => Order[i] # Order[j]
  /\ Kinds \in [Page -> SUBSET (Listing \cup {"preview", "default"})]
  /\ Ttl \in Nat /\ LastTick \in Nat

VARIABLES
  now,        \* time.monotonic()
  up,         \* whether each backend serves
  lastUp,     \* when each backend last served, for the properties; -1 never
  cache,      \* _health_cache
  at,         \* _health_at
  task        \* each page: where it is, and the rows it has

world == <<now, up, lastUp>>
cached == <<cache, at>>
vars == <<world, cached, task>>

(* A health result: its state and whether it names a model.  Timeouts and  *)
(* answers that make no sense (invalid) are unreachable here: no page and  *)
(* nothing else tells the three apart but by their names.                  *)
Health == [state : {"reachable", "unreachable"}, model : BOOLEAN]
Result(state, model) == [state |-> state, model |-> model]
Unknown == Result("unknown", FALSE)

(* A line of a page: a backend is reachable, models are loaded on it.      *)
Row == [reachable : BOOLEAN, models : BOOLEAN]

Idle == [kind |-> "none", step |-> "idle", over |-> Order, i |-> 1, began |-> 0,
         started |-> 0, first |-> Unknown, rows |-> <<>>]

TypeOK ==
  /\ now \in 0 .. LastTick
  /\ up \in [Backend -> BOOLEAN] /\ lastUp \in [Backend -> -1 .. now]
  /\ cache \in [Backend -> Health \cup {Unknown}]
  /\ at \in [Backend -> 0 .. now]
  /\ \A p \in Page :
       /\ task[p].kind \in Kinds[p] \cup {"none"}
       /\ task[p].step \in {"idle", "call", "health", "info", "models"}
       /\ task[p].over \in Seq(Backend)
       /\ task[p].i \in DOMAIN task[p].over
       /\ task[p].began \in 0 .. now /\ task[p].started \in 0 .. now
       /\ task[p].first \in Health \cup {Unknown}
       /\ task[p].rows \in Seq(Row)
       /\ Len(task[p].rows) = IF task[p].step = "idle" /\ task[p].kind # "none"
                              THEN Len(task[p].over) ELSE task[p].i - 1

Init ==
  /\ now = 0
  /\ up \in [Backend -> BOOLEAN]
  /\ lastUp = [b \in Backend |-> IF up[b] THEN 0 ELSE -1]
  /\ cache = [b \in Backend |-> Unknown]
  /\ at = [b \in Backend |-> 0]
  /\ task = [p \in Page |-> Idle]

-----------------------------------------------------------------------------
BackendOf(p) == task[p].over[task[p].i]

Reachable(h) == h.state = "reachable"

(* The pages that probe even where the cache is fresh.                     *)
Forced(p) == task[p].kind \notin {"status", "preview"}

Fresh(b) == cache[b] # Unknown /\ now - at[b] <= Ttl

(* Wrong: the index runs past the last backend.                            *)
RowDoneRunsOn(t, row) ==
  [t EXCEPT !.rows = Append(@, row), !.first = Unknown, !.started = 0, !.i = @ + 1,
            !.step = IF t.i = Len(t.over) THEN "idle" ELSE "call"]

(* The task t has its row for a backend: the next backend, or the page.    *)
RowDone(t, row) ==
  [t EXCEPT !.rows = Append(@, row), !.first = Unknown, !.started = 0,
            !.i = IF @ = Len(t.over) THEN 1 ELSE @ + 1,
            !.step = IF t.i = Len(t.over) THEN "idle" ELSE "call"]

(* The row of a discovery that found models or not, after the health h;    *)
(* get_backends shows the health it asked for before the discovery.        *)
DiscoveryRow(t, h, models) ==
  [reachable |-> Reachable(IF t.kind = "backends" THEN t.first ELSE h), models |-> models]

(* The row of a page that shows the health and no more.                    *)
HealthRow(h) == [reachable |-> Reachable(h), models |-> h.model]

(* What the page of the task t does with the health h it was waiting for:  *)
(* show it, keep it and probe again, or go on to the list of models.       *)
Deliver(t, h) ==
  CASE t.kind \notin {"backends", "models"} -> RowDone(t, HealthRow(h))
    [] t.kind = "backends" /\ t.first = Unknown ->
         [t EXCEPT !.first = h, !.step = "call", !.started = 0]
    [] /\ t.kind = "models" \/ (t.kind = "backends" /\ t.first # Unknown)
       /\ Reachable(h) ->
         [t EXCEPT !.step = "models", !.started = 0]
    [] OTHER -> RowDone(t, DiscoveryRow(t, h, FALSE))

Ask(p, kind, over) ==
  /\ kind \in Kinds[p] /\ task[p] = Idle
  /\ task' = [task EXCEPT ![p] = [Idle EXCEPT !.kind = kind, !.step = "call",
                                              !.over = over, !.began = now]]
  /\ UNCHANGED <<world, cached>>

(* The pages that list the backends of the registry.                       *)
AskAll(p) == \E kind \in Listing : Ask(p, kind, Order)

(* A routing preview asks for the backend the model is routed to.          *)
AskPreview(p) == \E b \in Registered : Ask(p, "preview", <<b>>)

AskDefault(p) == Ask(p, "default", <<Default>>)

UseCache(p) ==
  /\ task[p].step = "call" /\ ~Forced(p) /\ Fresh(BackendOf(p))
  /\ task' = [task EXCEPT ![p] = Deliver(@, cache[BackendOf(p)])]
  /\ UNCHANGED <<world, cached>>

Probe(p) ==
  /\ task[p].step = "call" /\ (Forced(p) \/ ~Fresh(BackendOf(p)))
  /\ task' = [task EXCEPT ![p].step = "health", ![p].started = now]
  /\ UNCHANGED <<world, cached>>

(* Wrong: cached as of when the probe ended.                               *)
RecordedAtEnd(p, h) ==
  /\ cache' = [cache EXCEPT ![BackendOf(p)] = h]
  /\ at' = [at EXCEPT ![BackendOf(p)] = now]
  /\ task' = [task EXCEPT ![p] = Deliver(@, h)]
  /\ UNCHANGED world

(* The probe of p ends with h, which is cached as of when it began unless  *)
(* the registry was not asked: the write of the cache and what the page    *)
(* does with h are one step.                                               *)
Recorded(p, h) ==
  /\ \/ /\ task[p].kind # "default"
        /\ cache' = [cache EXCEPT ![BackendOf(p)] = h]
        /\ at' = [at EXCEPT ![BackendOf(p)] = task[p].started]
     \/ task[p].kind = "default" /\ UNCHANGED cached
  /\ task' = [task EXCEPT ![p] = Deliver(@, h)]
  /\ UNCHANGED world

(* GET /health has no answer that says ok; even where the backend is well, *)
(* it may time out.                                                        *)
HealthFails(p) ==
  /\ task[p].step = "health"
  /\ Recorded(p, Result("unreachable", FALSE))

(* A backend that is well is asked for its model before health() returns.  *)
HealthIsOk(p) ==
  /\ task[p].step = "health" /\ up[BackendOf(p)]
  /\ task' = [task EXCEPT ![p].step = "info"]
  /\ UNCHANGED <<world, cached>>

(* A list of models: from a backend that serves, and empty or failing else. *)
Discovered(p) == {FALSE, up[BackendOf(p)]}

InfoReturns(p) ==
  /\ task[p].step = "info"
  /\ \E model \in Discovered(p) : Recorded(p, Result("reachable", model))

ModelsReturn(p) ==
  /\ task[p].step = "models"
  /\ \E models \in Discovered(p) :
       task' = [task EXCEPT ![p] =
         RowDone(@, DiscoveryRow(@, Result("reachable", FALSE), models))]
  /\ UNCHANGED <<world, cached>>

ServerChanges(b) ==
  /\ up' = [up EXCEPT ![b] = ~@]
  /\ lastUp' = [lastUp EXCEPT ![b] = IF up[b] THEN @ ELSE now]
  /\ UNCHANGED <<now, cached, task>>

Tick ==
  /\ now < LastTick /\ now' = now + 1
  /\ lastUp' = [b \in Backend |-> IF up[b] THEN now + 1 ELSE lastUp[b]]
  /\ UNCHANGED <<up, cached, task>>

Resume(p) == UseCache(p) \/ Probe(p) \/ HealthFails(p) \/ HealthIsOk(p)
               \/ InfoReturns(p) \/ ModelsReturn(p)

Next ==
  \/ \E p \in Page : AskAll(p) \/ AskPreview(p) \/ AskDefault(p) \/ Resume(p)
  \/ \E b \in Backend : ServerChanges(b)
  \/ Tick

Spec == Init /\ [][Next]_vars

-----------------------------------------------------------------------------
(* What a finished page says as a whole.                                   *)

(* GET /health.                                                            *)
Aggregate(rows) ==
  CASE \A i \in DOMAIN rows : rows[i].reachable -> "healthy"
    [] \A i \in DOMAIN rows : ~rows[i].reachable -> "unhealthy"
    [] OTHER -> "degraded"

(* /admin/overview.                                                        *)
LocalInference(rows) ==
  CASE \E i \in DOMAIN rows : rows[i].reachable /\ rows[i].models -> "ONLINE"
    [] \A i \in DOMAIN rows : ~rows[i].reachable -> "OFFLINE"
    [] OTHER -> "NO_MODEL"

(* /admin/models, for the models of a backend.  A discovery that failed is *)
(* "error" there; here it is one with a backend that has no model.         *)
RuntimeStatus(row) ==
  CASE ~row.reachable -> "offline"
    [] row.reachable /\ row.models -> "online"
    [] OTHER -> "no_model"

-----------------------------------------------------------------------------
(* Properties.                                                             *)

(* The backend of row i was up at most Ttl before page p was asked for, or *)
(* after it was when the page probes.                                      *)
WasUp(p, i) == lastUp[task[p].over[i]] >= task[p].began - (IF Forced(p) THEN 0 ELSE Ttl)

(* What a row says: a backend it calls reachable was up.                   *)
RowsWereTrue ==
  \A p \in Page : \A i \in DOMAIN task[p].rows :
    task[p].rows[i].reachable => WasUp(p, i)

(* What a page says as a whole: "healthy" needs every backend, "degraded", *)
(* "ONLINE" and "NO_MODEL" one, and a model is online on a backend that    *)
(* was up.                                                                 *)
HeadlinesWereTrue ==
  \A p \in Page :
    LET rows == task[p].rows IN
    task[p].step = "idle" =>
      CASE task[p].kind = "status" ->
             /\ Aggregate(rows) = "healthy" => \A i \in DOMAIN rows : WasUp(p, i)
             /\ Aggregate(rows) = "degraded" => \E i \in DOMAIN rows : WasUp(p, i)
        [] task[p].kind = "overview" ->
             LocalInference(rows) # "OFFLINE" => \E i \in DOMAIN rows : WasUp(p, i)
        [] task[p].kind = "models" ->
             \A i \in DOMAIN rows : RuntimeStatus(rows[i]) = "online" => WasUp(p, i)
        [] OTHER -> TRUE

(* No page calls a backend reachable that was not, by a row or by what it  *)
(* says as a whole: what it takes from the cache was true at most Ttl      *)
(* before it was asked for, and what it probes was true after it was.      *)
ReachableWasTrue == RowsWereTrue /\ HeadlinesWereTrue
=============================================================================
