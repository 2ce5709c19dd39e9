------------------------------- MODULE Usage --------------------------------
(***************************************************************************)
(* Limits, quotas and reports: app/services/usage.py, app/core/policy.py,  *)
(* app/services/observability.py and the pages of app/api/admin.py that    *)
(* show them, composed with the limiter of module RateLimiter.             *)
(*                                                                         *)
(* A request carries its key's and its client's rows as authentication     *)
(* read them; the precheck resolves its limits from those rows, charges    *)
(* the limiter and only then looks at the daily quotas, without suspending *)
(* in between.  It counts for the quotas when its record is committed, at  *)
(* its end (module ChatCompletion has what happens until then), and under  *)
(* the UTC day it had reached the admission queue on.                      *)
(*                                                                         *)
(* Records survive a crash; windows and requests under way do not.         *)
(***************************************************************************)
EXTENDS Integers, FiniteSets, Sequences, FiniteSetsExt, Latency

CONSTANTS
  Req, Key, Client,
  NULL,            \* an SQL NULL, None in the code
  KeyOf,           \* KeyOf[r]: the API key of request r
  ClientOf,        \* ClientOf[k]: the client key k was issued to
  ModelOf,         \* ModelOf[r]: the canonical model request r gets
  BackendOf,       \* BackendOf[r]: its backend, NULL in passthrough mode
  Took,            \* Took[r]: the total_duration_ms of request r
  KeyPolicy,       \* the limits in the rows of the keys, or NULL
  DefaultPolicy,   \* the limits of the settings
  PolicyValues,    \* the limits a client may be given, by field
  Fates,           \* bound: the outcomes the requests can have
  MaxTokens,       \* bound: tokens of one completion
  LastDay,         \* bound: UTC days the clock runs through
  Scale, WindowSeconds, LastTick   \* as in RateLimiter

Outcomes == {"completed", "failed", "cancelled", "timed_out", "rejected"}
Fields == {"requests_per_minute", "requests_per_day", "tokens_per_day"}
Policies == [Fields -> Int \cup {NULL}]

ASSUME UsageAssumption ==
  /\ IsFiniteSet(Req) /\ NULL \notin Key \cup Client
  /\ KeyOf \in [Req -> Key] /\ ClientOf \in [Key -> Client]
  /\ Took \in [Req -> Nat]
  /\ KeyPolicy \in [Key -> Policies] /\ DefaultPolicy \in [Fields -> Int]
  /\ PolicyValues \in [Fields -> SUBSET (Int \cup {NULL})]
  /\ Fates \subseteq Outcomes
  /\ MaxTokens \in Nat \ {0} /\ LastDay \in Nat
  /\ Scale \in Nat \ {0} /\ WindowSeconds \in Nat \ {0} /\ LastTick \in Nat

VARIABLES
  now, windows, result, log,  \* the limiter, without its limit
  policy,    \* policy[c]: the limits in the row of client c
  stage,     \* stage[r]: where request r is
  carried,   \* carried[r]: the limits of its client as r has read them
  answer,    \* answer[r]: the code of the error that refused it, or "none"
  started,   \* UsageRecord.started_at, its UTC day
  recorded,  \* UsageRecord.status, "none" without a record
  tokens,    \* UsageRecord.total_tokens
  day,       \* the clock: today's UTC day
  peak       \* history: the most requests of a key under way at a time

limiterVars == <<now, windows, result, log>>
recordVars == <<started, recorded, tokens>>
vars == <<limiterVars, policy, stage, carried, answer, recordVars, day, peak>>

Refusals ==
  {"rate_limit_exceeded", "request_quota_exceeded", "token_quota_exceeded"}

Stages ==
  {"new", "authenticated",
   "routing",   \* prechecked, the day of its record not read yet
   "serving",   \* in the queue or with a slot
   "over",
   "gone"}      \* of a process that is dead

TypeOK ==
  /\ now \in 0 .. LastTick /\ day \in 0 .. LastDay
  /\ windows \in [Key -> [start : Int, count : Nat]]
  /\ policy \in [Client -> Policies]
  /\ stage \in [Req -> Stages]
  /\ carried \in [Req -> Policies]
  /\ answer \in [Req -> Refusals \cup {"none"}]
  /\ started \in [Req -> 0 .. LastDay]
  /\ recorded \in [Req -> Outcomes \cup {"none"}]
  /\ tokens \in [Req -> {NULL} \cup 0 .. MaxTokens]
  /\ peak \in [Key -> 0 .. Cardinality(Req)]

-----------------------------------------------------------------------------
(* Policies.                                                               *)

(* key override ?? client value ?? system default, and never below zero,   *)
(* which means no limit.                                                   *)
Resolve(keyValue, clientValue, default) ==
  LET value == IF keyValue # NULL THEN keyValue
               ELSE IF clientValue # NULL THEN clientValue ELSE default
  IN  IF value > 0 THEN value ELSE 0

(* The limit that holds for the request r.                                 *)
Effective(r, field) ==
  Resolve(KeyPolicy[KeyOf[r]][field], carried[r][field], DefaultPolicy[field])

(* The limiter as r asks it.                                               *)
Limiter(r) ==
  INSTANCE RateLimiter WITH
    limit <- [k \in Key |-> Effective(r, "requests_per_minute")],
    Limits <- Nat

Init ==
  /\ now = 0 /\ day = 0
  /\ windows = [k \in Key |-> [start |-> -1, count |-> 0]]
  /\ result = [k \in Key |-> [allowed |-> TRUE, remaining |-> -1, retry |-> 0]]
  /\ log = [k \in Key |-> <<>>]
  /\ policy = [c \in Client |-> [f \in Fields |-> NULL]]
  /\ stage = [r \in Req |-> "new"]
  /\ carried = [r \in Req |-> [f \in Fields |-> NULL]]
  /\ answer = [r \in Req |-> "none"]
  /\ started = [r \in Req |-> 0]
  /\ recorded = [r \in Req |-> "none"]
  /\ tokens = [r \in Req |-> NULL]
  /\ peak = [k \in Key |-> 0]

(* PUT /admin/clients/{id}/policy: the fields in the body are set, null    *)
(* included; the others stay.                                              *)
PutPolicy(c) ==
  /\ \E body \in [Fields -> UNION {PolicyValues[f] : f \in Fields}] :
       /\ \A f \in Fields : body[f] \in PolicyValues[f] \cup {policy[c][f]}
       /\ policy' = [policy EXCEPT ![c] = body]
  /\ UNCHANGED <<limiterVars, stage, carried, answer, recordVars, day, peak>>

-----------------------------------------------------------------------------
(* The records.                                                            *)

(* The rows of one UTC day.                                                *)
RowsOf(d) == {r \in Req : recorded[r] # "none" /\ started[r] = d}
RowsOfKey(k, d) == {r \in RowsOf(d) : KeyOf[r] = k}

(* Unknown tokens are left out.                                            *)
TokensIn(rows) ==
  MapThenSumSet(LAMBDA r : tokens[r], {r \in rows : tokens[r] # NULL})

CountRequestsToday(k) == Cardinality(RowsOfKey(k, day))
SumTokensToday(k) == TokensIn(RowsOfKey(k, day))

-----------------------------------------------------------------------------
(* A request.                                                              *)

UnderWay(k) ==
  {r \in Req : KeyOf[r] = k /\ stage[r] \in {"routing", "serving"}}

(* The rows of the key and of its client are read, and kept.               *)
Authenticate(r) ==
  /\ stage[r] = "new"
  /\ stage' = [stage EXCEPT ![r] = "authenticated"]
  /\ carried' = [carried EXCEPT ![r] = policy[ClientOf[KeyOf[r]]]]
  /\ UNCHANGED <<limiterVars, policy, answer, recordVars, day, peak>>

LimiterAdmits(r) ==
  LET k == KeyOf[r]
  IN  \/ Limiter(r)!CheckUnlimited(k)
      \/ Limiter(r)!CheckNewWindow(k)
      \/ Limiter(r)!CheckCounted(k)

(* Wrong: > for >=.                                                        *)
RequestsLeftOffByOne(r) ==
  LET quota == Effective(r, "requests_per_day")
  IN  quota > 0 => CountRequestsToday(KeyOf[r]) <= quota

RequestsLeft(r) ==
  LET quota == Effective(r, "requests_per_day")
  IN  quota > 0 => CountRequestsToday(KeyOf[r]) < quota

TokensLeft(r) ==
  LET quota == Effective(r, "tokens_per_day")
  IN  quota > 0 => SumTokensToday(KeyOf[r]) < quota

Refuse(r, code) ==
  /\ stage' = [stage EXCEPT ![r] = "over"]
  /\ answer' = [answer EXCEPT ![r] = code]

PrecheckRateLimited(r) ==
  /\ stage[r] = "authenticated"
  /\ UNCHANGED <<policy, carried, recordVars, day, peak>>
  /\ Limiter(r)!CheckRefuse(KeyOf[r])
  /\ Refuse(r, "rate_limit_exceeded")

(* Wrong: the quotas are looked at before the limiter is charged.          *)
PrecheckOverQuotaUncharged(r) ==
  /\ stage[r] = "authenticated"
  /\ UNCHANGED <<limiterVars, policy, carried, recordVars, day, peak>>
  /\ \/ ~RequestsLeft(r) /\ Refuse(r, "request_quota_exceeded")
     \/ RequestsLeft(r) /\ ~TokensLeft(r) /\ Refuse(r, "token_quota_exceeded")

PrecheckOverQuota(r) ==
  /\ stage[r] = "authenticated"
  /\ UNCHANGED <<policy, carried, recordVars, day, peak>>
  /\ LimiterAdmits(r)
  /\ \/ ~RequestsLeft(r) /\ Refuse(r, "request_quota_exceeded")
     \/ RequestsLeft(r) /\ ~TokensLeft(r) /\ Refuse(r, "token_quota_exceeded")

PrecheckPass(r) ==
  /\ stage[r] = "authenticated"
  /\ UNCHANGED <<policy, carried, answer, recordVars, day>>
  /\ LimiterAdmits(r)
  /\ RequestsLeft(r) /\ TokensLeft(r)
  /\ stage' = [stage EXCEPT ![r] = "routing"]
  /\ peak' = [peak EXCEPT ![KeyOf[r]] =
                IF @ > Cardinality(UnderWay(KeyOf[r])) THEN @ ELSE @ + 1]

(* No such model, no access to it, no backend: over, without a record.     *)
RouteFail(r) ==
  /\ stage[r] = "routing"
  /\ stage' = [stage EXCEPT ![r] = "over"]
  /\ UNCHANGED <<limiterVars, policy, carried, answer, recordVars, day, peak>>

Begin(r) ==
  /\ stage[r] = "routing"
  /\ stage' = [stage EXCEPT ![r] = "serving"]
  /\ started' = [started EXCEPT ![r] = day]
  /\ UNCHANGED <<limiterVars, policy, carried, answer, recorded, tokens, day, peak>>

(* Wrong: prompt and completion are added to a total that has them.        *)
EndDoubleCounts(r) ==
  /\ stage[r] = "serving"
  /\ stage' = [stage EXCEPT ![r] = "over"]
  /\ recorded' = [recorded EXCEPT ![r] = "completed"]
  /\ \E total \in 0 .. MaxTokens : tokens' = [tokens EXCEPT ![r] = 2 * total]
  /\ UNCHANGED <<limiterVars, policy, carried, answer, started, day, peak>>

(* The end, with a record.  Only a whole answer tells its tokens, and that *)
(* of a stream does not.                                                   *)
End(r) ==
  /\ stage[r] = "serving"
  /\ stage' = [stage EXCEPT ![r] = "over"]
  /\ \E outcome \in Fates : recorded' = [recorded EXCEPT ![r] = outcome]
  /\ \E total \in {NULL} \cup 0 .. MaxTokens :
       /\ recorded'[r] # "completed" => total = NULL
       /\ tokens' = [tokens EXCEPT ![r] = total]
  /\ UNCHANGED <<limiterVars, policy, carried, answer, started, day, peak>>

(* A response whose generator never started, or a record that the database *)
(* refused, which is logged and swallowed.                                 *)
EndUnrecorded(r) ==
  /\ stage[r] = "serving"
  /\ stage' = [stage EXCEPT ![r] = "over"]
  /\ UNCHANGED <<limiterVars, policy, carried, answer, recordVars, day, peak>>

-----------------------------------------------------------------------------
(* The surroundings.                                                       *)

(* Wrong: the records are in the memory of the process, too.               *)
CrashForgetsRecords ==
  /\ stage' = [r \in Req |-> IF stage[r] = "new" THEN "new" ELSE "gone"]
  /\ windows' = [k \in Key |-> [start |-> -1, count |-> 0]]
  /\ log' = [k \in Key |-> <<>>]
  /\ recorded' = [r \in Req |-> "none"]
  /\ UNCHANGED <<now, result, policy, carried, answer, started, tokens, day, peak>>

(* The process dies and another one starts.                                *)
Crash ==
  /\ stage' = [r \in Req |-> IF stage[r] = "new" THEN "new" ELSE "gone"]
  /\ windows' = [k \in Key |-> [start |-> -1, count |-> 0]]
  /\ log' = [k \in Key |-> <<>>]
  /\ UNCHANGED <<now, result, policy, carried, answer, recordVars, day, peak>>

Tick ==
  /\ now < LastTick
  /\ now' = now + 1
  /\ UNCHANGED <<windows, result, log, policy, stage, carried, answer, recordVars,
                 day, peak>>

NextDay ==
  /\ day < LastDay
  /\ day' = day + 1
  /\ UNCHANGED <<limiterVars, policy, stage, carried, answer, recordVars, peak>>

Precheck(r) == PrecheckRateLimited(r) \/ PrecheckOverQuota(r) \/ PrecheckPass(r)

Next ==
  \/ \E r \in Req :
       \/ Authenticate(r) \/ Precheck(r)
       \/ RouteFail(r) \/ Begin(r) \/ End(r) \/ EndUnrecorded(r)
  \/ \E c \in Client : PutPolicy(c)
  \/ Crash \/ Tick \/ NextDay

Spec == Init /\ [][Next]_vars

-----------------------------------------------------------------------------
(* The reports, of the records of today.                                   *)

Having(rows, outcome) == Cardinality({r \in rows : recorded[r] = outcome})

Summary(rows) ==
  [requests  |-> Cardinality(rows),
   outcomes  |-> [o \in Outcomes |-> Having(rows, o)],
   unknown   |-> Cardinality({r \in rows : tokens[r] = NULL}),
   tokens    |-> TokensIn(rows)]

(* Of a key, else of a client, else of all: a client named along with a    *)
(* key is not looked at.                                                   *)
Summarize(k, c) ==
  Summary({r \in RowsOf(day) :
             IF k # NULL THEN KeyOf[r] = k
             ELSE c # NULL => ClientOf[KeyOf[r]] = c})

(* GET /admin/usage, /usage/keys/{id}, /usage/clients/{id}.                *)
UsageOfAll == Summarize(NULL, NULL)
UsageOfKey(k) == Summarize(k, NULL)
UsageOfClient(c) == Summarize(NULL, c)

(* Wrong: records without a backend have no line.                          *)
BreakdownOfKnown(group) ==
  [g \in {group[r] : r \in RowsOf(day)} \ {NULL} |->
     LET rows == {r \in RowsOf(day) : group[r] = g}
     IN  [requests |-> Cardinality(rows), completed |-> Having(rows, "completed"),
          tokens |-> TokensIn(rows)]]

(* The requests of today by client, model or backend: group[r] is that of  *)
(* r, NULL for a backend not known.  There are no columns for timed_out    *)
(* and rejected.                                                           *)
Breakdown(group) ==
  LET today == RowsOf(day)
  IN  [g \in {group[r] : r \in today} |->
         LET rows == {r \in today : group[r] = g}
         IN  [requests  |-> Cardinality(rows),
              completed |-> Having(rows, "completed"),
              failed    |-> Having(rows, "failed"),
              cancelled |-> Having(rows, "cancelled"),
              tokens    |-> TokensIn(rows)]]

ClientBreakdown == Breakdown([r \in Req |-> ClientOf[KeyOf[r]]])
ModelBreakdown == Breakdown(ModelOf)
BackendBreakdown == Breakdown(BackendOf)

DurationsOf(rows) == FoldSet(LAMBDA r, list : Append(list, Took[r]), <<>>, rows)

(* GET /admin/observability/latency, for the total duration.               *)
LatencyOfToday == LatencyStats(DurationsOf(RowsOf(day)))

(* ObservabilityService.summary, which counts for itself; LatencyOfToday   *)
(* is a part of it, too.                                                   *)
ObservabilitySummary ==
  LET today == RowsOf(day)
  IN  [requests |-> [o \in Outcomes |-> Having(today, o)],
       tokens   |-> TokensIn(today),
       unknown  |-> Cardinality({r \in today : tokens[r] = NULL})]

(* GET /admin/metrics: the samples declared as counters.                   *)
Counters ==
  LET summary == ObservabilitySummary
  IN  [syn_requests_total |-> summary.requests,
       syn_tokens_total |-> [type \in {"total"} |-> summary.tokens]]

-----------------------------------------------------------------------------
(* Properties.                                                             *)

(* The quotas of the requests of k on record on day d; zero for none.      *)
Quotas(k, d, field) == {Effective(r, field) : r \in RowsOfKey(k, d)}

RequestsBounded ==
  \A k \in Key, d \in 0 .. LastDay :
    LET rows == RowsOfKey(k, d)
        quotas == Quotas(k, d, "requests_per_day")
    IN  rows # {} /\ 0 \notin quotas => Cardinality(rows) < Max(quotas) + peak[k]

TokensBounded ==
  \A k \in Key, d \in 0 .. LastDay :
    LET rows == RowsOfKey(k, d)
        quotas == Quotas(k, d, "tokens_per_day")
    IN  rows # {} /\ 0 \notin quotas =>
          TokensIn(rows) < Max(quotas) + peak[k] * MaxTokens

(* What quotas hold: a key gets no further on a day than its loosest quota *)
(* of the day, less one, and what was under way together; whatever the     *)
(* crashes, the changes of policy and of day in between.  A key with one   *)
(* request at a time is held to its quota, and to it and one completion.   *)
OvershootBounded == RequestsBounded /\ TokensBounded

(* The limiter is paid first: every request of this process that it let    *)
(* through under a limit has used up one, those included that the quotas   *)
(* refused and those that found no model or may not use it.  The last two  *)
(* are charged because create_chat_completion prechecks before it routes;  *)
(* chat.py:16 and ARCHITECTURE.md:654 put the precheck after the model     *)
(* policy, where these requests would not come to it.                      *)
LimiterPaidByAll ==
  \A k \in Key :
    Len(log[k]) =
      Cardinality({r \in Req : /\ KeyOf[r] = k
                               /\ stage[r] \in {"routing", "serving", "over"}
                               /\ answer[r] # "rate_limit_exceeded"
                               /\ Effective(r, "requests_per_minute") > 0})

(* The pages agree with each other and with the quotas: what the page of a *)
(* key shows is what its next precheck counts; the outcomes, the clients,  *)
(* the models and the backends each add up to the whole; and the latencies *)
(* are the median, the 95th percentile and the longest of as many.         *)
PagesAgree ==
  LET all == UsageOfAll
      byClient == ClientBreakdown
  IN  /\ \A k \in Key :
           LET page == UsageOfKey(k)
           IN  /\ page.requests = CountRequestsToday(k)
               /\ page.tokens = SumTokensToday(k)
      /\ all.outcomes = ObservabilitySummary.requests
      /\ all.requests = MapThenSumSet(LAMBDA o : all.outcomes[o], Outcomes)
      /\ AreStatsOf(LatencyOfToday, DurationsOf(RowsOf(day)))
      /\ LatencyOfToday.count = all.requests
      /\ \A c \in DOMAIN byClient :
           LET page == UsageOfClient(c)
           IN  /\ byClient[c].requests = page.requests
               /\ byClient[c].completed = page.outcomes["completed"]
      /\ \A page \in {byClient, ModelBreakdown, BackendBreakdown} :
           /\ all.requests =
                MapThenSumSet(LAMBDA g : page[g].requests, DOMAIN page)
           /\ all.tokens = MapThenSumSet(LAMBDA g : page[g].tokens, DOMAIN page)

(* What is scraped as a counter falls at midnight (UTC) only, a crash of   *)
(* the server included.                                                    *)
CountersFallAtMidnightOnly ==
  [][recorded' # recorded /\ day' = day =>
       LET before == Counters
           after == Counters'
       IN  \A c \in DOMAIN before : \A label \in DOMAIN before[c] :
             after[c][label] >= before[c][label]]_vars

(* "Rejected (queue_full) and timed-out (queue_timeout) requests do NOT    *)
(* count" for the request quota (ARCHITECTURE.md): who is refused for it   *)
(* has had as many requests of today served, or failed or broken off.  The *)
(* code does not keep this: every record counts.                           *)
TurnedAwayDoNotCount ==
  [][\A r \in Req :
       answer'[r] # answer[r] /\ answer'[r] = "request_quota_exceeded" =>
         Cardinality({q \in RowsOfKey(KeyOf[r], day) :
                        recorded[q] \notin {"rejected", "timed_out"}})
           >= Effective(r, "requests_per_day")]_vars
=============================================================================
