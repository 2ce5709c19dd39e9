----------------------------- MODULE RateLimiter ----------------------------
(***************************************************************************)
(* The request rate limiter of app/core/rate_limit.py: one fixed window    *)
(* per key, aligned to multiples of window_seconds on a monotonic clock.   *)
(*                                                                         *)
(* check() holds its asyncio.Lock from the reading of the clock to the     *)
(* last write and suspends nowhere in between, so a call is one step.  The *)
(* limit of a key is the policy resolved for its request (core/policy.py)  *)
(* and may be another one at the next call; the windows live in the        *)
(* process and are gone after a restart.                                   *)
(*                                                                         *)
(* The clock counts ticks, Scale of them in a second: what check() does    *)
(* with fractions of a second is visible.                                  *)
(***************************************************************************)
EXTENDS Integers, FiniteSets, Sequences

CONSTANTS Key,            \* the keys, one per API key
          Scale,          \* ticks in a second
          WindowSeconds,  \* window_seconds
          Limits,         \* the limits policies can ask for, 0 for none
          LastTick        \* bound: ticks the clock runs through

ASSUME LimiterAssumption ==
  /\ Scale \in Nat \ {0} /\ WindowSeconds \in Nat \ {0}
  /\ Limits \subseteq Nat
  /\ LastTick \in Nat

VARIABLES
  now,      \* the clock
  windows,  \* _windows: the start and the count of each key's window
  limit,    \* the effective requests_per_minute of each key
  result,   \* the RateLimitResult of the key's last call
  log       \* when the key was admitted, since the process started

vars == <<now, windows, limit, result, log>>

Window == Scale * WindowSeconds

(* The window a point of time is in, named by its start.                   *)
WindowOf(t) == t - (t % Window)

(* No window is tracked: no window has this start.                         *)
NoWindow == [start |-> -1, count |-> 0]

TypeOK ==
  /\ now \in Nat
  /\ windows \in [Key -> [start : Int, count : Nat]]
  /\ limit \in [Key -> Limits]
  /\ result \in [Key -> [allowed : BOOLEAN, remaining : {-1} \cup Nat, retry : Nat]]
  /\ log \in [Key -> Seq(Nat)]

Init ==
  /\ now = 0
  /\ windows = [k \in Key |-> NoWindow]
  /\ limit \in [Key -> Limits]
  /\ result = [k \in Key |-> [allowed |-> TRUE, remaining |-> -1, retry |-> 0]]
  /\ log = [k \in Key |-> <<>>]

-----------------------------------------------------------------------------
Answer(k, allowed, remaining, retry) ==
  result' = [result EXCEPT ![k] =
               [allowed |-> allowed, remaining |-> remaining, retry |-> retry]]

(* limit <= 0: nothing is looked at and nothing is counted.                *)
CheckUnlimited(k) ==
  /\ limit[k] = 0
  /\ Answer(k, TRUE, -1, 0)
  /\ UNCHANGED <<now, windows, limit, log>>

(* A call is admitted with this window on record.                          *)
Admit(k, w) ==
  /\ windows' = [windows EXCEPT ![k] = w]
  /\ Answer(k, TRUE, limit[k] - w.count, 0)
  /\ log' = [log EXCEPT ![k] = Append(@, now)]
  /\ UNCHANGED <<now, limit>>

(* Wrong: a window that starts with the call that opens it.                *)
CheckNewWindowUnaligned(k) ==
  /\ limit[k] > 0
  /\ windows[k].start # WindowOf(now)
  /\ Admit(k, [start |-> now, count |-> 1])

(* The first call in a window.                                             *)
CheckNewWindow(k) ==
  /\ limit[k] > 0
  /\ windows[k].start # WindowOf(now)
  /\ Admit(k, [start |-> WindowOf(now), count |-> 1])

(* Wrong: > for >=.                                                        *)
CheckCountedOffByOne(k) ==
  /\ limit[k] > 0
  /\ windows[k].start = WindowOf(now) /\ windows[k].count <= limit[k]
  /\ Admit(k, [windows[k] EXCEPT !.count = @ + 1])

(* Wrong: the count is not looked at.                                      *)
CheckCountedUnguarded(k) ==
  /\ limit[k] > 0
  /\ windows[k].start = WindowOf(now)
  /\ Admit(k, [windows[k] EXCEPT !.count = @ + 1])

CheckCounted(k) ==
  /\ limit[k] > 0
  /\ windows[k].start = WindowOf(now) /\ windows[k].count < limit[k]
  /\ Admit(k, [windows[k] EXCEPT !.count = @ + 1])

(* Wrong: without the least value.                                         *)
RetryAfterUnclamped == (WindowOf(now) + Window - now) \div Scale

(* What is left of the window, in whole seconds, cut off and at least one. *)
RetryAfter ==
  LET left == (WindowOf(now) + Window - now) \div Scale
  IN  IF left < 1 THEN 1 ELSE left

(* Wrong: a refused call gives up what it has found out about the window.  *)
CheckRefuseForgets(k) ==
  /\ limit[k] > 0
  /\ windows[k].start = WindowOf(now) /\ windows[k].count >= limit[k]
  /\ windows' = [windows EXCEPT ![k] = NoWindow]
  /\ Answer(k, FALSE, 0, RetryAfter)
  /\ UNCHANGED <<now, limit, log>>

(* Wrong: the call that would reach the limit is refused.                  *)
CheckRefuseEarly(k) ==
  /\ limit[k] > 0
  /\ windows[k].start = WindowOf(now) /\ windows[k].count + 1 >= limit[k]
  /\ Answer(k, FALSE, 0, RetryAfter)
  /\ UNCHANGED <<now, windows, limit, log>>

CheckRefuse(k) ==
  /\ limit[k] > 0
  /\ windows[k].start = WindowOf(now) /\ windows[k].count >= limit[k]
  /\ Answer(k, FALSE, 0, RetryAfter)
  /\ UNCHANGED <<now, windows, limit, log>>

(* resolve_policy finds another limit at the key's next call.              *)
ChangeLimit(k) ==
  /\ \E l \in Limits : limit' = [limit EXCEPT ![k] = l]
  /\ UNCHANGED <<now, windows, result, log>>

Tick ==
  /\ now < LastTick
  /\ now' = now + 1
  /\ UNCHANGED <<windows, limit, result, log>>

(* A new process: the windows are empty and the clock goes on.             *)
Restart ==
  /\ windows' = [k \in Key |-> NoWindow]
  /\ log' = [k \in Key |-> <<>>]
  /\ UNCHANGED <<now, limit, result>>

Check(k) ==
  CheckUnlimited(k) \/ CheckNewWindow(k) \/ CheckCounted(k) \/ CheckRefuse(k)

Next == (\E k \in Key : Check(k) \/ ChangeLimit(k)) \/ Tick \/ Restart

Spec == Init /\ [][Next]_vars

-----------------------------------------------------------------------------
(* Properties.                                                             *)

(* The admissions of k, by their position in the log, in the window w.     *)
InWindow(k, w) == {i \in DOMAIN log[k] : WindowOf(log[k][i]) = w}

Admitted(k) == log'[k] # log[k] /\ log'[k] # <<>>

(* Whatever the limits were before: a call that check() admits under a     *)
(* limit is within it, counting every call admitted under a limit of its   *)
(* key in its window.                                                      *)
WithinLimit ==
  [][\A k \in Key :
       Admitted(k) => Cardinality(InWindow(k, WindowOf(now)))' <= limit[k]]_vars

(* The count on record is the number of admissions in the window on        *)
(* record, and none is in a later one: no admission escapes the count.     *)
CountExact ==
  \A k \in Key :
    /\ Cardinality(InWindow(k, windows[k].start)) = windows[k].count
    /\ \A i \in DOMAIN log[k] : WindowOf(log[k][i]) <= windows[k].start

(* A fixed window lets at most twice the limit through in any span of its  *)
(* length: the end of one window and the beginning of the next.            *)
SpanBound ==
  \A k \in Key : \A t \in 0 .. now : \A most \in Limits :
    (\A l \in Limits : l <= most) =>
      Cardinality({i \in DOMAIN log[k] : t <= log[k][i] /\ log[k][i] < t + Window})
        <= 2 * most

(* retry_after is never less than a second nor more than the window, and   *)
(* falls short of the end of the window by less than a second.             *)
RetryAfterClose ==
  [][\A k \in Key :
       result'[k] # result[k] /\ ~result'[k].allowed =>
         /\ result'[k].retry \in 1 .. WindowSeconds
         /\ WindowOf(now + (result'[k].retry + 1) * Scale) > WindowOf(now)]_vars

(* A refusal was earned: the window it fell in already held as many        *)
(* admissions as the limit allowed.                                        *)
RefusedOnlyWhenFull ==
  [][\A k \in Key :
       result'[k] # result[k] /\ ~result'[k].allowed =>
         Cardinality(InWindow(k, WindowOf(now))) >= limit[k]]_vars
=============================================================================
