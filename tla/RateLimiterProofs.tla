------------------------- MODULE RateLimiterProofs --------------------------
(***************************************************************************)
(* Theorems about RateLimiter, for every set of keys, every window length, *)
(* every set of limits and a clock of any fineness.                        *)
(***************************************************************************)
EXTENDS RateLimiter, TLAPS, FiniteSetTheorems, SequenceTheorems

-----------------------------------------------------------------------------
(* Windows.                                                                *)

LEMMA ModWindow ==
  ASSUME NEW t \in Nat, NEW W \in Nat \ {0}
  PROVE  /\ t % W \in 0 .. (W - 1) /\ (t % W) <= t
         /\ t = (W * (t \div W)) + (t % W) /\ t \div W \in Int
  BY SMT

LEMMA MultiplesApart ==
  ASSUME NEW a \in Int, NEW b \in Int, NEW W \in Nat \ {0}, a > b
  PROVE  W * a >= (W * b) + W
  BY SMT

LEMMA WindowIsNat == Window \in Nat \ {0}
  BY LimiterAssumption DEF Window

LEMMA WindowOfNat ==
  ASSUME NEW t \in Nat
  PROVE  WindowOf(t) \in Nat
  BY WindowIsNat, ModWindow DEF WindowOf

(* Time does not take a window back.                                       *)
LEMMA WindowOfTick ==
  ASSUME NEW t \in Nat
  PROVE  WindowOf(t) <= WindowOf(t + 1)
  <1> DEFINE W == Window
             q == t \div W        r == t % W
             p == (t + 1) \div W  s == (t + 1) % W
  <1>1. /\ W \in Nat \ {0} /\ q \in Int /\ p \in Int
        /\ r \in 0 .. (W - 1) /\ s \in 0 .. (W - 1)
        /\ t = (W * q) + r /\ t + 1 = (W * p) + s
    BY WindowIsNat, ModWindow
  <1> HIDE DEF W, q, r, p, s
  <1>2. q <= p
    <2>1. SUFFICES ASSUME q > p PROVE FALSE
      BY <1>1
    <2>2. W * q >= (W * p) + W
      BY <1>1, <2>1, MultiplesApart
    <2> QED BY <1>1, <2>2
  <1>3. W * q <= W * p
    BY <1>1, <1>2, MultiplesApart
  <1>4. t - r <= (t + 1) - s
    BY <1>1, <1>3
  <1> QED BY <1>4 DEF WindowOf, W, r, s

(* A time is in its window, which begins at a multiple of the length.      *)
LEMMA WindowAround ==
  ASSUME NEW t \in Nat
  PROVE  /\ t \div Window \in Int /\ WindowOf(t) = Window * (t \div Window)
         /\ WindowOf(t) <= t /\ t < WindowOf(t) + Window
  <1> DEFINE q == t \div Window  r == t % Window  p == Window * q
  <1>1. /\ r \in 0 .. (Window - 1) /\ t = p + r /\ q \in Int /\ Window \in Nat \ {0}
    BY WindowIsNat, ModWindow
  <1>2. p \in Int
    BY <1>1
  <1>3. WindowOf(t) = t - r
    BY DEF WindowOf
  <1> HIDE DEF p, q, r
  <1>4. WindowOf(t) = p /\ p <= t /\ t < p + Window
    BY <1>1, <1>2, <1>3
  <1> QED BY <1>1, <1>4 DEF p, q

(* What comes at or after the end of a window is in a later one.           *)
LEMMA WindowAfter ==
  ASSUME NEW t \in Nat, NEW u \in Nat, u >= WindowOf(t) + Window
  PROVE  WindowOf(u) >= WindowOf(t) + Window
  <1> DEFINE q == t \div Window  p == u \div Window
  <1>1. /\ q \in Int /\ p \in Int /\ WindowOf(t) = Window * q /\ WindowOf(u) = Window * p
        /\ u < WindowOf(u) + Window /\ Window \in Nat \ {0}
        /\ WindowOf(t) \in Nat /\ WindowOf(u) \in Nat
    BY WindowAround, WindowIsNat, WindowOfNat
  <1> HIDE DEF q, p
  <1>2. p > q
    <2>1. SUFFICES ASSUME p <= q PROVE FALSE
      BY <1>1
    <2>2. p = q \/ Window * q >= (Window * p) + Window
      BY <1>1, <2>1, MultiplesApart
    <2>3. WindowOf(u) <= WindowOf(t)
      BY <1>1, <2>2
    <2> QED BY <1>1, <2>3
  <1>3. Window * p >= (Window * q) + Window
    BY <1>1, <1>2, MultiplesApart
  <1> QED BY <1>1, <1>3

(* A span of the length of a window meets two of them.                     *)
LEMMA WindowsOfSpan ==
  ASSUME NEW t \in Nat, NEW u \in Nat, t <= u, u < t + Window
  PROVE  WindowOf(u) \in {WindowOf(t), WindowOf(t) + Window}
  <1> DEFINE q == t \div Window  p == u \div Window
  <1>1. /\ q \in Int /\ p \in Int /\ WindowOf(t) = Window * q /\ WindowOf(u) = Window * p
        /\ WindowOf(t) <= t /\ t < WindowOf(t) + Window
        /\ WindowOf(u) <= u /\ u < WindowOf(u) + Window
        /\ Window \in Nat \ {0} /\ WindowOf(t) \in Nat /\ WindowOf(u) \in Nat
    BY WindowAround, WindowIsNat, WindowOfNat
  <1> HIDE DEF q, p
  <1>2. ~(q > p)
    <2>1. SUFFICES ASSUME q > p PROVE FALSE
      OBVIOUS
    <2>2. Window * q >= (Window * p) + Window
      BY <1>1, <2>1, MultiplesApart
    <2> QED BY <1>1, <2>2
  <1>3. ~(p > q + 1)
    <2>1. SUFFICES ASSUME p > q + 1 PROVE FALSE
      OBVIOUS
    <2>2. /\ Window * p >= (Window * (q + 1)) + Window
          /\ Window * (q + 1) >= (Window * q) + Window
      BY <1>1, <2>1, MultiplesApart
    <2>3. Window * (q + 1) \in Int
      BY <1>1
    <2>4. WindowOf(u) >= WindowOf(t) + Window + Window
      BY <1>1, <2>2, <2>3
    <2> QED BY <1>1, <2>4
  <1>4. p = q \/ p = q + 1
    BY <1>1, <1>2, <1>3
  <1>5. Window * (q + 1) = (Window * q) + Window
    BY <1>1
  <1> QED BY <1>1, <1>4, <1>5

-----------------------------------------------------------------------------
(* The admissions of a log that fall in a window.                          *)

Within(l, w) == {i \in DOMAIN l : WindowOf(l[i]) = w}

LEMMA WithinFinite ==
  ASSUME NEW l \in Seq(Nat), NEW w
  PROVE  IsFiniteSet(Within(l, w)) /\ Cardinality(Within(l, w)) \in Nat
  <1>1. Len(l) \in Nat /\ DOMAIN l = 1 .. Len(l)
    BY LenProperties
  <1>2. IsFiniteSet(1 .. Len(l))
    BY <1>1, FS_Interval
  <1> QED BY <1>1, <1>2, FS_Subset, FS_CardinalityType DEF Within

(* One more admission counts in its own window and in no other.            *)
LEMMA WithinAppend ==
  ASSUME NEW l \in Seq(Nat), NEW t \in Nat
  PROVE  /\ Append(l, t) \in Seq(Nat)
         /\ Cardinality(Within(Append(l, t), WindowOf(t)))
              = Cardinality(Within(l, WindowOf(t))) + 1
         /\ \A i \in DOMAIN Append(l, t) :
              (i \in DOMAIN l /\ Append(l, t)[i] = l[i]) \/ Append(l, t)[i] = t
  <1> DEFINE m == Append(l, t)
             n == Len(l) + 1
  <1>1. /\ Len(l) \in Nat /\ DOMAIN l = 1 .. Len(l)
        /\ m \in Seq(Nat) /\ Len(m) = n /\ DOMAIN m = 1 .. n
        /\ \A i \in 1 .. Len(l) : m[i] = l[i]
        /\ m[n] = t
    BY LenProperties, AppendProperties
  <1> HIDE DEF m
  <1>2. Within(m, WindowOf(t)) = Within(l, WindowOf(t)) \cup {n}
    BY <1>1 DEF Within
  <1>3. n \notin Within(l, WindowOf(t))
    BY <1>1 DEF Within
  <1>4. Cardinality(Within(m, WindowOf(t)))
          = Cardinality(Within(l, WindowOf(t))) + 1
    BY <1>2, <1>3, WithinFinite, FS_AddElement
  <1>5. \A i \in DOMAIN m : (i \in DOMAIN l /\ m[i] = l[i]) \/ m[i] = t
    BY <1>1
  <1> QED BY <1>1, <1>4, <1>5 DEF m

-----------------------------------------------------------------------------
(* What check() has in hand: the log l of a key, its window on record w    *)
(* and the time t.                                                         *)

(* The admissions in the window that t is in.                              *)
Used(l, t) == Cardinality(Within(l, WindowOf(t)))

(* The window counts what was admitted in it, and nothing is later.        *)
Counted(l, w, t) ==
  /\ Cardinality(Within(l, w.start)) = w.count
  /\ \A i \in DOMAIN l : WindowOf(l[i]) <= w.start
  /\ w.start <= WindowOf(t)

(* So check() knows from its window how much of the limit is used up.      *)
LEMMA UsedIsOnRecord ==
  ASSUME NEW l \in Seq(Nat), NEW w \in [start : Int, count : Nat], NEW t \in Nat,
         Counted(l, w, t)
  PROVE  Used(l, t) = IF w.start = WindowOf(t) THEN w.count ELSE 0
  <1>1. CASE w.start = WindowOf(t)
    BY <1>1 DEF Counted, Used
  <1>2. CASE w.start # WindowOf(t)
    <2>1. WindowOf(t) \in Nat /\ w.start \in Int /\ w.start < WindowOf(t)
      BY <1>2, WindowOfNat DEF Counted
    <2>2. ASSUME NEW i \in DOMAIN l PROVE WindowOf(l[i]) # WindowOf(t)
      <3>1. WindowOf(l[i]) \in Nat
        BY LenProperties, ElementOfSeq, WindowOfNat
      <3> QED BY <2>1, <3>1 DEF Counted
    <2>3. Within(l, WindowOf(t)) = {}
      BY <2>2 DEF Within
    <2> QED BY <1>2, <2>3, FS_EmptySet DEF Used
  <1> QED BY <1>1, <1>2

(* One more, in the window on record or in the first call of a new one.    *)
LEMMA OneMoreCounted ==
  ASSUME NEW l \in Seq(Nat), NEW w \in [start : Int, count : Nat], NEW t \in Nat,
         Counted(l, w, t)
  PROVE  /\ Used(l, t) \in Nat /\ Used(Append(l, t), t) = Used(l, t) + 1
         /\ Counted(Append(l, t), [start |-> WindowOf(t), count |-> Used(l, t) + 1], t)
  <1> DEFINE m == Append(l, t)
  <1>1. /\ Used(l, t) \in Nat /\ Used(m, t) = Used(l, t) + 1
        /\ \A i \in DOMAIN m : (i \in DOMAIN l /\ m[i] = l[i]) \/ m[i] = t
    BY WithinFinite, WithinAppend DEF Used
  <1>2. WindowOf(t) \in Nat /\ w.start \in Int /\ w.start <= WindowOf(t)
    BY WindowOfNat DEF Counted
  <1> HIDE DEF m
  <1>3. ASSUME NEW i \in DOMAIN m PROVE WindowOf(m[i]) <= WindowOf(t)
    <2>1. CASE m[i] = t
      BY <1>2, <2>1
    <2>2. CASE i \in DOMAIN l /\ m[i] = l[i]
      <3>1. WindowOf(l[i]) \in Nat /\ WindowOf(l[i]) <= w.start
        BY <2>2, LenProperties, ElementOfSeq, WindowOfNat DEF Counted
      <3> QED BY <1>2, <2>2, <3>1
    <2> QED BY <1>1, <1>3, <2>1, <2>2
  <1>4. Cardinality(Within(m, WindowOf(t))) = Used(l, t) + 1
    BY <1>1 DEF Used
  <1>5. Counted(m, [start |-> WindowOf(t), count |-> Used(l, t) + 1], t)
    BY <1>2, <1>3, <1>4 DEF Counted
  <1> QED BY <1>1, <1>5 DEF m

LEMMA CountedLater ==
  ASSUME NEW l, NEW w \in [start : Int, count : Nat], NEW t \in Nat, Counted(l, w, t)
  PROVE  Counted(l, w, t + 1)
  <1>1. /\ WindowOf(t) \in Nat /\ WindowOf(t + 1) \in Nat
        /\ WindowOf(t) <= WindowOf(t + 1) /\ w.start \in Int
    BY WindowOfNat, WindowOfTick
  <1> QED BY <1>1 DEF Counted

LEMMA NoneCounted ==
  ASSUME NEW t \in Nat
  PROVE  Counted(<<>>, NoWindow, t)
  <1>1. Within(<<>>, -1) = {} /\ DOMAIN <<>> = {}
    BY DEF Within
  <1>2. WindowOf(t) \in Nat
    BY WindowOfNat
  <1> QED BY <1>1, <1>2, FS_EmptySet DEF Counted, NoWindow

-----------------------------------------------------------------------------
(* The inductive invariant: beside what CountExact says, no window on      *)
(* record begins after the one the clock is in.                            *)

AllCounted == \A k \in Key : Counted(log[k], windows[k], now)

IndInv == TypeOK /\ AllCounted

LEMMA CountsWhatWasAdmitted == IndInv => CountExact
  BY DEF IndInv, AllCounted, Counted, CountExact, InWindow, Within

LEMMA InitIndInv == Init => IndInv
  <1> SUFFICES ASSUME Init PROVE IndInv
    OBVIOUS
  <1>1. TypeOK
    BY EmptySeq DEF Init, TypeOK, NoWindow
  <1>2. AllCounted
    BY NoneCounted DEF Init, AllCounted
  <1> QED BY <1>1, <1>2 DEF IndInv

(* Used(log[k], now), of the state at hand.                                *)
LEMMA UsedNow ==
  ASSUME IndInv, NEW k \in Key
  PROVE  /\ now \in Nat /\ log[k] \in Seq(Nat) /\ windows[k] \in [start : Int, count : Nat]
         /\ Counted(log[k], windows[k], now)
         /\ Used(log[k], now)
              = IF windows[k].start = WindowOf(now) THEN windows[k].count ELSE 0
  BY UsedIsOnRecord DEF IndInv, TypeOK, AllCounted

(* A call is admitted with a window that counts everything admitted in it. *)
LEMMA AdmitInv ==
  ASSUME IndInv, NEW k \in Key, limit[k] \in Nat, Used(log[k], now) + 1 <= limit[k],
         Admit(k, [start |-> WindowOf(now), count |-> Used(log[k], now) + 1])
  PROVE  IndInv'
  <1> DEFINE w == [start |-> WindowOf(now), count |-> Used(log[k], now) + 1]
  <1>1. /\ now \in Nat /\ WindowOf(now) \in Nat /\ log[k] \in Seq(Nat)
        /\ Append(log[k], now) \in Seq(Nat) /\ Used(log[k], now) \in Nat
        /\ w \in [start : Int, count : Nat] /\ w.count <= limit[k]
        /\ Counted(Append(log[k], now), w, now)
    <2>1. /\ now \in Nat /\ WindowOf(now) \in Nat /\ log[k] \in Seq(Nat)
          /\ windows[k] \in [start : Int, count : Nat] /\ Counted(log[k], windows[k], now)
      BY UsedNow, WindowOfNat
    <2>2. Append(log[k], now) \in Seq(Nat)
      BY <2>1, WithinAppend
    <2>3. Used(log[k], now) \in Nat /\ Counted(Append(log[k], now), w, now)
      BY <2>1, OneMoreCounted
    <2> QED BY <2>1, <2>2, <2>3
  <1>2. Admit(k, w)
    OBVIOUS
  <1> HIDE DEF w
  <1>3. /\ now' = now /\ limit' = limit
        /\ log' = [log EXCEPT ![k] = Append(@, now)]
        /\ windows' = [windows EXCEPT ![k] = w]
    BY <1>2 DEF Admit
  <1>4. TypeOK'
    <2>1. result' \in [Key -> [allowed : BOOLEAN, remaining : {-1} \cup Nat, retry : Nat]]
      BY <1>1, <1>2 DEF IndInv, TypeOK, Admit, Answer
    <2> QED BY <1>1, <1>3, <2>1 DEF IndInv, TypeOK
  <1>5. ASSUME NEW o \in Key PROVE Counted(log'[o], windows'[o], now)
    <2>1. CASE o = k
      BY <1>1, <1>3, <2>1 DEF IndInv, TypeOK
    <2>2. CASE o # k
      BY <1>3, <2>2 DEF IndInv, TypeOK, AllCounted
    <2> QED BY <2>1, <2>2
  <1>6. AllCounted'
    BY <1>3, <1>5 DEF AllCounted, Counted, Within, WindowOf, Window
  <1> QED BY <1>4, <1>6 DEF IndInv

(* What check() does under a limit, said with what is used up of it.       *)
LEMMA AdmitsByUse ==
  ASSUME IndInv, NEW k \in Key, CheckNewWindow(k) \/ CheckCounted(k)
  PROVE  /\ limit[k] \in Nat /\ Used(log[k], now) + 1 <= limit[k]
         /\ Admit(k, [start |-> WindowOf(now), count |-> Used(log[k], now) + 1])
  <1>1. /\ windows[k] \in [start : Int, count : Nat] /\ limit[k] \in Nat
        /\ Used(log[k], now)
             = IF windows[k].start = WindowOf(now) THEN windows[k].count ELSE 0
    BY UsedNow, LimiterAssumption DEF IndInv, TypeOK
  <1>2. CASE CheckNewWindow(k)
    BY <1>1, <1>2 DEF CheckNewWindow
  <1>3. CASE CheckCounted(k)
    <2>1. /\ windows[k].start = WindowOf(now) /\ windows[k].count < limit[k]
          /\ Admit(k, [windows[k] EXCEPT !.count = @ + 1])
      BY <1>3 DEF CheckCounted
    <2>2. [windows[k] EXCEPT !.count = @ + 1]
            = [start |-> WindowOf(now), count |-> windows[k].count + 1]
      BY <1>1, <2>1
    <2> QED BY <1>1, <2>1, <2>2
  <1> QED BY <1>2, <1>3

LEMMA RefusesByUse ==
  ASSUME IndInv, NEW k \in Key, CheckRefuse(k)
  PROVE  Used(log[k], now) >= limit[k]
  BY UsedNow DEF CheckRefuse

LEMMA RetryAfterType == now \in Nat => RetryAfter \in Nat
  BY WindowIsNat, WindowOfNat, LimiterAssumption DEF RetryAfter

(* A step that leaves the clock, the windows and the log alone.            *)
LEMMA QuietInv ==
  ASSUME IndInv, TypeOK', UNCHANGED <<now, windows, log>>
  PROVE  IndInv'
  BY DEF IndInv, AllCounted, Counted, Within, WindowOf, Window

LEMMA StepIndInv == IndInv /\ [Next]_vars => IndInv'
  <1> SUFFICES ASSUME IndInv, [Next]_vars PROVE IndInv'
    OBVIOUS
  <1> USE LimiterAssumption
  <1>1. ASSUME NEW k \in Key, CheckUnlimited(k) PROVE IndInv'
    <2>1. TypeOK'
      BY <1>1 DEF IndInv, TypeOK, CheckUnlimited, Answer
    <2> QED BY <1>1, <2>1, QuietInv DEF CheckUnlimited
  <1>2. ASSUME NEW k \in Key, CheckNewWindow(k) \/ CheckCounted(k) PROVE IndInv'
    BY <1>2, AdmitsByUse, AdmitInv
  <1>3. ASSUME NEW k \in Key, CheckRefuse(k) PROVE IndInv'
    <2>1. RetryAfter \in Nat
      BY RetryAfterType DEF IndInv, TypeOK
    <2>2. TypeOK'
      BY <1>3, <2>1 DEF IndInv, TypeOK, CheckRefuse, Answer
    <2> QED BY <1>3, <2>2, QuietInv DEF CheckRefuse
  <1>4. ASSUME NEW k \in Key, ChangeLimit(k) PROVE IndInv'
    <2>1. TypeOK'
      BY <1>4 DEF IndInv, TypeOK, ChangeLimit
    <2> QED BY <1>4, <2>1, QuietInv DEF ChangeLimit
  <1>5. CASE Tick
    <2>1. TypeOK'
      BY <1>5 DEF IndInv, TypeOK, Tick
    <2>2. \A k \in Key : Counted(log[k], windows[k], now + 1)
      BY UsedNow, CountedLater
    <2>3. AllCounted'
      BY <1>5, <2>2 DEF AllCounted, Counted, Within, WindowOf, Window, Tick
    <2> QED BY <2>1, <2>3 DEF IndInv
  <1>6. CASE Restart
    <2>1. TypeOK'
      BY <1>6, EmptySeq DEF IndInv, TypeOK, Restart, NoWindow
    <2>2. \A k \in Key : Counted(<<>>, NoWindow, now)
      BY NoneCounted DEF IndInv, TypeOK
    <2>3. AllCounted'
      BY <1>6, <2>2 DEF AllCounted, Counted, Within, WindowOf, Window, Restart, NoWindow
    <2> QED BY <2>1, <2>3 DEF IndInv
  <1>7. CASE UNCHANGED vars
    <2>1. TypeOK'
      BY <1>7 DEF IndInv, TypeOK, vars
    <2> QED BY <1>7, <2>1, QuietInv DEF vars
  <1> QED BY <1>1, <1>2, <1>3, <1>4, <1>5, <1>6, <1>7 DEF Next, Check

LEMMA IndInvHolds == Spec => []IndInv
  BY InitIndInv, StepIndInv, PTL DEF Spec

-----------------------------------------------------------------------------
(* The types, among them that the rest of a limit is never negative.       *)
THEOREM TypeCorrect == Spec => []TypeOK
  BY IndInvHolds, PTL DEF IndInv

(* The count on record is what was admitted in the window on record.       *)
THEOREM CountsAreExact == Spec => []CountExact
  BY IndInvHolds, CountsWhatWasAdmitted, PTL

(* check() admits no call beyond the limit it came with, however the       *)
(* limits changed before.                                                  *)
THEOREM AdmittedWithinLimit == Spec => WithinLimit
  <1>1. IndInv /\ [Next]_vars =>
          [\A k \in Key : Admitted(k) =>
             Cardinality(InWindow(k, WindowOf(now)))' <= limit[k]]_vars
    <2> SUFFICES ASSUME IndInv, Next, NEW k \in Key, Admitted(k)
                 PROVE  Cardinality(InWindow(k, WindowOf(now)))' <= limit[k]
      OBVIOUS
    <2>1. CheckNewWindow(k) \/ CheckCounted(k)
      BY DEF Next, Check, CheckUnlimited, CheckNewWindow, CheckCounted, Admit,
             CheckRefuse, ChangeLimit, Tick, Restart, Admitted, IndInv, TypeOK
    <2>2. /\ Used(log[k], now) + 1 <= limit[k]
          /\ now' = now /\ log' = [log EXCEPT ![k] = Append(@, now)]
      BY <2>1, AdmitsByUse DEF Admit
    <2>3. Used(Append(log[k], now), now) = Used(log[k], now) + 1
      BY UsedNow, OneMoreCounted
    <2>4. Cardinality(InWindow(k, WindowOf(now)))' = Used(Append(log[k], now), now)
      BY <2>2 DEF Used, Within, InWindow, WindowOf, Window, IndInv, TypeOK
    <2> QED BY <2>2, <2>3, <2>4
  <1> QED BY <1>1, IndInvHolds, PTL DEF Spec, WithinLimit

(* check() refuses no call while its window has room.                      *)
THEOREM RefusalsAreEarned == Spec => RefusedOnlyWhenFull
  <1>1. IndInv /\ [Next]_vars =>
          [\A k \in Key : result'[k] # result[k] /\ ~result'[k].allowed =>
             Cardinality(InWindow(k, WindowOf(now))) >= limit[k]]_vars
    <2> SUFFICES ASSUME IndInv, Next, NEW k \in Key,
                        result'[k] # result[k], ~result'[k].allowed
                 PROVE  Cardinality(InWindow(k, WindowOf(now))) >= limit[k]
      OBVIOUS
    <2>1. CheckRefuse(k)
      BY DEF Next, Check, CheckUnlimited, CheckNewWindow, CheckCounted, Admit, Answer,
             CheckRefuse, ChangeLimit, Tick, Restart, IndInv, TypeOK
    <2>2. Used(log[k], now) = Cardinality(InWindow(k, WindowOf(now)))
      BY DEF Used, Within, InWindow
    <2> QED BY <2>1, <2>2, RefusesByUse
  <1> QED BY <1>1, IndInvHolds, PTL DEF Spec, RefusedOnlyWhenFull

-----------------------------------------------------------------------------
(* Spans.                                                                  *)

(* An admission is in one window only.                                     *)
LEMMA OtherWindows ==
  ASSUME NEW l \in Seq(Nat), NEW t \in Nat, NEW w, w # WindowOf(t)
  PROVE  Within(Append(l, t), w) = Within(l, w)
  <1> DEFINE m == Append(l, t)
             n == Len(l) + 1
  <1>1. /\ Len(l) \in Nat /\ DOMAIN l = 1 .. Len(l) /\ DOMAIN m = 1 .. n
        /\ \A i \in 1 .. Len(l) : m[i] = l[i]
        /\ m[n] = t
    BY LenProperties, AppendProperties
  <1> HIDE DEF m
  <1>2. Within(m, w) = Within(l, w)
    BY <1>1 DEF Within
  <1> QED BY <1>2 DEF m

(* No window holds more admissions than the highest limit allows.          *)
Highest(most) == most \in Limits /\ \A l \in Limits : l <= most
Capped(l) == \A most : Highest(most) => \A w : Cardinality(Within(l, w)) <= most
WindowsCapped == \A k \in Key : Capped(log[k])

LEMMA AdmitCapped ==
  ASSUME IndInv, WindowsCapped, NEW k \in Key, NEW w,
         Used(log[k], now) + 1 <= limit[k],
         Admit(k, w)
  PROVE  WindowsCapped'
  <1>1. now \in Nat /\ log[k] \in Seq(Nat) /\ limit[k] \in Limits /\ Limits \subseteq Nat
    BY LimiterAssumption DEF IndInv, TypeOK
  <1>2. /\ log'[k] = Append(log[k], now)
        /\ \A o \in Key \ {k} : log'[o] = log[o]
    BY DEF IndInv, TypeOK, Admit
  <1>3. Capped(Append(log[k], now))
    <2> SUFFICES ASSUME NEW most, Highest(most), NEW v
                 PROVE  Cardinality(Within(Append(log[k], now), v)) <= most
      BY DEF Capped
    <2>1. CASE v = WindowOf(now)
      <3>1. Cardinality(Within(Append(log[k], now), v))
              = Cardinality(Within(log[k], v)) + 1
        BY <1>1, <2>1, WithinAppend
      <3>2. limit[k] <= most /\ most \in Nat /\ limit[k] \in Nat
        BY <1>1 DEF Highest
      <3>3. Cardinality(Within(log[k], v)) \in Nat
        BY <1>1, WithinFinite
      <3> QED BY <2>1, <3>1, <3>2, <3>3 DEF Used
    <2>2. CASE v # WindowOf(now)
      <3>1. Within(Append(log[k], now), v) = Within(log[k], v)
        BY <1>1, <2>2, OtherWindows
      <3> QED BY <3>1 DEF WindowsCapped, Capped
    <2> QED BY <2>1, <2>2
  <1>4. ASSUME NEW o \in Key PROVE Capped(log'[o])
    BY <1>2, <1>3 DEF WindowsCapped
  <1> QED BY <1>4 DEF WindowsCapped, Capped, Within, WindowOf, Window, Highest

LEMMA StepCapped == IndInv /\ WindowsCapped /\ [Next]_vars => WindowsCapped'
  <1> SUFFICES ASSUME IndInv, WindowsCapped, [Next]_vars PROVE WindowsCapped'
    OBVIOUS
  <1>1. ASSUME log' = log PROVE WindowsCapped'
    BY <1>1 DEF WindowsCapped, Capped, Within, WindowOf, Window, Highest
  <1>2. ASSUME NEW k \in Key, CheckNewWindow(k) \/ CheckCounted(k) PROVE WindowsCapped'
    BY <1>2, AdmitsByUse, AdmitCapped
  <1>3. CASE Restart
    <2>1. \A k \in Key : DOMAIN log'[k] = {}
      BY <1>3 DEF Restart
    <2>2. \A k \in Key : \A w : Cardinality(Within(log'[k], w)) = 0
      <3>1. \A k \in Key : \A w : Within(log'[k], w) = {}
        BY <2>1 DEF Within
      <3> QED BY <3>1, FS_EmptySet
    <2>3. \A most : Highest(most) => most \in Nat
      BY LimiterAssumption DEF Highest
    <2>4. \A k \in Key : Capped(log'[k])
      BY <2>2, <2>3 DEF Capped
    <2> QED BY <2>4 DEF WindowsCapped, Capped, Within, WindowOf, Window, Highest
  <1> QED BY <1>1, <1>2, <1>3
          DEF Next, Check, CheckUnlimited, CheckRefuse, ChangeLimit, Tick, vars

LEMMA CappedHolds == Spec => []WindowsCapped
  <1>1. Init => WindowsCapped
    <2> SUFFICES ASSUME Init PROVE WindowsCapped
      OBVIOUS
    <2>1. \A k \in Key : \A w : Within(log[k], w) = {}
      BY DEF Init, Within
    <2>2. \A most : Highest(most) => most \in Nat
      BY LimiterAssumption DEF Highest
    <2>3. \A k \in Key : \A w : Cardinality(Within(log[k], w)) = 0
      BY <2>1, FS_EmptySet
    <2> QED BY <2>2, <2>3 DEF WindowsCapped, Capped
  <1> QED BY <1>1, IndInvHolds, StepCapped, PTL DEF Spec

(* A burst at the end of one window and one at the start of the next: no   *)
(* span of the length of a window sees more than twice the highest limit.  *)
THEOREM SpansAreBounded == Spec => []SpanBound
  <1>1. ASSUME IndInv, WindowsCapped PROVE SpanBound
    <2> SUFFICES ASSUME NEW k \in Key, NEW t \in 0 .. now, NEW most \in Limits,
                        \A l \in Limits : l <= most
                 PROVE  Cardinality({i \in DOMAIN log[k] :
                                       t <= log[k][i] /\ log[k][i] < t + Window}) <= 2 * most
      BY DEF SpanBound
    <2> DEFINE span == {i \in DOMAIN log[k] : t <= log[k][i] /\ log[k][i] < t + Window}
               A == Within(log[k], WindowOf(t))
               B == Within(log[k], WindowOf(t) + Window)
    <2>1. t \in Nat /\ log[k] \in Seq(Nat) /\ most \in Nat
      BY <1>1, LimiterAssumption DEF IndInv, TypeOK
    <2>2. /\ IsFiniteSet(A) /\ Cardinality(A) \in Nat
          /\ IsFiniteSet(B) /\ Cardinality(B) \in Nat
      BY <2>1, WithinFinite
    <2>3. Cardinality(A) <= most /\ Cardinality(B) <= most
      BY <1>1 DEF WindowsCapped, Capped, Highest
    <2>4. span \subseteq A \cup B
      <3> SUFFICES ASSUME NEW i \in span PROVE i \in A \cup B
        OBVIOUS
      <3>1. log[k][i] \in Nat /\ i \in DOMAIN log[k]
        BY <2>1, LenProperties, ElementOfSeq
      <3>2. WindowOf(log[k][i]) \in {WindowOf(t), WindowOf(t) + Window}
        BY <2>1, <3>1, WindowsOfSpan
      <3> QED BY <3>1, <3>2 DEF Within
    <2> HIDE DEF span, A, B
    <2>5. /\ IsFiniteSet(A \cup B)
          /\ Cardinality(A \cup B) = Cardinality(A) + Cardinality(B) - Cardinality(A \cap B)
      BY <2>2, FS_Union
    <2>6. Cardinality(A \cap B) \in Nat
      BY <2>2, FS_Subset, FS_CardinalityType
    <2>7. Cardinality(span) \in Nat /\ Cardinality(span) <= Cardinality(A \cup B)
      BY <2>4, <2>5, FS_Subset, FS_CardinalityType
    <2>8. Cardinality(span) <= 2 * most
      BY <2>1, <2>2, <2>3, <2>5, <2>6, <2>7
    <2> QED BY <2>8 DEF span
  <1>2. IndInv /\ WindowsCapped => SpanBound
    BY <1>1
  <1> QED BY <1>2, IndInvHolds, CappedHolds, PTL

-----------------------------------------------------------------------------
(* Retry-After.                                                            *)

LEMMA RetryAfterIsClose ==
  ASSUME now \in Nat
  PROVE  /\ RetryAfter \in 1 .. WindowSeconds
         /\ WindowOf(now + (RetryAfter + 1) * Scale) > WindowOf(now)
  <1> DEFINE L == WindowOf(now) + Window - now
             q == L \div Scale
             r == L % Scale
             p == Scale * q
  <1>1. /\ Scale \in Nat \ {0} /\ WindowSeconds \in Nat \ {0} /\ Window \in Nat \ {0}
        /\ WindowOf(now) \in Nat /\ Window = Scale * WindowSeconds
    BY LimiterAssumption, WindowIsNat, WindowOfNat DEF Window
  <1>2. L \in Nat /\ 1 <= L /\ L <= Window
    BY <1>1, WindowAround
  <1> HIDE DEF L
  <1>3. q \in Int /\ r \in 0 .. (Scale - 1) /\ L = p + r
    BY <1>1, <1>2, ModWindow
  <1>4. RetryAfter = IF q < 1 THEN 1 ELSE q
    BY DEF RetryAfter, L
  <1>5. p \in Int
    BY <1>1, <1>3
  <1> HIDE DEF q, r
  <1>6. ~(q > WindowSeconds)
    <2>1. SUFFICES ASSUME q > WindowSeconds PROVE FALSE
      OBVIOUS
    <2>2. p >= Window + Scale
      BY <1>1, <1>3, <2>1, MultiplesApart
    <2> HIDE DEF p
    <2> QED BY <1>1, <1>2, <1>3, <1>5, <2>2
  <1>7. RetryAfter \in 1 .. WindowSeconds
    BY <1>1, <1>3, <1>4, <1>6
  <1> DEFINE step == (RetryAfter + 1) * Scale
  <1>8. step \in Nat /\ step >= p + Scale
    <2>1. RetryAfter + 1 > q /\ RetryAfter + 1 \in Int
      BY <1>1, <1>3, <1>4, <1>7
    <2>2. Scale * (RetryAfter + 1) >= (Scale * q) + Scale
      BY <1>1, <1>3, <2>1, MultiplesApart
    <2>3. step = Scale * (RetryAfter + 1) /\ step \in Nat
      BY <1>1, <1>7
    <2> QED BY <2>2, <2>3
  <1> HIDE DEF p, step
  <1>9. now + step >= WindowOf(now) + Window /\ now + step \in Nat
    BY <1>1, <1>2, <1>3, <1>5, <1>8 DEF L
  <1>10. WindowOf(now + step) >= WindowOf(now) + Window
    BY <1>9, WindowAfter
  <1>11. WindowOf(now + step) \in Nat
    BY <1>9, WindowOfNat
  <1>12. WindowOf(now + step) > WindowOf(now)
    BY <1>1, <1>10, <1>11
  <1> QED BY <1>7, <1>12 DEF step

(* retry_after is neither too short by a second or more nor longer than a  *)
(* window.                                                                 *)
THEOREM RetryAfterIsRight == Spec => RetryAfterClose
  <1>1. IndInv /\ [Next]_vars =>
          [\A k \in Key : result'[k] # result[k] /\ ~result'[k].allowed =>
             /\ result'[k].retry \in 1 .. WindowSeconds
             /\ WindowOf(now + (result'[k].retry + 1) * Scale) > WindowOf(now)]_vars
    <2> SUFFICES ASSUME IndInv, Next, NEW k \in Key,
                        result'[k] # result[k], ~result'[k].allowed
                 PROVE  /\ result'[k].retry \in 1 .. WindowSeconds
                        /\ WindowOf(now + (result'[k].retry + 1) * Scale) > WindowOf(now)
      OBVIOUS
    <2>1. CheckRefuse(k)
      BY DEF Next, Check, CheckUnlimited, CheckNewWindow, CheckCounted, Admit, Answer,
             CheckRefuse, ChangeLimit, Tick, Restart, IndInv, TypeOK
    <2>2. result'[k].retry = RetryAfter
      BY <2>1 DEF CheckRefuse, Answer, IndInv, TypeOK
    <2>3. now \in Nat
      BY DEF IndInv, TypeOK
    <2> QED BY <2>2, <2>3, RetryAfterIsClose
  <1> QED BY <1>1, IndInvHolds, PTL DEF Spec, RetryAfterClose
=============================================================================
