-------------------------- MODULE AdmissionProofs --------------------------
(***************************************************************************)
(* Theorems about Admission, for every set of requests, every max_active   *)
(* and every max_queue.                                                    *)
(***************************************************************************)
EXTENDS Admission, TLAPS, FiniteSetTheorems, SequenceTheorems

-----------------------------------------------------------------------------
(* Lists.                                                                  *)

(* Removing the i-th element shifts the later ones to the left.            *)
LEMMA RemoveAtSeq ==
  ASSUME NEW S, NEW s \in Seq(S), NEW i \in DOMAIN s
  PROVE  /\ RemoveAt(s, i) \in Seq(S)
         /\ Len(RemoveAt(s, i)) = Len(s) - 1
         /\ \A j \in 1 .. Len(s) - 1 :
              RemoveAt(s, i)[j] = IF j < i THEN s[j] ELSE s[j + 1]
  <1> DEFINE a == SubSeq(s, 1, i - 1)
             b == SubSeq(s, i + 1, Len(s))
  <1>0. /\ Len(s) \in Nat /\ i \in 1 .. Len(s) /\ DOMAIN s = 1 .. Len(s)
        /\ \A j \in 1 .. Len(s) : s[j] \in S
    BY LenProperties, ElementOfSeq
  <1>1. /\ a \in Seq(S) /\ Len(a) = i - 1
        /\ \A j \in 1 .. i - 1 : a[j] = s[j]
    <2>1. \A j \in 1 .. i - 1 : s[j] \in S
      BY <1>0
    <2>2. /\ a \in Seq(S)
          /\ Len(a) = IF 1 <= i - 1 THEN (i - 1) - 1 + 1 ELSE 0
          /\ \A j \in 1 .. (i - 1) - 1 + 1 : a[j] = s[1 + j - 1]
      BY <1>0, <2>1, SubSeqProperties, Z3
    <2> QED BY <1>0, <2>2
  <1>2. /\ b \in Seq(S) /\ Len(b) = Len(s) - i
        /\ \A j \in 1 .. Len(s) - i : b[j] = s[i + j]
    <2>1. \A j \in i + 1 .. Len(s) : s[j] \in S
      BY <1>0
    <2>2. /\ b \in Seq(S)
          /\ Len(b) = IF i + 1 <= Len(s) THEN Len(s) - (i + 1) + 1 ELSE 0
          /\ \A j \in 1 .. Len(s) - (i + 1) + 1 : b[j] = s[(i + 1) + j - 1]
      <3>1. i + 1 \in Int /\ Len(s) \in Int
        BY <1>0
      <3> QED BY <2>1, <3>1, SubSeqProperties, Z3
    <2> HIDE DEF b
    <2>3. Len(b) = Len(s) - i
      BY <1>0, <2>2
    <2>4. ASSUME NEW j \in 1 .. Len(s) - i PROVE b[j] = s[i + j]
      <3>1. j \in 1 .. Len(s) - (i + 1) + 1 /\ (i + 1) + j - 1 = i + j
        BY <1>0
      <3> QED BY <2>2, <3>1
    <2> QED BY <2>2, <2>3, <2>4
  <1>3. /\ a \o b \in Seq(S)
        /\ Len(a \o b) = Len(a) + Len(b)
        /\ \A j \in 1 .. Len(a) + Len(b) :
             (a \o b)[j] = IF j <= Len(a) THEN a[j] ELSE b[j - Len(a)]
    BY <1>1, <1>2, ConcatProperties
  <1>4. RemoveAt(s, i) = a \o b
    BY DEF RemoveAt
  <1> HIDE DEF a, b
  <1>5. Len(a) + Len(b) = Len(s) - 1
    BY <1>0, <1>1, <1>2
  <1>6. ASSUME NEW j \in 1 .. Len(s) - 1
        PROVE  (a \o b)[j] = IF j < i THEN s[j] ELSE s[j + 1]
    <2>1. CASE j < i
      BY <1>0, <1>1, <1>3, <1>5, <2>1
    <2>2. CASE ~(j < i)
      <3>1. j - (i - 1) \in 1 .. Len(s) - i /\ i + (j - (i - 1)) = j + 1
        BY <1>0, <2>2
      <3>2. (a \o b)[j] = b[j - (i - 1)]
        BY <1>0, <1>1, <1>3, <1>5, <2>2
      <3>3. b[j - (i - 1)] = s[i + (j - (i - 1))]
        BY <1>2, <3>1
      <3> QED BY <2>2, <3>1, <3>2, <3>3
    <2> QED BY <2>1, <2>2
  <1> QED BY <1>3, <1>4, <1>5, <1>6

(* list.remove takes r, and only r, out of a list without repetitions.     *)
LEMMA WithoutSeq ==
  ASSUME NEW S, NEW s \in Seq(S), Distinct(s), NEW r, NEW t, Without(s, r, t)
  PROVE  /\ t \in Seq(S) /\ Distinct(t) /\ Len(t) <= Len(s)
         /\ ToSet(t) = ToSet(s) \ {r}
  <1>0. Len(s) \in Nat /\ DOMAIN s = 1 .. Len(s)
    BY LenProperties
  <1>1. CASE r \notin ToSet(s) /\ t = s
    BY <1>0, <1>1
  <1>2. CASE \E i \in DOMAIN s : s[i] = r /\ t = RemoveAt(s, i)
    <2>1. PICK i \in DOMAIN s : s[i] = r /\ t = RemoveAt(s, i)
      BY <1>2
    <2>2. /\ t \in Seq(S) /\ Len(t) = Len(s) - 1
          /\ \A j \in 1 .. Len(s) - 1 : t[j] = IF j < i THEN s[j] ELSE s[j + 1]
      BY <2>1, RemoveAtSeq
    <2>3. DOMAIN t = 1 .. Len(s) - 1
      BY <2>2, LenProperties
    <2>4. Distinct(t)
      <3> SUFFICES ASSUME NEW j \in 1 .. Len(s) - 1, NEW k \in 1 .. Len(s) - 1,
                          t[j] = t[k]
                   PROVE  j = k
        BY <2>3 DEF Distinct
      <3>1. /\ j \in DOMAIN s /\ j + 1 \in DOMAIN s
            /\ k \in DOMAIN s /\ k + 1 \in DOMAIN s
        BY <1>0
      <3>2. /\ t[j] = IF j < i THEN s[j] ELSE s[j + 1]
            /\ t[k] = IF k < i THEN s[k] ELSE s[k + 1]
        BY <2>2
      <3>3. \A m, n \in DOMAIN s : s[m] = s[n] => m = n
        BY DEF Distinct
      <3> DEFINE jj == IF j < i THEN j ELSE j + 1
                 kk == IF k < i THEN k ELSE k + 1
      <3>4. jj \in DOMAIN s /\ kk \in DOMAIN s /\ s[jj] = s[kk]
        BY <3>1, <3>2
      <3>5. jj = kk
        BY <3>3, <3>4
      <3> QED BY <1>0, <3>5
    <2>5. ASSUME NEW x \in ToSet(t) PROVE x \in ToSet(s) \ {r}
      BY <1>0, <2>1, <2>2, <2>3, <2>5 DEF ToSet, Distinct
    <2>6. ASSUME NEW x \in ToSet(s) \ {r} PROVE x \in ToSet(t)
      <3>1. PICK j \in 1 .. Len(s) : s[j] = x
        BY <1>0 DEF ToSet
      <3>2. j # i
        BY <2>1, <3>1
      <3>3. CASE j < i
        BY <1>0, <2>2, <2>3, <3>1, <3>3 DEF ToSet
      <3>4. CASE j > i
        <4>1. j - 1 \in DOMAIN t /\ t[j - 1] = x
          BY <1>0, <2>2, <2>3, <3>1, <3>4
        <4> QED BY <4>1 DEF ToSet
      <3> QED BY <1>0, <3>2, <3>3, <3>4
    <2> QED BY <1>0, <2>2, <2>4, <2>5, <2>6
  <1> QED BY <1>1, <1>2 DEF Without

(* list.append adds a new element at the end.                              *)
LEMMA AppendSeq ==
  ASSUME NEW S, NEW s \in Seq(S), Distinct(s), NEW r \in S, r \notin ToSet(s)
  PROVE  /\ Append(s, r) \in Seq(S) /\ Distinct(Append(s, r))
         /\ Len(Append(s, r)) = Len(s) + 1
         /\ ToSet(Append(s, r)) = ToSet(s) \cup {r}
  <1> DEFINE t == Append(s, r)
  <1>0. Len(s) \in Nat /\ DOMAIN s = 1 .. Len(s)
    BY LenProperties
  <1>1. /\ t \in Seq(S) /\ Len(t) = Len(s) + 1
        /\ \A i \in 1 .. Len(s) : t[i] = s[i]
        /\ t[Len(s) + 1] = r
    BY AppendProperties
  <1>2. DOMAIN t = 1 .. Len(s) + 1
    BY <1>1, LenProperties
  <1> HIDE DEF t
  <1>3. Distinct(t)
    BY <1>0, <1>1, <1>2 DEF Distinct, ToSet
  <1>4. ToSet(t) \subseteq ToSet(s) \cup {r}
    BY <1>0, <1>1, <1>2 DEF ToSet
  <1>5. ToSet(s) \subseteq ToSet(t)
    BY <1>0, <1>1, <1>2 DEF ToSet
  <1>6. r \in ToSet(t)
    BY <1>0, <1>1, <1>2 DEF ToSet
  <1> QED BY <1>1, <1>3, <1>4, <1>5, <1>6 DEF t

(* list.pop(0) takes the first element, and only it.                       *)
LEMMA PopSeq ==
  ASSUME NEW S, NEW s \in Seq(S), Distinct(s), s # <<>>
  PROVE  /\ Head(s) \in S /\ Head(s) \in ToSet(s)
         /\ Tail(s) \in Seq(S) /\ Distinct(Tail(s))
         /\ Len(Tail(s)) = Len(s) - 1
         /\ ToSet(Tail(s)) = ToSet(s) \ {Head(s)}
  <1> DEFINE t == Tail(s)
  <1>0. Len(s) \in Nat \ {0} /\ DOMAIN s = 1 .. Len(s)
    BY LenProperties, EmptySeq
  <1>1. /\ t \in Seq(S) /\ Len(t) = Len(s) - 1
        /\ \A i \in 1 .. Len(t) : t[i] = s[i + 1]
    BY HeadTailProperties
  <1>2. Head(s) = s[1] /\ Head(s) \in S
    BY HeadTailProperties
  <1>3. DOMAIN t = 1 .. Len(s) - 1
    BY <1>1, LenProperties
  <1> HIDE DEF t
  <1>4. Distinct(t)
    <2> SUFFICES ASSUME NEW j \in DOMAIN t, NEW k \in DOMAIN t, t[j] = t[k]
                 PROVE  j = k
      BY DEF Distinct
    <2>1. /\ j + 1 \in DOMAIN s /\ k + 1 \in DOMAIN s
          /\ s[j + 1] = s[k + 1] /\ j \in Int /\ k \in Int
      BY <1>0, <1>1, <1>3
    <2>2. j + 1 = k + 1
      BY <2>1 DEF Distinct
    <2> QED BY <2>1, <2>2
  <1>5. ToSet(t) \subseteq ToSet(s) \ {Head(s)}
    BY <1>0, <1>1, <1>2, <1>3 DEF ToSet, Distinct
  <1>6. ASSUME NEW x \in ToSet(s) \ {Head(s)} PROVE x \in ToSet(t)
    <2>1. PICK j \in 1 .. Len(s) : s[j] = x
      BY <1>0 DEF ToSet
    <2>2. j - 1 \in DOMAIN t /\ t[j - 1] = x
      BY <1>0, <1>1, <1>2, <1>3, <2>1
    <2> QED BY <2>2 DEF ToSet
  <1>7. Head(s) \in ToSet(s)
    BY <1>0, <1>2 DEF ToSet
  <1> QED BY <1>1, <1>2, <1>4, <1>5, <1>6, <1>7 DEF t

-----------------------------------------------------------------------------
(* The inductive invariant.  SlotConservation needs only the finiteness of *)
(* the two sets it counts; the order of the queue and of the semaphore's   *)
(* waiters is needed to know that a release grants, and a wake-up hands a  *)
(* slot to, a request that stands where the list says it stands.           *)

Counted == IsFiniteSet(Holders) /\ IsFiniteSet(woken)

WaitersWellFormed ==
  /\ Distinct(waiters)
  /\ \A r \in Req : r \in ToSet(waiters) <=> pc[r] = "semwait"
  /\ woken \subseteq ToSet(waiters)

GrantedHistory ==
  \A r \in Req : /\ pc[r] = "new" => ~granted[r]
                 /\ pc[r] = "semwait" => granted[r]

Slots == Counted /\ SlotConservation /\ ActiveCountExact
Lists == QueueWellFormed /\ WaitersWellFormed /\ GrantedHistory
IndInv == TypeOK /\ Slots /\ Lists /\ NoStrandedWaiter /\ StallOnlyByLostGrant

-----------------------------------------------------------------------------
(* The sets that are counted.                                              *)

(* One request enters the body.                                            *)
LEMMA HoldersGain ==
  ASSUME TypeOK, Counted, NEW r \in Req, pc[r] # "active",
         pc' = [pc EXCEPT ![r] = "active"]
  PROVE  IsFiniteSet(Holders') /\ Cardinality(Holders') = Cardinality(Holders) + 1
  <1>1. Holders' = Holders \cup {r} /\ r \notin Holders
    BY DEF Holders, TypeOK
  <1> QED BY <1>1, FS_AddElement DEF Counted

(* One request leaves the body.                                            *)
LEMMA HoldersLose ==
  ASSUME TypeOK, Counted, NEW r \in Req, pc[r] = "active",
         NEW p, p # "active", pc' = [pc EXCEPT ![r] = p]
  PROVE  IsFiniteSet(Holders') /\ Cardinality(Holders') = Cardinality(Holders) - 1
  <1>1. Holders' = Holders \ {r} /\ r \in Holders
    BY DEF Holders, TypeOK
  <1> QED BY <1>1, FS_RemoveElement DEF Counted

(* Any other move of a request leaves the body as it is.                   *)
LEMMA HoldersKeep ==
  ASSUME TypeOK, NEW r \in Req, pc[r] # "active",
         NEW p, p # "active", pc' = [pc EXCEPT ![r] = p]
  PROVE  Holders' = Holders
  BY DEF Holders, TypeOK

(* Waking hands out exactly the units by which the counter falls.          *)
LEMMA WakeUpCount ==
  ASSUME NEW n \in Nat, NEW v \in Nat, n <= v, NEW ws, NEW wk, IsFiniteSet(wk),
         WakeUp(n, v, ws, wk)
  PROVE  /\ value' \in Nat
         /\ IsFiniteSet(woken')
         /\ value' + Cardinality(woken') = v + Cardinality(wk)
         /\ wk \subseteq woken' /\ woken' \subseteq wk \cup ToSet(ws)
         /\ Pending(ws, woken') # {} => value' = v - n
         /\ n > 0 /\ Pending(ws, wk) # {} => woken' # {}
  <1>1. PICK W \in SUBSET Pending(ws, wk) :
          /\ IsFiniteSet(W) /\ Cardinality(W) <= n
          /\ Cardinality(W) < n => W = Pending(ws, wk)
          /\ woken' = wk \cup W /\ value' = v - Cardinality(W)
    BY DEF WakeUp
  <1>2. W \cap wk = {} /\ W \subseteq ToSet(ws)
    BY DEF Pending
  <1>3. Cardinality(W) \in Nat /\ Cardinality(wk) \in Nat
    BY <1>1, FS_CardinalityType
  <1>4. /\ IsFiniteSet(woken')
        /\ Cardinality(woken') = Cardinality(wk) + Cardinality(W)
    <2>1. /\ IsFiniteSet(wk \cup W)
          /\ Cardinality(wk \cup W) =
               Cardinality(wk) + Cardinality(W) - Cardinality(wk \cap W)
      BY <1>1, FS_Union
    <2>2. Cardinality(wk \cap W) = 0
      BY <1>2, FS_EmptySet
    <2> QED BY <1>1, <1>3, <2>1, <2>2
  <1>5. ASSUME Pending(ws, woken') # {} PROVE Cardinality(W) = n
    <2>1. W # Pending(ws, wk)
      BY <1>1, <1>5 DEF Pending
    <2> QED BY <1>1, <1>3, <2>1
  <1>6. ASSUME n > 0, Pending(ws, wk) # {} PROVE woken' # {}
    <2>1. W # {}
      BY <1>1, <1>3, <1>6, FS_EmptySet
    <2> QED BY <1>1, <2>1
  <1> QED BY <1>1, <1>2, <1>3, <1>4, <1>5, <1>6

-----------------------------------------------------------------------------
(* One lemma per action: it keeps the inductive invariant.                 *)

LEMMA InitIndInv == Init => IndInv
  <1> SUFFICES ASSUME Init PROVE IndInv
    OBVIOUS
  <1>1. Holders = {} /\ woken = {} /\ ToSet(queue) = {} /\ ToSet(waiters) = {}
    BY DEF Init, Holders, ToSet
  <1>2. Cardinality(Holders) = 0 /\ Cardinality(woken) = 0 /\ Counted
    BY <1>1, FS_EmptySet DEF Counted
  <1>3. TypeOK
    BY AdmissionAssumption DEF Init, TypeOK
  <1>4. Slots
    BY <1>2, AdmissionAssumption DEF Init, Slots, SlotConservation, ActiveCountExact
  <1>5. Lists
    BY <1>1, AdmissionAssumption
    DEF Init, Lists, QueueWellFormed, WaitersWellFormed, GrantedHistory, Distinct
  <1>6. NoStrandedWaiter /\ StallOnlyByLostGrant
    BY <1>1 DEF Init, NoStrandedWaiter, StallOnlyByLostGrant, Pending
  <1> QED BY <1>3, <1>4, <1>5, <1>6 DEF IndInv

LEMMA AcquireFastInv ==
  ASSUME IndInv, NEW r \in Req, AcquireFast(r)
  PROVE  IndInv'
  <1> USE DEF IndInv
  <1>1. value \in Nat \ {0} /\ queue = <<>> /\ waiters = <<>>
    BY DEF AcquireFast, Locked, TypeOK
  <1>2. TypeOK'
    BY <1>1 DEF TypeOK, AcquireFast, Suspended
  <1>3. IsFiniteSet(Holders') /\ Cardinality(Holders') = Cardinality(Holders) + 1
    BY HoldersGain DEF AcquireFast, Slots
  <1>4. Slots'
    <2>1. /\ Cardinality(Holders) \in Nat /\ Cardinality(woken) \in Nat
          /\ woken' = woken /\ value' = value - 1 /\ active' = active + 1
      BY FS_CardinalityType DEF Slots, Counted, AcquireFast
    <2> QED BY <1>1, <1>3, <2>1, AdmissionAssumption
            DEF Slots, Counted, SlotConservation, ActiveCountExact, TypeOK
  <1>5. Lists'
    <2>1. \A q \in Req : q # r => pc'[q] = pc[q]
      BY DEF AcquireFast, TypeOK
    <2>2. ToSet(queue) = {} /\ ToSet(waiters) = {} /\ pc'[r] = "active"
      BY <1>1 DEF ToSet, AcquireFast, TypeOK
    <2> QED BY <1>1, <2>1, <2>2
            DEF Lists, QueueWellFormed, WaitersWellFormed, GrantedHistory, AcquireFast
  <1>6. NoStrandedWaiter' /\ StallOnlyByLostGrant'
    <2>1. ToSet(waiters') = {}
      BY <1>1 DEF ToSet, AcquireFast
    <2> QED BY <1>1, <2>1
            DEF NoStrandedWaiter, StallOnlyByLostGrant, Pending, AcquireFast
  <1> QED BY <1>2, <1>4, <1>5, <1>6

LEMMA AcquireRejectInv ==
  ASSUME IndInv, NEW r \in Req, AcquireReject(r)
  PROVE  IndInv'
  <1> USE DEF IndInv
  <1>1. TypeOK'
    BY DEF TypeOK, AcquireReject, Ended
  <1>2. Slots'
    <2>1. Holders' = Holders
      BY HoldersKeep DEF AcquireReject
    <2> QED BY <2>1 DEF Slots, Counted, SlotConservation, ActiveCountExact, AcquireReject
  <1>3. \A q \in Req : q # r => pc'[q] = pc[q]
    BY DEF AcquireReject, TypeOK
  <1>4. pc[r] = "new" /\ pc'[r] = "rejected"
    BY DEF AcquireReject, TypeOK
  <1>5. Lists'
    BY <1>3, <1>4
    DEF Lists, QueueWellFormed, WaitersWellFormed, GrantedHistory, AcquireReject
  <1>6. NoStrandedWaiter'
    BY DEF NoStrandedWaiter, AcquireReject
  <1>7. StallOnlyByLostGrant'
    BY <1>3, <1>4 DEF StallOnlyByLostGrant, InHand, LostGrant, AcquireReject
  <1> QED BY <1>1, <1>2, <1>5, <1>6, <1>7

(* An entry is appended to an empty queue only when every slot is taken or *)
(* somebody waits in the semaphore: there is somebody in hand.             *)
LEMMA EnqueueInv ==
  ASSUME IndInv, NEW r \in Req, Enqueue(r)
  PROVE  IndInv'
  <1> USE DEF IndInv
  <1>0. /\ \A q \in Req : q # r => pc'[q] = pc[q]
        /\ pc[r] = "new" /\ pc'[r] = "queued"
        /\ ~granted[r] /\ r \notin ToSet(queue)
    BY DEF Enqueue, TypeOK, Lists, GrantedHistory, QueueWellFormed
  <1>1. /\ queue' \in Seq(Req) /\ Distinct(queue')
        /\ Len(queue') = Len(queue) + 1
        /\ ToSet(queue') = ToSet(queue) \cup {r}
    BY <1>0, AppendSeq DEF Enqueue, TypeOK, Lists, QueueWellFormed
  <1>2. TypeOK'
    BY <1>1 DEF TypeOK, Enqueue, Suspended
  <1>3. Slots'
    <2>1. Holders' = Holders
      BY HoldersKeep DEF Enqueue
    <2> QED BY <2>1 DEF Slots, Counted, SlotConservation, ActiveCountExact, Enqueue
  <1>4. QueueWellFormed'
    <2>1. Len(queue') <= MaxQueue
      BY <1>1, AdmissionAssumption, LenProperties DEF Enqueue, TypeOK
    <2>2. ASSUME NEW q \in ToSet(queue')
          PROVE  pc'[q] \in {"queued", "cancelled"} /\ ~granted'[q]
      <3>1. q \in Req
        BY <1>1, ElementOfSeq, LenProperties DEF ToSet
      <3> QED BY <1>0, <1>1, <3>1 DEF Lists, QueueWellFormed, Enqueue
    <2> QED BY <1>1, <2>1, <2>2 DEF QueueWellFormed
  <1>5. (WaitersWellFormed /\ GrantedHistory)'
    BY <1>0 DEF Lists, WaitersWellFormed, GrantedHistory, Enqueue
  <1>6. NoStrandedWaiter'
    BY DEF NoStrandedWaiter, Enqueue
  <1>7. StallOnlyByLostGrant'
    <2>1. CASE queue # <<>>
      BY <1>0, <2>1 DEF StallOnlyByLostGrant, InHand, LostGrant, Enqueue
    <2>2. CASE queue = <<>>
      <3>1. Locked
        BY <2>2 DEF Enqueue
      <3>2. CASE waiters # <<>>
        <4>1. Len(waiters) \in Nat \ {0} /\ DOMAIN waiters = 1 .. Len(waiters)
          BY <3>2, EmptySeq, LenProperties DEF TypeOK
        <4>2. waiters[1] \in Req /\ waiters[1] \in ToSet(waiters)
          BY <4>1, ElementOfSeq DEF TypeOK, ToSet
        <4>3. pc'[waiters[1]] = "semwait"
          BY <1>0, <4>2 DEF Lists, WaitersWellFormed
        <4> QED BY <4>2, <4>3 DEF StallOnlyByLostGrant, InHand
      <3>3. CASE value = 0
        <4>1. Holders # {} \/ woken # {}
          BY <3>3, AdmissionAssumption, FS_EmptySet
          DEF Slots, Counted, SlotConservation
        <4>2. CASE Holders # {}
          BY <1>0, <4>2 DEF Holders, StallOnlyByLostGrant, InHand
        <4>3. CASE woken # {}
          BY <1>0, <4>3 DEF Lists, WaitersWellFormed, StallOnlyByLostGrant, InHand, TypeOK
        <4> QED BY <4>1, <4>2, <4>3
      <3> QED BY <3>1, <3>2, <3>3 DEF Locked
    <2> QED BY <2>1, <2>2
  <1> QED BY <1>2, <1>3, <1>4, <1>5, <1>6, <1>7 DEF Lists

(* The woken task either finds the slot it was granted or goes to the end  *)
(* of the semaphore's waiters.                                             *)
LEMMA TakeGrantedSlotInv ==
  ASSUME IndInv, NEW r \in Req, TakeGrantedSlot(r)
  PROVE  IndInv'
  <1> USE DEF IndInv
  <1>0. /\ pc[r] = "queued" /\ granted[r]
        /\ UNCHANGED <<queue, granted, woken>>
        /\ r \notin ToSet(queue) /\ r \notin ToSet(waiters)
    BY DEF TakeGrantedSlot, Lists, QueueWellFormed, WaitersWellFormed
  <1>1. CASE /\ ~Locked
             /\ value' = value - 1
             /\ active' = active + 1
             /\ pc' = [pc EXCEPT ![r] = "active"]
             /\ UNCHANGED waiters
    <2>0. /\ \A q \in Req : q # r => pc'[q] = pc[q]
          /\ pc'[r] = "active" /\ value \in Nat \ {0} /\ waiters = <<>>
      BY <1>1 DEF Locked, TypeOK
    <2>1. TypeOK'
      BY <1>0, <1>1, <2>0 DEF TypeOK, Suspended
    <2>2. IsFiniteSet(Holders') /\ Cardinality(Holders') = Cardinality(Holders) + 1
      BY <1>0, <1>1, HoldersGain DEF Slots
    <2>3. Slots'
      <3>1. /\ Cardinality(Holders) \in Nat /\ Cardinality(woken) \in Nat
        BY FS_CardinalityType DEF Slots, Counted
      <3> QED BY <1>0, <1>1, <2>0, <2>2, <3>1, AdmissionAssumption
              DEF Slots, Counted, SlotConservation, ActiveCountExact, TypeOK
    <2>4. Lists'
      <3>1. ToSet(waiters) = {} /\ ToSet(queue) \subseteq Req
        BY <2>0, ElementOfSeq, LenProperties DEF ToSet, TypeOK
      <3> QED BY <1>0, <1>1, <2>0, <3>1
              DEF Lists, QueueWellFormed, WaitersWellFormed, GrantedHistory
    <2>5. NoStrandedWaiter'
      BY <1>0, <1>1, <2>0 DEF NoStrandedWaiter, Pending, ToSet
    <2>6. StallOnlyByLostGrant'
      BY <2>0 DEF StallOnlyByLostGrant, InHand
    <2> QED BY <2>1, <2>3, <2>4, <2>5, <2>6
  <1>2. CASE /\ Locked
             /\ waiters' = Append(waiters, r)
             /\ pc' = [pc EXCEPT ![r] = "semwait"]
             /\ UNCHANGED <<value, active>>
    <2>0. /\ \A q \in Req : q # r => pc'[q] = pc[q]
          /\ pc'[r] = "semwait"
      BY <1>2 DEF TypeOK
    <2>1. /\ waiters' \in Seq(Req) /\ Distinct(waiters')
          /\ ToSet(waiters') = ToSet(waiters) \cup {r}
      BY <1>0, <1>2, AppendSeq DEF TypeOK, Lists, WaitersWellFormed
    <2>2. TypeOK'
      BY <1>0, <1>2, <2>1 DEF TypeOK, Suspended
    <2>3. Slots'
      <3>1. Holders' = Holders
        BY <1>0, <1>2, HoldersKeep
      <3> QED BY <1>0, <1>2, <3>1 DEF Slots, Counted, SlotConservation, ActiveCountExact
    <2>4. Lists'
      <3>1. ToSet(queue) \subseteq Req
        BY ElementOfSeq, LenProperties DEF ToSet, TypeOK
      <3> QED BY <1>0, <1>2, <2>0, <2>1, <3>1
              DEF Lists, QueueWellFormed, WaitersWellFormed, GrantedHistory
    <2>5. NoStrandedWaiter'
      <3>1. CASE value = 0
        BY <1>2, <3>1 DEF NoStrandedWaiter
      <3>2. CASE waiters # <<>>
        <4>1. Len(waiters) \in Nat \ {0} /\ DOMAIN waiters = 1 .. Len(waiters)
          BY <3>2, EmptySeq, LenProperties DEF TypeOK
        <4>2. waiters[1] \in ToSet(waiters)
          BY <4>1 DEF ToSet
        <4> QED BY <1>0, <1>2, <4>2 DEF NoStrandedWaiter, Pending
      <3> QED BY <1>2, <3>1, <3>2 DEF Locked
    <2>6. StallOnlyByLostGrant'
      BY <2>0 DEF StallOnlyByLostGrant, InHand
    <2> QED BY <2>2, <2>3, <2>4, <2>5, <2>6
  <1> QED BY <1>1, <1>2 DEF TakeGrantedSlot

(* A request that gives up waiting leaves the queue; if it had been        *)
(* granted the slot, that grant is lost.                                   *)
LEMMA QueueTimeoutInv ==
  ASSUME IndInv, NEW r \in Req, QueueTimeout(r)
  PROVE  IndInv'
  <1> USE DEF IndInv
  <1>0. /\ \A q \in Req : q # r => pc'[q] = pc[q]
        /\ pc[r] = "queued" /\ pc'[r] = "timedout"
        /\ UNCHANGED <<granted, active, value, waiters, woken>>
    BY DEF QueueTimeout, TypeOK
  <1>1. /\ queue' \in Seq(Req) /\ Distinct(queue') /\ Len(queue') <= Len(queue)
        /\ ToSet(queue') = ToSet(queue) \ {r}
    BY WithoutSeq DEF QueueTimeout, TypeOK, Lists, QueueWellFormed
  <1>2. TypeOK'
    BY <1>1 DEF TypeOK, QueueTimeout, Ended
  <1>3. Slots'
    <2>1. Holders' = Holders
      BY HoldersKeep DEF QueueTimeout
    <2> QED BY <1>0, <2>1 DEF Slots, Counted, SlotConservation, ActiveCountExact
  <1>4. Lists'
    <2>1. Len(queue') <= MaxQueue
      BY <1>1, AdmissionAssumption, LenProperties
      DEF TypeOK, Lists, QueueWellFormed
    <2>2. ToSet(queue) \subseteq Req
      BY ElementOfSeq, LenProperties DEF ToSet, TypeOK
    <2> QED BY <1>0, <1>1, <2>1, <2>2
            DEF Lists, QueueWellFormed, WaitersWellFormed, GrantedHistory
  <1>5. NoStrandedWaiter'
    BY <1>0 DEF NoStrandedWaiter
  <1>6. StallOnlyByLostGrant'
    <2>1. queue' # <<>> => queue # <<>>
      BY <1>1, EmptySeq, LenProperties DEF TypeOK
    <2> QED BY <1>0, <2>1 DEF StallOnlyByLostGrant, InHand, LostGrant
  <1> QED BY <1>2, <1>3, <1>4, <1>5, <1>6

(* A request that is cancelled while it waits leaves its entry behind.     *)
LEMMA CancelQueuedInv ==
  ASSUME IndInv, NEW r \in Req, CancelQueued(r)
  PROVE  IndInv'
  <1> USE DEF IndInv
  <1>0. /\ \A q \in Req : q # r => pc'[q] = pc[q]
        /\ pc[r] = "queued" /\ pc'[r] = "cancelled"
        /\ UNCHANGED <<queue, granted, active, value, waiters, woken>>
    BY DEF CancelQueued, TypeOK
  <1>1. TypeOK'
    BY DEF TypeOK, CancelQueued, Ended
  <1>2. Slots'
    <2>1. Holders' = Holders
      BY HoldersKeep DEF CancelQueued
    <2> QED BY <1>0, <2>1 DEF Slots, Counted, SlotConservation, ActiveCountExact
  <1>3. Lists'
    <2>1. ToSet(queue) \subseteq Req
      BY ElementOfSeq, LenProperties DEF ToSet, TypeOK
    <2> QED BY <1>0, <2>1
            DEF Lists, QueueWellFormed, WaitersWellFormed, GrantedHistory
  <1>4. NoStrandedWaiter' /\ StallOnlyByLostGrant'
    BY <1>0 DEF NoStrandedWaiter, StallOnlyByLostGrant, InHand, LostGrant
  <1> QED BY <1>1, <1>2, <1>3, <1>4

(* A semaphore waiter takes the slot it was handed and passes on the rest. *)
LEMMA TakeHandedSlotInv ==
  ASSUME IndInv, NEW r \in Req, TakeHandedSlot(r)
  PROVE  IndInv'
  <1> USE DEF IndInv
  <1>0. /\ \A q \in Req : q # r => pc'[q] = pc[q]
        /\ pc[r] = "semwait" /\ r \in woken /\ pc'[r] = "active"
        /\ UNCHANGED <<queue, granted>> /\ active' = active + 1
    BY DEF TakeHandedSlot, TypeOK
  <1>1. /\ waiters' \in Seq(Req) /\ Distinct(waiters')
        /\ ToSet(waiters') = ToSet(waiters) \ {r}
    BY WithoutSeq DEF TakeHandedSlot, TypeOK, Lists, WaitersWellFormed
  <1>2. /\ IsFiniteSet(woken \ {r})
        /\ Cardinality(woken \ {r}) = Cardinality(woken) - 1
        /\ Cardinality(woken) \in Nat
    BY <1>0, FS_RemoveElement, FS_CardinalityType DEF Slots, Counted
  <1>3. /\ value' \in Nat /\ IsFiniteSet(woken')
        /\ value' + Cardinality(woken') = value + Cardinality(woken \ {r})
        /\ woken' \subseteq (woken \ {r}) \cup ToSet(waiters')
        /\ Pending(waiters', woken') # {} => value' = value - value
    <2>1. value \in Nat /\ value <= value /\ WakeUp(value, value, waiters', woken \ {r})
      BY DEF TypeOK, TakeHandedSlot
    <2> QED BY <1>2, <2>1, WakeUpCount
  <1>4. IsFiniteSet(Holders') /\ Cardinality(Holders') = Cardinality(Holders) + 1
    BY HoldersGain DEF TakeHandedSlot, Slots
  <1>5. woken' \subseteq ToSet(waiters') /\ ToSet(waiters') \subseteq Req
    BY <1>1, <1>3, ElementOfSeq, LenProperties DEF Lists, WaitersWellFormed, ToSet
  <1>6. TypeOK'
    BY <1>0, <1>1, <1>3, <1>5 DEF TypeOK, TakeHandedSlot, Suspended
  <1>7. Slots'
    <2>1. Cardinality(Holders) \in Nat /\ Cardinality(woken') \in Nat
      BY <1>3, FS_CardinalityType DEF Slots, Counted
    <2>2. value \in Nat /\ value + Cardinality(Holders) + Cardinality(woken) = MaxActive
      BY DEF Slots, SlotConservation, TypeOK
    <2>3. value' + Cardinality(Holders') + Cardinality(woken') = MaxActive
      BY <1>2, <1>3, <1>4, <2>1, <2>2
    <2>4. active' = Cardinality(Holders')
      BY <1>0, <1>4, <2>1 DEF Slots, ActiveCountExact
    <2> QED BY <1>3, <1>4, <2>3, <2>4
            DEF Slots, Counted, SlotConservation, ActiveCountExact
  <1>8. Lists'
    <2>1. ToSet(queue) \subseteq Req
      BY ElementOfSeq, LenProperties DEF ToSet, TypeOK
    <2> QED BY <1>0, <1>1, <1>5, <2>1
            DEF Lists, QueueWellFormed, WaitersWellFormed, GrantedHistory
  <1>9. NoStrandedWaiter' /\ StallOnlyByLostGrant'
    BY <1>0, <1>3 DEF NoStrandedWaiter, StallOnlyByLostGrant, InHand, TypeOK
  <1> QED BY <1>6, <1>7, <1>8, <1>9

(* A semaphore waiter that is cancelled gives back what it was handed.     *)
LEMMA CancelSemWaitInv ==
  ASSUME IndInv, NEW r \in Req, CancelSemWait(r)
  PROVE  IndInv'
  <1> USE DEF IndInv
  <1> DEFINE v == IF r \in woken THEN value + 1 ELSE value
  <1>0. /\ \A q \in Req : q # r => pc'[q] = pc[q]
        /\ pc[r] = "semwait" /\ pc'[r] = "cancelled"
        /\ UNCHANGED <<queue, granted, active>>
    BY DEF CancelSemWait, TypeOK
  <1>1. /\ waiters' \in Seq(Req) /\ Distinct(waiters')
        /\ ToSet(waiters') = ToSet(waiters) \ {r}
    BY WithoutSeq DEF CancelSemWait, TypeOK, Lists, WaitersWellFormed
  <1>2. /\ IsFiniteSet(woken \ {r}) /\ v \in Nat
        /\ v + Cardinality(woken \ {r}) = value + Cardinality(woken)
    <2>1. Cardinality(woken) \in Nat /\ IsFiniteSet(woken)
      BY FS_CardinalityType DEF Slots, Counted
    <2>2. /\ IsFiniteSet(woken \ {r})
          /\ Cardinality(woken \ {r}) =
               IF r \in woken THEN Cardinality(woken) - 1 ELSE Cardinality(woken)
      BY <2>1, FS_RemoveElement
    <2> QED BY <2>1, <2>2 DEF TypeOK
  <1>3. /\ value' \in Nat /\ IsFiniteSet(woken')
        /\ value' + Cardinality(woken') = v + Cardinality(woken \ {r})
        /\ woken' \subseteq (woken \ {r}) \cup ToSet(waiters')
        /\ Pending(waiters', woken') # {} => value' = v - v
    <2>1. WakeUp(v, v, waiters', woken \ {r})
      BY DEF CancelSemWait
    <2> HIDE DEF v
    <2>2. v <= v
      BY <1>2
    <2> QED BY <1>2, <2>1, <2>2, WakeUpCount
  <1>4. woken' \subseteq ToSet(waiters') /\ ToSet(waiters') \subseteq Req
    BY <1>1, <1>3, ElementOfSeq, LenProperties DEF Lists, WaitersWellFormed, ToSet
  <1>5. TypeOK'
    BY <1>0, <1>1, <1>3, <1>4 DEF TypeOK, CancelSemWait, Ended
  <1>6. Slots'
    <2>1. Holders' = Holders
      BY <1>0, HoldersKeep DEF CancelSemWait
    <2> HIDE DEF v
    <2>2. value + Cardinality(Holders) + Cardinality(woken) = MaxActive
      BY DEF Slots, SlotConservation
    <2>3. /\ Cardinality(Holders) \in Nat /\ Cardinality(woken') \in Nat
          /\ Cardinality(woken) \in Nat /\ value \in Nat
      BY <1>3, FS_CardinalityType DEF Slots, Counted, TypeOK
    <2>4. value' + Cardinality(woken') = value + Cardinality(woken)
      BY <1>2, <1>3
    <2>5. value' + Cardinality(Holders') + Cardinality(woken') = MaxActive
      BY <1>3, <2>1, <2>2, <2>3, <2>4
    <2> QED BY <1>0, <1>3, <2>1, <2>5
            DEF Slots, Counted, SlotConservation, ActiveCountExact
  <1>7. Lists'
    <2>1. ToSet(queue) \subseteq Req
      BY ElementOfSeq, LenProperties DEF ToSet, TypeOK
    <2> QED BY <1>0, <1>1, <1>4, <2>1
            DEF Lists, QueueWellFormed, WaitersWellFormed, GrantedHistory
  <1>8. NoStrandedWaiter'
    <2> HIDE DEF v
    <2> QED BY <1>2, <1>3 DEF NoStrandedWaiter
  <1>9. StallOnlyByLostGrant'
    BY <1>0 DEF StallOnlyByLostGrant, InHand, LostGrant, Lists, GrantedHistory
  <1> QED BY <1>5, <1>6, <1>7, <1>8, <1>9

(* A release returns its unit and, if there is a queue, turns its head     *)
(* into somebody in hand or into a lost grant.                             *)
LEMMA ReleaseInv ==
  ASSUME IndInv, NEW r \in Req, Release(r)
  PROVE  IndInv'
  <1> USE DEF IndInv
  <1>0. /\ \A q \in Req : q # r => pc'[q] = pc[q]
        /\ pc[r] = "active" /\ pc'[r] = "done"
        /\ active' = active - 1 /\ waiters' = waiters
        /\ WakeUp(1, value + 1, waiters, woken)
    BY DEF Release, TypeOK
  <1>1. /\ value' \in Nat /\ IsFiniteSet(woken')
        /\ value' + Cardinality(woken') = value + 1 + Cardinality(woken)
        /\ woken' \subseteq woken \cup ToSet(waiters)
        /\ Pending(waiters, woken) # {} => woken' # {}
        /\ woken \subseteq woken'
    <2>1. 1 \in Nat /\ value + 1 \in Nat /\ 1 <= value + 1 /\ 1 > 0 /\ IsFiniteSet(woken)
      BY DEF TypeOK, Slots, Counted
    <2> QED BY <1>0, <2>1, WakeUpCount
  <1>2. IsFiniteSet(Holders') /\ Cardinality(Holders') = Cardinality(Holders) - 1
    BY HoldersLose DEF Release, Slots
  <1>3. woken' \subseteq ToSet(waiters') /\ ToSet(waiters') \subseteq Req
    <2>1. ToSet(waiters) \subseteq Req
      BY ElementOfSeq, LenProperties DEF ToSet, TypeOK
    <2>2. woken' \subseteq ToSet(waiters)
      BY <1>1 DEF Lists, WaitersWellFormed
    <2> QED BY <1>0, <2>1, <2>2
  <1>4. Slots'
    <2>1. /\ Cardinality(Holders) \in Nat /\ Cardinality(woken') \in Nat
          /\ Cardinality(woken) \in Nat
      BY <1>1, FS_CardinalityType DEF Slots, Counted
    <2>2. value \in Nat /\ value + Cardinality(Holders) + Cardinality(woken) = MaxActive
      BY DEF Slots, SlotConservation, TypeOK
    <2>3. value' + Cardinality(Holders') + Cardinality(woken') = MaxActive
      <3>1. value' \in Nat
        BY <1>1
      <3>2. value' + Cardinality(woken') = value + 1 + Cardinality(woken)
        BY <1>1
      <3>3. Cardinality(Holders') = Cardinality(Holders) - 1
        BY <1>2
      <3> QED BY <2>1, <2>2, <3>1, <3>2, <3>3
    <2>4. active' = Cardinality(Holders')
      BY <1>0, <1>2, <2>1 DEF Slots, ActiveCountExact
    <2> QED BY <1>1, <1>2, <2>3, <2>4
            DEF Slots, Counted, SlotConservation, ActiveCountExact
  <1>5. WaitersWellFormed'
    BY <1>0, <1>3 DEF Lists, WaitersWellFormed
  <1>6. NoStrandedWaiter'
    BY <1>0, <1>1 DEF NoStrandedWaiter, Pending
  <1>7. CASE queue # <<>> /\ granted' = [granted EXCEPT ![Head(queue)] = TRUE]
             /\ queue' = Tail(queue)
    <2>1. /\ Head(queue) \in Req /\ Head(queue) \in ToSet(queue)
          /\ queue' \in Seq(Req) /\ Distinct(queue') /\ Len(queue') = Len(queue) - 1
          /\ ToSet(queue') = ToSet(queue) \ {Head(queue)}
      BY <1>7, PopSeq DEF TypeOK, Lists, QueueWellFormed
    <2>2. /\ pc[Head(queue)] \in {"queued", "cancelled"} /\ Head(queue) # r
          /\ granted'[Head(queue)]
          /\ \A q \in Req : q # Head(queue) => granted'[q] = granted[q]
      BY <1>0, <1>7, <2>1 DEF Lists, QueueWellFormed, TypeOK
    <2>3. TypeOK'
      <3>1. pc' \in [Req -> {"new"} \cup Suspended \cup Ended]
        BY DEF TypeOK, Release, Ended
      <3>2. granted' \in [Req -> BOOLEAN]
        BY <1>7 DEF TypeOK
      <3>3. waiters' \in Seq(Req) /\ active' \in Int
        BY <1>0 DEF TypeOK
      <3> QED BY <1>1, <1>3, <2>1, <3>1, <3>2, <3>3 DEF TypeOK
    <2>4. ToSet(queue) \subseteq Req /\ Len(queue) \in Nat
      BY ElementOfSeq, LenProperties DEF ToSet, TypeOK
    <2>5. QueueWellFormed' /\ GrantedHistory'
      BY <1>0, <2>1, <2>2, <2>4, AdmissionAssumption
      DEF Lists, QueueWellFormed, GrantedHistory
    <2>6. StallOnlyByLostGrant'
      BY <1>0, <2>1, <2>2 DEF StallOnlyByLostGrant, InHand, LostGrant
    <2> QED BY <1>4, <1>5, <1>6, <2>3, <2>5, <2>6 DEF Lists
  <1>8. CASE queue = <<>> /\ UNCHANGED <<queue, granted>>
    <2>1. TypeOK'
      BY <1>0, <1>1, <1>3, <1>8 DEF TypeOK, Release, Ended
    <2>2. ToSet(queue) = {}
      BY <1>8 DEF ToSet
    <2>3. QueueWellFormed' /\ GrantedHistory' /\ StallOnlyByLostGrant'
      BY <1>0, <1>8, <2>2
      DEF Lists, QueueWellFormed, GrantedHistory, StallOnlyByLostGrant
    <2> QED BY <1>4, <1>5, <1>6, <2>1, <2>3 DEF Lists
  <1> QED BY <1>7, <1>8 DEF Release

(* Every step of every task keeps the inductive invariant.                 *)
LEMMA StepIndInv == IndInv /\ [Next]_vars => IndInv'
  <1> SUFFICES ASSUME IndInv, [Next]_vars PROVE IndInv'
    OBVIOUS
  <1>1. CASE UNCHANGED vars
    BY <1>1 DEF vars, IndInv, TypeOK, Slots, Counted, SlotConservation,
       ActiveCountExact, Holders, Lists, QueueWellFormed, WaitersWellFormed,
       GrantedHistory, NoStrandedWaiter, StallOnlyByLostGrant, InHand, LostGrant
  <1>2. ASSUME NEW r \in Req, Acquire(r) PROVE IndInv'
    BY <1>2, AcquireFastInv, AcquireRejectInv, EnqueueInv DEF Acquire
  <1>3. ASSUME NEW r \in Req, Cancel(r) PROVE IndInv'
    BY <1>3, CancelQueuedInv, CancelSemWaitInv DEF Cancel
  <1>4. ASSUME NEW r \in Req,
               TakeGrantedSlot(r) \/ TakeHandedSlot(r) \/ QueueTimeout(r) \/ Release(r)
        PROVE  IndInv'
    BY <1>4, TakeGrantedSlotInv, TakeHandedSlotInv, QueueTimeoutInv, ReleaseInv
  <1> QED BY <1>1, <1>2, <1>3, <1>4 DEF Next

LEMMA IndInvHolds == Spec => []IndInv
  BY InitIndInv, StepIndInv, PTL DEF Spec

-----------------------------------------------------------------------------
(* Who has arrived.                                                        *)

(* As many elements as places.                                             *)
LEMMA LenIsCount ==
  ASSUME NEW S, NEW s \in Seq(S), Distinct(s)
  PROVE  IsFiniteSet(ToSet(s)) /\ Cardinality(ToSet(s)) = Len(s)
  <1>1. Len(s) \in Nat /\ DOMAIN s = 1 .. Len(s)
    BY LenProperties
  <1>2. IsFiniteSet(1 .. Len(s)) /\ Cardinality(1 .. Len(s)) = Len(s)
    BY <1>1, FS_Interval
  <1>3. [i \in 1 .. Len(s) |-> s[i]] \in Bijection(1 .. Len(s), ToSet(s))
    BY <1>1 DEF Bijection, Injection, Surjection, IsInjective, ToSet, Distinct
  <1> QED BY <1>2, <1>3, FS_Bijection DEF ExistsBijection

(* Only so many have arrived, and whoever waits for its event and was not  *)
(* granted is in the queue.                                                *)
Arrived == {r \in Req : pc[r] # "new"}
Listed == \A r \in Req : pc[r] = "queued" /\ ~granted[r] => r \in ToSet(queue)
Known == IsFiniteSet(Arrived) /\ Listed

LEMMA InitKnown == Init => Known
  <1> SUFFICES ASSUME Init PROVE Known
    OBVIOUS
  <1>1. Arrived = {} /\ \A r \in Req : pc[r] # "queued"
    BY DEF Init, Arrived
  <1> QED BY <1>1, FS_EmptySet DEF Known, Listed

(* The task of r and nobody else's goes on, and the queue and the grants   *)
(* change for r at most.                                                   *)
LEMMA OneListed ==
  ASSUME IndInv, Known, NEW r \in Req, NEW p, pc' = [pc EXCEPT ![r] = p],
         UNCHANGED granted, p = "queued" => r \in ToSet(queue)',
         ToSet(queue) \ {r} \subseteq ToSet(queue)'
  PROVE  Known'
  <1>1. pc \in [Req -> {"new"} \cup Suspended \cup Ended]
    BY DEF IndInv, TypeOK
  <1>2. IsFiniteSet(Arrived')
    <2>1. Arrived' \subseteq Arrived \cup {r}
      BY <1>1 DEF Arrived
    <2>2. IsFiniteSet(Arrived \cup {r})
      BY FS_AddElement DEF Known
    <2> QED BY <2>1, <2>2, FS_Subset
  <1>3. ASSUME NEW q \in Req, pc'[q] = "queued", ~granted'[q] PROVE q \in ToSet(queue)'
    <2>1. CASE q = r
      BY <1>1, <1>3, <2>1
    <2>2. CASE q # r
      BY <1>1, <1>3, <2>2 DEF Known, Listed
    <2> QED BY <2>1, <2>2
  <1> QED BY <1>2, <1>3 DEF Known, Listed

LEMMA StepKnown == IndInv /\ [Next]_vars /\ Known => Known'
  <1> SUFFICES ASSUME IndInv, [Next]_vars, Known PROVE Known'
    OBVIOUS
  <1>0. queue \in Seq(Req) /\ Distinct(queue)
    BY DEF IndInv, TypeOK, Lists, QueueWellFormed
  <1>1. CASE UNCHANGED vars
    BY <1>1 DEF vars, Known, Arrived, Listed
  <1>2. ASSUME NEW r \in Req,
               \/ AcquireFast(r) \/ AcquireReject(r) \/ TakeGrantedSlot(r)
               \/ TakeHandedSlot(r) \/ Cancel(r)
        PROVE  Known'
    <2>1. /\ UNCHANGED <<queue, granted>>
          /\ \E p \in {"active", "rejected", "semwait", "cancelled"} :
               pc' = [pc EXCEPT ![r] = p]
      BY <1>2 DEF AcquireFast, AcquireReject, TakeGrantedSlot, TakeHandedSlot, Cancel,
                  CancelQueued, CancelSemWait
    <2>2. PICK p \in {"active", "rejected", "semwait", "cancelled"} :
            pc' = [pc EXCEPT ![r] = p]
      BY <2>1
    <2>3. p # "queued" /\ ToSet(queue)' = ToSet(queue)
      BY <2>1
    <2> QED BY <2>1, <2>2, <2>3, OneListed
  <1>3. ASSUME NEW r \in Req, Enqueue(r) PROVE Known'
    <2>1. /\ pc' = [pc EXCEPT ![r] = "queued"] /\ UNCHANGED granted
          /\ queue' = Append(queue, r) /\ pc[r] = "new"
      BY <1>3 DEF Enqueue
    <2>2. r \notin ToSet(queue)
      BY <2>1 DEF IndInv, Lists, QueueWellFormed
    <2>3. ToSet(queue)' = ToSet(queue) \cup {r}
      BY <1>0, <2>1, <2>2, AppendSeq
    <2> QED BY <2>1, <2>3, OneListed
  <1>4. ASSUME NEW r \in Req, QueueTimeout(r) PROVE Known'
    <2>1. /\ pc' = [pc EXCEPT ![r] = "timedout"] /\ UNCHANGED granted
          /\ Without(queue, r, queue')
      BY <1>4 DEF QueueTimeout
    <2>2. ToSet(queue)' = ToSet(queue) \ {r}
      BY <1>0, <2>1, WithoutSeq
    <2> QED BY <2>1, <2>2, OneListed
  <1>5. ASSUME NEW r \in Req, Release(r) PROVE Known'
    <2>1. /\ pc \in [Req -> {"new"} \cup Suspended \cup Ended] /\ granted \in [Req -> BOOLEAN]
          /\ pc' = [pc EXCEPT ![r] = "done"]
      BY <1>5 DEF IndInv, TypeOK, Release
    <2>2. CASE queue = <<>>
      <3>1. UNCHANGED <<queue, granted>> /\ ToSet(queue)' = ToSet(queue)
        BY <1>5, <2>2 DEF Release
      <3> QED BY <2>1, <3>1, OneListed
    <2>3. CASE queue # <<>>
      <3>1. granted' = [granted EXCEPT ![Head(queue)] = TRUE] /\ queue' = Tail(queue)
        BY <1>5, <2>3 DEF Release
      <3>2. Head(queue) \in Req /\ ToSet(Tail(queue)) = ToSet(queue) \ {Head(queue)}
        BY <1>0, <2>3, PopSeq
      <3>3. Listed'
        <4> SUFFICES ASSUME NEW q \in Req, pc'[q] = "queued", ~granted'[q]
                     PROVE  q \in ToSet(queue)'
          BY DEF Listed
        <4>1. q # Head(queue) /\ pc[q] = "queued" /\ ~granted[q]
          BY <2>1, <3>1, <3>2
        <4>2. q \in ToSet(queue)
          BY <4>1 DEF Known, Listed
        <4> QED BY <3>1, <3>2, <4>1, <4>2
      <3>4. Arrived' \subseteq Arrived \cup {r}
        BY <2>1 DEF Arrived
      <3>5. IsFiniteSet(Arrived \cup {r})
        BY FS_AddElement DEF Known
      <3> QED BY <3>3, <3>4, <3>5, FS_Subset DEF Known
    <2> QED BY <2>2, <2>3
  <1> QED BY <1>1, <1>2, <1>3, <1>4, <1>5 DEF Next, Acquire

-----------------------------------------------------------------------------
(* Theorems.                                                               *)

(* Every variable of the controller keeps its type.                        *)
THEOREM TypeCorrect == Spec => []TypeOK
  <1>1. IndInv => TypeOK
    BY DEF IndInv
  <1> QED BY <1>1, IndInvHolds, PTL

(* No timeout, cancellation, barging arrival or wake-up loses or creates   *)
(* an execution slot (acquire and _release).                               *)
THEOREM SlotsConserved == Spec => []SlotConservation
  <1>1. IndInv => SlotConservation
    BY DEF IndInv, Slots
  <1> QED BY <1>1, IndInvHolds, PTL

(* _active is the number of requests in the body of the `async with', so   *)
(* the assertion of _release never fails.                                  *)
THEOREM ActiveCountIsExact == Spec => []ActiveCountExact
  <1>1. IndInv => ActiveCountExact
    BY DEF IndInv, Slots
  <1> QED BY <1>1, IndInvHolds, PTL

(* _queue respects max_queue, holds no entry twice and no granted entry.   *)
THEOREM QueueIsWellFormed == Spec => []QueueWellFormed
  <1>1. IndInv => QueueWellFormed
    BY DEF IndInv, Lists
  <1> QED BY <1>1, IndInvHolds, PTL

(* The semaphore never sits on a free slot while a waiter is pending and   *)
(* nobody is left to pass it on.                                           *)
THEOREM WaitersAreNotStranded == Spec => []NoStrandedWaiter
  <1>1. IndInv => NoStrandedWaiter
    BY DEF IndInv
  <1> QED BY <1>1, IndInvHolds, PTL

(* The queue can stand still only because a grant was spent on a request   *)
(* that had timed out or had been cancelled.                               *)
THEOREM StallsOnlyByLostGrant == Spec => []StallOnlyByLostGrant
  <1>1. IndInv => StallOnlyByLostGrant
    BY DEF IndInv
  <1> QED BY <1>1, IndInvHolds, PTL

(* _release() grants the first entry and nobody else grants: a request is  *)
(* not granted while another stands before it.                             *)
THEOREM GrantsAreInOrder == Spec => GrantsInQueueOrder
  <1>1. IndInv /\ [Next]_vars =>
          [\A q, r \in Req : Before(queue, q, r) /\ granted'[r] => granted'[q]]_vars
    <2> SUFFICES ASSUME IndInv, Next, NEW q \in Req, NEW r \in Req,
                        Before(queue, q, r), granted'[r]
                 PROVE  FALSE
      OBVIOUS
    <2>1. PICK i, j \in DOMAIN queue : i < j /\ queue[i] = q /\ queue[j] = r
      BY DEF Before
    <2>2. /\ Distinct(queue) /\ Len(queue) \in Nat /\ DOMAIN queue = 1 .. Len(queue)
          /\ granted \in [Req -> BOOLEAN]
      BY LenProperties DEF IndInv, Lists, QueueWellFormed, TypeOK
    <2>3. ~granted[r]
      <3>1. r \in ToSet(queue)
        BY <2>1 DEF ToSet
      <3> QED BY <3>1 DEF IndInv, Lists, QueueWellFormed
    <2>4. PICK p \in Req : Release(p) /\ queue # <<>>
                           /\ granted' = [granted EXCEPT ![Head(queue)] = TRUE]
      BY <2>2, <2>3 DEF Next, Acquire, AcquireFast, AcquireReject, Enqueue, TakeGrantedSlot,
                 TakeHandedSlot, QueueTimeout, Cancel, CancelQueued, CancelSemWait, Release
    <2>5. Head(queue) = queue[1]
      BY <2>4
    <2>6. queue[j] = queue[1]
      BY <2>1, <2>2, <2>3, <2>4, <2>5
    <2>7. 1 \in DOMAIN queue /\ j # 1
      BY <2>1, <2>2
    <2> QED BY <2>1, <2>2, <2>6, <2>7 DEF Distinct
  <1> QED BY <1>1, IndInvHolds, PTL DEF Spec, GrantsInQueueOrder

-----------------------------------------------------------------------------
(* The contract.                                                           *)

(* At most MaxActive requests run, and one more may start only while there *)
(* is a unit in the counter or in the hands of a woken waiter.             *)
LEMMA RoomForOne ==
  ASSUME IndInv, value > 0 \/ woken # {}
  PROVE  Cardinality(Holders) < MaxActive
  <1>1. /\ Cardinality(Holders) \in Nat /\ Cardinality(woken) \in Nat /\ value \in Nat
        /\ value + Cardinality(Holders) + Cardinality(woken) = MaxActive
    BY FS_CardinalityType DEF IndInv, Slots, Counted, SlotConservation, TypeOK
  <1>2. woken # {} => Cardinality(woken) # 0
    BY FS_EmptySet DEF IndInv, Slots, Counted
  <1> QED BY <1>1, <1>2

(* The contract counts with the same Cardinality.                          *)
LEMMA SameCardinality == \A S : Contract!Cardinality(S) = Cardinality(S)
  BY Zenon DEF Contract!Cardinality, Cardinality, Contract!IsFiniteSet, IsFiniteSet

(* The contract's running requests are those in the body.                  *)
LEMMA RunningAreHolders == TypeOK => Contract!Running = Holders
  BY DEF Contract!Running, Holders, StatusOf, TypeOK

(* Every step of the controller is a step of its contract or a stutter.    *)
LEMMA ContractStep == IndInv /\ [Next]_vars => [Contract!Next]_([r \in Req |-> StatusOf(pc[r])])
  <1> DEFINE status == [r \in Req |-> StatusOf(pc[r])]
  <1> SUFFICES ASSUME IndInv, [Next]_vars
               PROVE  Contract!Next \/ status' = status
    BY DEF Contract!Next
  <1>1. CASE UNCHANGED vars
    BY <1>1 DEF vars
  <1>2. ASSUME NEW r \in Req, NEW p, pc' = [pc EXCEPT ![r] = p]
        PROVE  /\ status' = [status EXCEPT ![r] = StatusOf(p)]
               /\ status[r] = StatusOf(pc[r])
    BY <1>2 DEF IndInv, TypeOK
  <1>3. ASSUME NEW r \in Req, AcquireFast(r) \/ TakeGrantedSlot(r) \/ TakeHandedSlot(r)
        PROVE  Contract!Next \/ status' = status
    <2>1. CASE pc' = [pc EXCEPT ![r] = "active"] /\ (value > 0 \/ woken # {})
               /\ pc[r] \in {"new", "queued", "semwait"}
      <3>1. Contract!Cardinality(Contract!Running) < MaxActive
        BY <2>1, RoomForOne, RunningAreHolders, SameCardinality DEF IndInv
      <3>2. Contract!Admit(r)
        BY <1>2, <2>1, <3>1 DEF Contract!Admit, StatusOf
      <3> QED BY <3>2 DEF Contract!Next
    <2>2. CASE pc[r] = "queued" /\ pc' = [pc EXCEPT ![r] = "semwait"]
      BY <1>2, <2>2 DEF StatusOf
    <2> QED BY <1>3, <2>1, <2>2
            DEF AcquireFast, TakeGrantedSlot, TakeHandedSlot, Locked, IndInv, TypeOK
  <1>4. ASSUME NEW r \in Req, Enqueue(r) PROVE Contract!Next
    <2>1. Contract!Wait(r)
      BY <1>2, <1>4 DEF Enqueue, Contract!Wait, StatusOf
    <2> QED BY <2>1 DEF Contract!Next
  <1>5. ASSUME NEW r \in Req,
               AcquireReject(r) \/ QueueTimeout(r) \/ Cancel(r) \/ Release(r)
        PROVE  Contract!Next
    <2>1. PICK p \in Ended : pc' = [pc EXCEPT ![r] = p]
      BY <1>5 DEF AcquireReject, QueueTimeout, Cancel, CancelQueued, CancelSemWait,
                  Release, Ended
    <2>2. pc[r] \notin Ended
      BY <1>5 DEF AcquireReject, QueueTimeout, Cancel, CancelQueued, CancelSemWait,
                  Release, Ended
    <2>3. StatusOf(p) = "over" /\ StatusOf(pc[r]) # "over"
      BY <2>1, <2>2 DEF StatusOf, Ended, Suspended, IndInv, TypeOK
    <2>4. Contract!Leave(r)
      BY <1>2, <2>1, <2>3 DEF Contract!Leave
    <2> QED BY <2>4 DEF Contract!Next
  <1> QED BY <1>1, <1>3, <1>4, <1>5 DEF Next, Acquire

(* The controller implements the safety part of its contract: at most      *)
(* max_active requests run, and a request only moves forward.  (That it    *)
(* also keeps moving is checked by TLC.)                                   *)
THEOREM ContractKept == Spec => Contract!Spec
  <1>1. Init => Contract!Init
    BY DEF Init, Contract!Init, StatusOf
  <1> QED BY <1>1, IndInvHolds, ContractStep, PTL DEF Spec, Contract!Spec
=============================================================================
