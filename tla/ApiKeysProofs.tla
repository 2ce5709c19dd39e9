---------------------------- MODULE ApiKeysProofs ---------------------------
(***************************************************************************)
(* Theorems about ApiKeys, for every set of users, clients, keys, command  *)
(* lines and requests, and a clock of any length.                          *)
(***************************************************************************)
EXTENDS ApiKeys, TLAPS

-----------------------------------------------------------------------------
(* The inductive invariant.                                                *)

(* A client that is there has the limit it was created with.               *)
ClientInv(c) == client[c].limited <=> client[c].wanted # "none"

(* A key that is there belongs to a client that is there.                  *)
RowInv(k) ==
  row[k].issued => row[k].owner \in Client /\ client[row[k].owner].there

(* What is not done yet.  A revocation read before its turn is still one.  *)
PendingInv(a) ==
  LET j == job[a] IN
  /\ j.step = "user" => j.kind = "user" /\ j.who \in User
  /\ j.step \in {"client", "limits"} => j.kind = "client" /\ j.who \in Client
  /\ j.step = "limits" => ~client[j.who].there
  /\ j.step = "insert" =>
       j.kind \in {"create", "rotate"} /\ j.who \in Client /\ client[j.who].there
  /\ j.step = "update" => j.kind \in {"revoke", "rotate"} /\ j.key \in Key
  /\ j.step = "update" /\ j.kind = "rotate" =>
       j.new \in Key /\ row[j.new].issued /\ row[j.new].owner = j.who
  /\ j.step \in {"insert", "update"} /\ j.kind = "rotate" =>
       j.key \in Key /\ row[j.key].issued
  /\ j.readRevoked => j.key \in Key /\ row[j.key].issued /\ Revoked(row[j.key])
  /\ j.step = "update" => row[j.key].issued
  /\ j.kind = "rotate" => a = Server
  /\ j.revokeOld => j.kind = "rotate"

(* What was answered, with the keys it is about.                           *)
AnswerInv(a) ==
  LET j == job[a] IN
  j.ok =>
    /\ j.step = "idle"
    /\ j.kind = "revoke" \/ j.revokeOld =>
         j.key \in Key /\ row[j.key].issued /\ Revoked(row[j.key])
    /\ j.kind \in {"create", "rotate"} =>
         j.new \in Key /\ row[j.new].issued /\ row[j.new].owner = j.who
    /\ j.kind = "user" => j.who \in users
    /\ j.kind = "client" =>
         /\ j.who \in Client /\ client[j.who].there
         /\ client[j.who].wanted = j.wanted

(* One at a time is between a write and its commit.                        *)
OneWriter ==
  \A a, b \in Actor : job[a].step = "limits" /\ job[b].step = "limits" => a = b

(* A request with a dead key gets no further than the lookup.              *)
RequestInv(r) ==
  LET q == req[r] IN
  /\ q.step \in {"lookup", "touch", "served"} => q.key \in Key
  /\ q.step = "lookup" /\ q.dead => row[q.key].issued /\ ~Usable(row[q.key])
  /\ q.step \in {"touch", "served"} => ~q.dead /\ row[q.key].issued
  /\ q.step = "served" =>
       (q.limited <=> client[row[q.key].owner].wanted # "none")

IndInv ==
  /\ TypeOK
  /\ \A c \in Client : ClientInv(c)
  /\ \A k \in Key : RowInv(k)
  /\ \A a \in Actor : PendingInv(a) /\ AnswerInv(a)
  /\ OneWriter
  /\ \A r \in Request : RequestInv(r)

-----------------------------------------------------------------------------
(* What every step keeps.                                                  *)

(* Users, clients and keys stay, with what does not change about them, and *)
(* a revocation is for good.                                               *)
Grows ==
  /\ now' >= now
  /\ users \subseteq users'
  /\ \A c \in Client : client[c].there => client'[c] = client[c]
  /\ \A k \in Key : row[k].issued =>
       /\ row'[k].issued
       /\ row'[k].owner = row[k].owner /\ row'[k].expires = row[k].expires
       /\ Revoked(row[k]) => Revoked(row'[k])

(* A step of actor a: the others do not move, the tables only grow and     *)
(* keep their invariants, and a is where it may be.                        *)
ActorStep(a) ==
  /\ TypeOK'
  /\ Grows
  /\ now' = now /\ req' = req
  /\ \A b \in Actor : b # a => job'[b] = job[b]
  /\ \A c \in Client : ClientInv(c)'
  /\ \A k \in Key : RowInv(k)'
  /\ PendingInv(a)'
  /\ AnswerInv(a)'
  /\ job'[a].step = "limits" \/ client' # client =>
       \A b \in Actor : b # a => job[b].step # "limits"

LEMMA ServerIsActor == Server \in Actor /\ \A a \in Cli : a \in Actor
  BY DEF Actor

LEMMA JobType ==
  ASSUME TypeOK, NEW a \in Actor
  PROVE  job[a] \in Job /\ job \in [Actor -> Job]
  BY DEF TypeOK

(* A key that is not good any more never gets good again.                  *)
LEMMA DeadStaysDead ==
  ASSUME TypeOK, TypeOK', Grows, NEW k \in Key, row[k].issued, ~Usable(row[k])
  PROVE  ~Usable(row[k])'
  <1>1. row[k] \in Row /\ row'[k] \in Row /\ now \in Int /\ now' \in Int
    BY KeysAssumption DEF TypeOK, Time
  <1>2. CASE Revoked(row[k])
    BY <1>2 DEF Grows, Usable
  <1>3. CASE Expired(row[k])
    <2>1. row[k].expires \in Int
      BY <1>1, <1>3, KeysAssumption DEF Row, Time, Expired
    <2> QED BY <1>1, <1>3, <2>1 DEF Grows, Usable, Expired
  <1> QED BY <1>2, <1>3 DEF Usable

LEMMA RequestKept ==
  ASSUME IndInv, TypeOK', Grows, NEW r \in Request, req'[r] = req[r]
  PROVE  RequestInv(r)'
  <1> DEFINE q == req[r]
  <1>1. RequestInv(r) /\ \A k \in Key : RowInv(k)
    BY DEF IndInv
  <1>2. q.step = "lookup" /\ q.dead => row'[q.key].issued /\ ~Usable(row[q.key])'
    BY <1>1, DeadStaysDead DEF RequestInv, Grows, IndInv
  <1>3. q.step = "served" =>
          (q.limited <=> client'[row'[q.key].owner].wanted # "none")
    BY <1>1 DEF RequestInv, RowInv, Grows
  <1> QED BY <1>1, <1>2, <1>3 DEF RequestInv, Grows

LEMMA PendingKept ==
  ASSUME IndInv, TypeOK', Grows, NEW b \in Actor, job'[b] = job[b],
         job[b].step # "limits" \/ client' = client
  PROVE  PendingInv(b)' /\ AnswerInv(b)'
  <1>1. PendingInv(b) /\ AnswerInv(b)
    BY DEF IndInv
  <1>2. PendingInv(b)'
    BY <1>1 DEF PendingInv, Grows
  <1>3. AnswerInv(b)'
    BY <1>1 DEF AnswerInv, Grows
  <1> QED BY <1>2, <1>3

LEMMA ActorStepKeeps ==
  ASSUME IndInv, NEW a \in Actor, ActorStep(a)
  PROVE  IndInv'
  <1>1. \A r \in Request : RequestInv(r)'
    BY RequestKept DEF ActorStep
  <1>2. ASSUME NEW b \in Actor PROVE PendingInv(b)' /\ AnswerInv(b)'
    <2>1. CASE b = a
      BY <2>1 DEF ActorStep
    <2>2. CASE b # a
      BY <2>2, PendingKept DEF ActorStep
    <2> QED BY <2>1, <2>2
  <1>3. OneWriter'
    BY DEF OneWriter, ActorStep, IndInv
  <1> QED BY <1>1, <1>2, <1>3 DEF IndInv, ActorStep

-----------------------------------------------------------------------------
(* The steps of the server and of the command line.                        *)

LEMMA IdleJob == Idle \in Job
  BY DEF Idle, Job, Steps, Lists

(* Where the tables stay, only what the actor goes on to matters.          *)
LEMMA JobOnly ==
  ASSUME IndInv, NEW a \in Actor, NEW j \in Job, job' = [job EXCEPT ![a] = j],
         UNCHANGED <<now, owners, row, req>>,
         PendingInv(a)', AnswerInv(a)',
         j.step = "limits" => \A b \in Actor : b # a => job[b].step # "limits"
  PROVE  ActorStep(a)
  <1>1. /\ users' = users /\ client' = client /\ row' = row /\ now' = now /\ req' = req
        /\ job \in [Actor -> Job]
    BY DEF owners, IndInv, TypeOK
  <1>2. TypeOK'
    BY <1>1 DEF IndInv, TypeOK
  <1>3. Grows
    BY <1>1, KeysAssumption DEF Grows, IndInv, TypeOK, Time
  <1>4. \A c \in Client : ClientInv(c)'
    BY <1>1 DEF IndInv, ClientInv
  <1>5. \A k \in Key : RowInv(k)'
    BY <1>1 DEF IndInv, RowInv
  <1> QED BY <1>1, <1>2, <1>3, <1>4, <1>5 DEF ActorStep

LEMMA IdleIsFine ==
  ASSUME NEW a \in Actor, job'[a] = Idle
  PROVE  PendingInv(a)' /\ AnswerInv(a)'
  BY DEF PendingInv, AnswerInv, Idle

LEMMA GiveUpStep ==
  ASSUME IndInv, NEW a \in Actor, GiveUp(a), UNCHANGED <<now, owners, row, req>>
  PROVE  ActorStep(a)
  <1>1. job'[a] = Idle
    BY DEF GiveUp, IndInv, TypeOK
  <1> QED BY <1>1, IdleJob, IdleIsFine, JobOnly DEF GiveUp, Idle

LEMMA CreateUserStep ==
  ASSUME IndInv, NEW a \in Actor, CreateUser(a)
  PROVE  ActorStep(a)
  <1>1. PICK u \in User :
          Begin(a, IF u \in users THEN Idle
                   ELSE [[Idle EXCEPT !.kind = "user", !.who = u] EXCEPT !.step = "user"])
    BY DEF CreateUser
  <1>2. CASE u \in users
    BY <1>1, <1>2, GiveUpStep DEF Begin, GiveUp, CreateUser
  <1>3. CASE u \notin users
    <2> DEFINE j == [[Idle EXCEPT !.kind = "user", !.who = u] EXCEPT !.step = "user"]
    <2>1. /\ j \in Job /\ j.step = "user" /\ j.kind = "user" /\ j.who = u
          /\ ~j.ok /\ ~j.readRevoked /\ ~j.revokeOld
      BY DEF Idle, Job, Steps, Lists
    <2> HIDE DEF j
    <2>2. job' = [job EXCEPT ![a] = j]
      BY <1>1, <1>3 DEF Begin, j
    <2>3. job'[a] = j
      BY <2>2 DEF IndInv, TypeOK
    <2>4. PendingInv(a)' /\ AnswerInv(a)'
      BY <2>1, <2>3 DEF PendingInv, AnswerInv
    <2> QED BY <2>1, <2>2, <2>4, JobOnly DEF CreateUser
  <1> QED BY <1>2, <1>3

LEMMA CreateClientStep ==
  ASSUME IndInv, NEW a \in Actor, CreateClient(a)
  PROVE  ActorStep(a)
  <1>1. PICK c \in Client, wanted \in Lists :
          Begin(a, IF c[1] \in users
                   THEN [[Idle EXCEPT !.kind = "client", !.who = c, !.wanted = wanted]
                           EXCEPT !.step = "client"]
                   ELSE Idle)
    BY DEF CreateClient
  <1>2. CASE c[1] \notin users
    BY <1>1, <1>2, GiveUpStep DEF Begin, GiveUp, CreateClient
  <1>3. CASE c[1] \in users
    <2> DEFINE j == [[Idle EXCEPT !.kind = "client", !.who = c, !.wanted = wanted]
                       EXCEPT !.step = "client"]
    <2>1. /\ j \in Job /\ j.step = "client" /\ j.kind = "client" /\ j.who = c
          /\ ~j.ok /\ ~j.readRevoked /\ ~j.revokeOld
      BY DEF Idle, Job, Steps, Lists
    <2> HIDE DEF j
    <2>2. job' = [job EXCEPT ![a] = j]
      BY <1>1, <1>3 DEF Begin, j
    <2>3. job'[a] = j
      BY <2>2 DEF IndInv, TypeOK
    <2>4. PendingInv(a)' /\ AnswerInv(a)'
      BY <2>1, <2>3 DEF PendingInv, AnswerInv
    <2> QED BY <2>1, <2>2, <2>4, JobOnly DEF CreateClient
  <1> QED BY <1>2, <1>3

LEMMA CreateStep ==
  ASSUME IndInv, NEW a \in Actor, Create(a)
  PROVE  ActorStep(a)
  <1>1. PICK c \in Client :
          Begin(a, IF client[c].there
                   THEN [[Idle EXCEPT !.kind = "create", !.who = c] EXCEPT !.step = "insert"]
                   ELSE Idle)
    BY DEF Create
  <1>2. CASE ~client[c].there
    BY <1>1, <1>2, GiveUpStep DEF Begin, GiveUp, Create
  <1>3. CASE client[c].there
    <2> DEFINE j == [[Idle EXCEPT !.kind = "create", !.who = c] EXCEPT !.step = "insert"]
    <2>1. /\ j \in Job /\ j.step = "insert" /\ j.kind = "create" /\ j.who = c
          /\ ~j.ok /\ ~j.readRevoked /\ ~j.revokeOld
      BY DEF Idle, Job, Steps, Lists
    <2> HIDE DEF j
    <2>2. job' = [job EXCEPT ![a] = j] /\ client' = client
      BY <1>1, <1>3 DEF Begin, j, Create, owners
    <2>3. job'[a] = j
      BY <2>2 DEF IndInv, TypeOK
    <2>4. PendingInv(a)' /\ AnswerInv(a)'
      BY <1>3, <2>1, <2>2, <2>3 DEF PendingInv, AnswerInv
    <2> QED BY <2>1, <2>2, <2>4, JobOnly DEF Create
  <1> QED BY <1>2, <1>3

(* A session that reads a key, to revoke or to rotate it.                  *)
LEMMA ReadKeyStep ==
  ASSUME IndInv, NEW a \in Actor, NEW k \in Key, NEW revokeOld \in BOOLEAN,
         NEW kind, NEW step, ReadKey(a, k, kind, revokeOld, step),
         \/ kind = "revoke" /\ step = "update" /\ ~revokeOld
         \/ kind = "rotate" /\ step = "insert" /\ a = Server
  PROVE  ActorStep(a)
  <1> DEFINE j == [[Idle EXCEPT !.kind = kind, !.key = k, !.readRevoked = Revoked(row[k]),
                                !.revokeOld = revokeOld, !.who = row[k].owner]
                     EXCEPT !.step = step]
  <1>1. Begin(a, IF row[k].issued THEN j ELSE Idle)
    BY DEF ReadKey
  <1>2. CASE ~row[k].issued
    BY <1>1, <1>2, GiveUpStep DEF Begin, GiveUp, ReadKey
  <1>3. CASE row[k].issued
    <2>1. row[k].owner \in Client /\ client[row[k].owner].there
      BY <1>3 DEF IndInv, RowInv
    <2>2. /\ j \in Job /\ j.step = step /\ j.kind = kind /\ j.key = k /\ ~j.ok
          /\ j.who = row[k].owner /\ j.revokeOld = revokeOld
          /\ j.readRevoked = Revoked(row[k])
      <3>1. Revoked(row[k]) \in BOOLEAN
        BY DEF Revoked
      <3> QED BY <2>1, <3>1 DEF Idle, Job, Steps, Lists
    <2> HIDE DEF j
    <2>3. job' = [job EXCEPT ![a] = j] /\ row' = row /\ client' = client
      BY <1>1, <1>3 DEF Begin, ReadKey, owners
    <2>4. job'[a] = j
      BY <2>3 DEF IndInv, TypeOK
    <2>5. PendingInv(a)' /\ AnswerInv(a)'
      BY <1>3, <2>1, <2>2, <2>3, <2>4 DEF PendingInv, AnswerInv
    <2> QED BY <2>2, <2>3, <2>5, JobOnly DEF ReadKey
  <1> QED BY <1>2, <1>3

(* The job of an actor that has succeeded.                                 *)
Done(j) == [j EXCEPT !.step = "idle", !.readRevoked = FALSE, !.ok = TRUE]

LEMMA SucceedJob ==
  ASSUME TypeOK, NEW a \in Actor, Succeed(a)
  PROVE  job' = [job EXCEPT ![a] = Done(job[a])] /\ job'[a] = Done(job[a])
  <1>1. job \in [Actor -> Job] /\ job[a] \in Job
    BY DEF TypeOK
  <1> QED BY <1>1 DEF Succeed, Done, Job

LEMMA DoneJob ==
  ASSUME NEW j \in Job
  PROVE  /\ Done(j) \in Job
         /\ Done(j).step = "idle" /\ Done(j).ok /\ ~Done(j).readRevoked
         /\ Done(j).kind = j.kind /\ Done(j).who = j.who /\ Done(j).key = j.key
         /\ Done(j).new = j.new /\ Done(j).wanted = j.wanted
         /\ Done(j).revokeOld = j.revokeOld
  BY DEF Done, Job, Steps

(* The answer: Idle, or what was to be done.                               *)
LEMMA AnswerJob ==
  ASSUME TypeOK, NEW a \in Actor, AnswerCommitted(a)
  PROVE  \E j \in Job : /\ job' = [job EXCEPT ![a] = j] /\ job'[a] = j
                        /\ j = Idle \/ j = Done(job[a])
  <1>1. CASE Succeed(a)
    BY <1>1, SucceedJob, DoneJob, JobType
  <1>2. CASE GiveUp(a)
    BY <1>2, IdleJob DEF GiveUp, TypeOK
  <1> QED BY <1>1, <1>2 DEF AnswerCommitted

LEMMA InsertUserStep ==
  ASSUME IndInv, NEW a \in Actor, InsertUser(a)
  PROVE  ActorStep(a)
  <1>1. CASE UNCHANGED users /\ GiveUp(a)
    BY <1>1, GiveUpStep DEF InsertUser, owners
  <1>2. CASE AnswerCommitted(a) /\ users' = users \cup {job[a].who}
    <2>1. TypeOK /\ PendingInv(a) /\ job[a].step = "user"
      BY DEF IndInv, InsertUser
    <2>2. PICK j \in Job : /\ job' = [job EXCEPT ![a] = j] /\ job'[a] = j
                           /\ j = Idle \/ j = Done(job[a])
      BY <1>2, <2>1, AnswerJob
    <2>3. job[a].who \in User /\ job[a].kind = "user" /\ ~job[a].revokeOld
      BY <2>1 DEF PendingInv
    <2>4. /\ now' = now /\ client' = client /\ row' = row /\ req' = req
      BY DEF InsertUser
    <2>5. TypeOK'
      BY <1>2, <2>1, <2>2, <2>3, <2>4 DEF TypeOK
    <2>6. Grows
      BY <1>2, <2>4, <2>1, KeysAssumption DEF Grows, TypeOK, Time
    <2>7. (\A c \in Client : ClientInv(c)') /\ (\A k \in Key : RowInv(k)')
      BY <2>4 DEF IndInv, ClientInv, RowInv
    <2>8. PendingInv(a)' /\ AnswerInv(a)'
      <3>1. CASE j = Idle
        BY <2>2, <3>1, IdleIsFine
      <3>2. CASE j = Done(job[a])
        BY <1>2, <2>2, <2>3, <3>2, DoneJob, JobType, <2>1 DEF PendingInv, AnswerInv
      <3> QED BY <2>2, <3>1, <3>2
    <2>9. /\ \A b \in Actor : b # a => job'[b] = job[b]
          /\ job'[a].step # "limits"
      BY <2>1, <2>2, DoneJob DEF TypeOK, Idle
    <2> QED BY <2>4, <2>5, <2>6, <2>7, <2>8, <2>9 DEF ActorStep
  <1> QED BY <1>1, <1>2 DEF InsertUser

LEMMA InsertClientStep ==
  ASSUME IndInv, NEW a \in Actor, InsertClient(a)
  PROVE  ActorStep(a)
  <1>1. CASE GiveUp(a)
    BY <1>1, GiveUpStep DEF InsertClient
  <1>2. CASE ~client[job[a].who].there /\ job' = [job EXCEPT ![a].step = "limits"]
    <2> DEFINE j == [job[a] EXCEPT !.step = "limits"]
    <2>1. job[a] \in Job /\ job \in [Actor -> Job] /\ PendingInv(a) /\ AnswerInv(a)
          /\ job[a].step = "client"
      BY DEF IndInv, InsertClient, TypeOK
    <2>2. /\ j \in Job /\ j.step = "limits" /\ j.kind = job[a].kind /\ j.who = job[a].who
          /\ j.ok = job[a].ok /\ j.readRevoked = job[a].readRevoked /\ j.key = job[a].key
          /\ j.revokeOld = job[a].revokeOld
      BY <2>1 DEF Job, Steps
    <2>3. job' = [job EXCEPT ![a] = j] /\ job'[a] = j
      BY <1>2, <2>1
    <2> HIDE DEF j
    <2>4. client' = client /\ row' = row
      BY DEF InsertClient, owners
    <2>5. PendingInv(a)' /\ AnswerInv(a)'
      BY <1>2, <2>1, <2>2, <2>3, <2>4 DEF PendingInv, AnswerInv
    <2>6. \A b \in Actor : b # a => job[b].step # "limits"
      BY DEF InsertClient, MayWrite
    <2> QED BY <2>2, <2>3, <2>5, <2>6, JobOnly DEF InsertClient
  <1> QED BY <1>1, <1>2 DEF InsertClient

LEMMA CommitClientStep ==
  ASSUME IndInv, NEW a \in Actor, CommitClient(a)
  PROVE  ActorStep(a)
  <1> DEFINE w == job[a].wanted
             c == job[a].who
             new == [there |-> TRUE, wanted |-> w, limited |-> w = "some"]
  <1>1. CASE GiveUp(a) /\ UNCHANGED client
    BY <1>1, GiveUpStep DEF CommitClient, owners
  <1>2. CASE w # "twice" /\ AnswerCommitted(a) /\ client' = [client EXCEPT ![c] = new]
    <2>1. TypeOK /\ PendingInv(a) /\ job[a].step = "limits" /\ job[a] \in Job
          /\ client \in [Client -> ClientRow]
      BY DEF IndInv, CommitClient, TypeOK
    <2>2. PICK j \in Job : /\ job' = [job EXCEPT ![a] = j] /\ job'[a] = j
                           /\ j = Idle \/ j = Done(job[a])
      BY <1>2, <2>1, AnswerJob
    <2>3. /\ c \in Client /\ ~client[c].there /\ job[a].kind = "client"
          /\ ~job[a].revokeOld /\ w \in {"none", "some"}
      BY <1>2, <2>1 DEF PendingInv, Job, Lists
    <2>4. now' = now /\ users' = users /\ row' = row /\ req' = req
      BY DEF CommitClient
    <2>5. /\ new \in ClientRow /\ client'[c] = new
          /\ \A d \in Client : d # c => client'[d] = client[d]
      BY <1>2, <2>1, <2>3 DEF ClientRow, Lists
    <2>6. TypeOK'
      BY <1>2, <2>1, <2>2, <2>4, <2>5 DEF TypeOK
    <2>7. Grows
      BY <2>1, <2>3, <2>4, <2>5, KeysAssumption DEF Grows, TypeOK, Time
    <2>8. ASSUME NEW d \in Client PROVE ClientInv(d)'
      <3>1. CASE d = c
        <4>1. client'[d].limited = (w = "some") /\ client'[d].wanted = w
          BY <2>5, <3>1
        <4> QED BY <2>3, <4>1 DEF ClientInv
      <3>2. CASE d # c
        BY <2>5, <3>2 DEF IndInv, ClientInv
      <3> QED BY <3>1, <3>2
    <2>9. \A k \in Key : RowInv(k)'
      BY <2>4, <2>7 DEF IndInv, RowInv, Grows
    <2>10. PendingInv(a)' /\ AnswerInv(a)'
      <3>1. CASE j = Idle
        BY <2>2, <3>1, IdleIsFine
      <3>2. CASE j = Done(job[a])
        BY <2>1, <2>2, <2>3, <2>5, <3>2, DoneJob DEF PendingInv, AnswerInv
      <3> QED BY <2>2, <3>1, <3>2
    <2>11. /\ \A b \in Actor : b # a => job'[b] = job[b]
           /\ \A b \in Actor : b # a => job[b].step # "limits"
      BY <2>1, <2>2 DEF IndInv, TypeOK, OneWriter
    <2> QED BY <2>4, <2>6, <2>7, <2>8, <2>9, <2>10, <2>11 DEF ActorStep
  <1> QED BY <1>1, <1>2 DEF CommitClient

LEMMA InsertStep ==
  ASSUME IndInv, NEW a \in Actor, Insert(a)
  PROVE  ActorStep(a)
  <1> DEFINE goesOn == job[a].revokeOld
             w(e) == [NoRow EXCEPT !.issued = TRUE, !.owner = job[a].who, !.expires = e]
             next(k) == [job[a] EXCEPT !.new = k,
                                       !.step = IF goesOn THEN "update" ELSE "idle",
                                       !.readRevoked = @ /\ goesOn, !.ok = ~goesOn]
  <1>1. PICK k \in Key, e \in Time \cup {Never} :
          /\ ~row[k].issued /\ row' = [row EXCEPT ![k] = w(e)]
          /\ \/ job' = [job EXCEPT ![a] = next(k)]
             \/ GiveUp(a)
    <2>1. job \in [Actor -> Job] /\ job[a] \in Job
      BY DEF IndInv, TypeOK
    <2>2. PICK k \in Key, e \in Time \cup {Never} :
            /\ ~row[k].issued /\ row' = [row EXCEPT ![k] = w(e)]
            /\ \/ job' = [job EXCEPT ![a].new = k,
                                   ![a].step = IF goesOn THEN "update" ELSE "idle",
                                   ![a].readRevoked = @ /\ goesOn, ![a].ok = ~goesOn]
               \/ GiveUp(a)
      BY DEF Insert
    <2>3. CASE GiveUp(a)
      BY <2>2, <2>3
    <2>4. CASE job' = [job EXCEPT ![a].new = k,
                                  ![a].step = IF goesOn THEN "update" ELSE "idle",
                                  ![a].readRevoked = @ /\ goesOn, ![a].ok = ~goesOn]
      <3>1. job' = [job EXCEPT ![a] = next(k)]
        BY <2>1, <2>4
      <3> QED BY <2>2, <3>1
    <2> QED BY <2>2, <2>3, <2>4
  <1>2. /\ TypeOK /\ PendingInv(a) /\ AnswerInv(a)
        /\ job \in [Actor -> Job] /\ job[a] \in Job /\ job[a].step = "insert"
        /\ row \in [Key -> Row]
    BY DEF IndInv, Insert, TypeOK
  <1>3. /\ job[a].who \in Client /\ client[job[a].who].there
        /\ job[a].kind \in {"create", "rotate"} /\ ~job[a].ok
        /\ goesOn \in BOOLEAN /\ job[a].readRevoked \in BOOLEAN
    BY <1>2 DEF PendingInv, AnswerInv, Job
  <1>4. now' = now /\ users' = users /\ client' = client /\ req' = req
    BY DEF Insert, owners
  <1>5. w(e) \in Row /\ w(e).issued /\ w(e).owner = job[a].who
    BY <1>3 DEF Row, NoRow
  <1>6. /\ row' \in [Key -> Row] /\ row'[k] = w(e)
        /\ \A x \in Key : x # k => row'[x] = row[x]
    BY <1>1, <1>2, <1>5
  <1>7. PICK j \in Job : /\ job' = [job EXCEPT ![a] = j] /\ job'[a] = j
                         /\ j = Idle \/ j = next(k)
    <2>1. next(k) \in Job
      BY <1>2, <1>3 DEF Job, Steps
    <2> QED BY <1>1, <1>2, <2>1, IdleJob DEF GiveUp
  <1> HIDE DEF w
  <1>8. TypeOK'
    <2>1. \A x \in Key : ~row'[x].issued => row'[x] = NoRow
      BY <1>2, <1>5, <1>6 DEF TypeOK
    <2> QED BY <1>2, <1>4, <1>6, <1>7, <2>1 DEF TypeOK
  <1>9. Grows
    BY <1>1, <1>2, <1>4, <1>6, KeysAssumption DEF Grows, TypeOK, Time
  <1>10. (\A c \in Client : ClientInv(c)') /\ (\A x \in Key : RowInv(x)')
    BY <1>3, <1>4, <1>5, <1>6 DEF IndInv, ClientInv, RowInv
  <1>11. PendingInv(a)' /\ AnswerInv(a)'
    <2>1. CASE j = Idle
      BY <1>7, <2>1, IdleIsFine
    <2>2. CASE j = next(k)
      <3>1. /\ j.new = k /\ j.step = (IF goesOn THEN "update" ELSE "idle")
            /\ j.readRevoked = (job[a].readRevoked /\ goesOn) /\ j.ok = ~goesOn
            /\ j.kind = job[a].kind /\ j.who = job[a].who /\ j.key = job[a].key
            /\ j.revokeOld = goesOn
        BY <1>2, <2>2 DEF Job
      <3> HIDE DEF next
      <3>2. row'[k].issued /\ row'[k].owner = job[a].who
        BY <1>5, <1>6
      <3>3. PendingInv(a)'
        BY <1>2, <1>3, <1>7, <1>9, <3>1, <3>2 DEF PendingInv, Grows
      <3>4. AnswerInv(a)'
        BY <1>2, <1>3, <1>7, <3>1, <3>2 DEF PendingInv, AnswerInv
      <3> QED BY <3>3, <3>4
    <2> QED BY <1>7, <2>1, <2>2
  <1>12. /\ \A b \in Actor : b # a => job'[b] = job[b]
         /\ job'[a].step # "limits"
    <2>1. j.step \in {"idle", "update"}
      <3>1. CASE j = Idle
        BY <3>1 DEF Idle
      <3>2. CASE j = next(k)
        BY <1>2, <3>2 DEF Job
      <3> QED BY <1>7, <3>1, <3>2
    <2> HIDE DEF next
    <2> QED BY <1>2, <1>7, <2>1
  <1> QED BY <1>4, <1>8, <1>9, <1>10, <1>11, <1>12 DEF ActorStep

LEMMA UpdateStep ==
  ASSUME IndInv, NEW a \in Actor, Update(a)
  PROVE  ActorStep(a)
  <1> DEFINE k == job[a].key
             w == [row[k] EXCEPT !.revoked = job[a].kind]
  <1>1. /\ TypeOK /\ PendingInv(a)
        /\ job \in [Actor -> Job] /\ job[a] \in Job /\ job[a].step = "update"
        /\ row \in [Key -> Row]
    BY DEF IndInv, Update, TypeOK
  <1>2. /\ k \in Key /\ row[k] \in Row /\ row[k].issued
        /\ job[a].kind \in {"revoke", "rotate"}
    BY <1>1 DEF PendingInv
  <1>3. now' = now /\ users' = users /\ client' = client /\ req' = req
    BY DEF Update, owners
  <1>4. /\ w \in Row /\ w.issued /\ w.owner = row[k].owner
        /\ w.expires = row[k].expires /\ Revoked(w)
    BY <1>2 DEF Row, Revoked
  <1>5. /\ row' \in [Key -> Row] /\ row'[k] = w
        /\ \A x \in Key : x # k => row'[x] = row[x]
    <2>1. row' = [row EXCEPT ![k] = w]
      BY <1>1, <1>2 DEF Update
    <2> HIDE DEF w
    <2> QED BY <1>1, <1>2, <1>4, <2>1
  <1>6. PICK j \in Job : /\ job' = [job EXCEPT ![a] = j] /\ job'[a] = j
                         /\ j = Idle \/ j = Done(job[a])
    BY <1>1, AnswerJob DEF Update
  <1> HIDE DEF w
  <1>7. TypeOK'
    <2>1. \A x \in Key : ~row'[x].issued => row'[x] = NoRow
      BY <1>1, <1>4, <1>5 DEF TypeOK
    <2> QED BY <1>1, <1>3, <1>5, <1>6, <2>1 DEF TypeOK
  <1>8. Grows
    BY <1>1, <1>3, <1>4, <1>5, KeysAssumption DEF Grows, TypeOK, Time
  <1>9. (\A c \in Client : ClientInv(c)') /\ (\A x \in Key : RowInv(x)')
    BY <1>2, <1>3, <1>4, <1>5 DEF IndInv, ClientInv, RowInv
  <1>10. PendingInv(a)' /\ AnswerInv(a)'
    <2>1. CASE j = Idle
      BY <1>6, <2>1, IdleIsFine
    <2>2. CASE j = Done(job[a])
      <3>1. row'[k].issued /\ Revoked(row'[k])
        BY <1>4, <1>5
      <3>2. PendingInv(a)'
        BY <1>1, <1>6, <2>2, DoneJob DEF PendingInv
      <3>3. AnswerInv(a)'
        BY <1>1, <1>2, <1>6, <1>8, <2>2, <3>1, DoneJob DEF PendingInv, AnswerInv, Grows
      <3> QED BY <3>2, <3>3
    <2> QED BY <1>6, <2>1, <2>2
  <1>11. /\ \A b \in Actor : b # a => job'[b] = job[b]
         /\ job'[a].step # "limits"
    BY <1>1, <1>6, DoneJob DEF Idle
  <1> QED BY <1>3, <1>7, <1>8, <1>9, <1>10, <1>11 DEF ActorStep

LEMMA UpdateNothingStep ==
  ASSUME IndInv, NEW a \in Actor, UpdateNothing(a)
  PROVE  ActorStep(a)
  <1>1. /\ TypeOK /\ PendingInv(a) /\ job[a] \in Job
        /\ job[a].step = "update" /\ job[a].readRevoked
    BY DEF IndInv, UpdateNothing, TypeOK
  <1>2. job' = [job EXCEPT ![a] = Done(job[a])] /\ job'[a] = Done(job[a])
    BY <1>1, SucceedJob DEF UpdateNothing
  <1>3. users' = users /\ client' = client /\ row' = row
    BY DEF UpdateNothing, owners
  <1>4. PendingInv(a)' /\ AnswerInv(a)'
    BY <1>1, <1>2, <1>3, DoneJob DEF PendingInv, AnswerInv
  <1> QED BY <1>1, <1>2, <1>4, DoneJob, JobOnly DEF UpdateNothing

LEMMA AdminStep ==
  ASSUME IndInv, NEW a \in Actor, Admin(a)
  PROVE  ActorStep(a)
  <1>1. CASE Revoke(a)
    BY <1>1, ReadKeyStep DEF Revoke
  <1>2. CASE CommitFails(a)
    BY <1>2, GiveUpStep DEF CommitFails
  <1> QED BY <1>1, <1>2, CreateUserStep, InsertUserStep, CreateClientStep,
             InsertClientStep, CommitClientStep, CreateStep, InsertStep,
             UpdateStep, UpdateNothingStep DEF Admin

LEMMA HandlerStep ==
  ASSUME IndInv, Handler
  PROVE  ActorStep(Server)
  <1>1. CASE Rotate
    BY <1>1, ServerIsActor, ReadKeyStep DEF Rotate
  <1> QED BY <1>1, ServerIsActor, AdminStep DEF Handler

-----------------------------------------------------------------------------
(* Requests, the end of the server, and the clock.                         *)

LEMMA InitIndInv == Init => IndInv
  <1> SUFFICES ASSUME Init PROVE IndInv
    OBVIOUS
  <1>1. TypeOK
    <2>1. NoRow \in Row /\ NoClient \in ClientRow
      BY DEF NoRow, Row, NoClient, ClientRow, Lists
    <2>2. 0 \in Time
      BY KeysAssumption DEF Time
    <2> QED BY <2>1, <2>2, IdleJob DEF Init, TypeOK, Fresh
  <1>2. \A c \in Client : ClientInv(c)
    BY DEF Init, ClientInv, NoClient
  <1>3. \A k \in Key : RowInv(k)
    BY DEF Init, RowInv, NoRow
  <1>4. \A a \in Actor : PendingInv(a) /\ AnswerInv(a) /\ job[a].step # "limits"
    BY DEF Init, PendingInv, AnswerInv, Idle
  <1>5. \A r \in Request : RequestInv(r)
    BY DEF Init, RequestInv, Fresh
  <1> QED BY <1>1, <1>2, <1>3, <1>4, <1>5 DEF IndInv, OneWriter

(* The tables and the actors stay: what is left is the requests.           *)
LEMMA RequestsOnly ==
  ASSUME IndInv, UNCHANGED <<now, owners, row, job>>,
         TypeOK', \A r \in Request : RequestInv(r)'
  PROVE  IndInv' /\ Grows
  <1>1. now' = now /\ users' = users /\ client' = client /\ row' = row /\ job' = job
    BY DEF owners
  <1>2. /\ \A c \in Client : ClientInv(c)'
        /\ \A k \in Key : RowInv(k)'
        /\ \A a \in Actor : PendingInv(a)' /\ AnswerInv(a)'
        /\ OneWriter'
    BY <1>1 DEF IndInv, ClientInv, RowInv, PendingInv, AnswerInv, OneWriter
  <1>3. Grows
    BY <1>1, KeysAssumption DEF IndInv, TypeOK, Grows, Time
  <1> QED BY <1>2, <1>3 DEF IndInv

LEMMA RequestStep ==
  ASSUME IndInv, NEW r \in Request,
         (\E k \in Key : Receive(r, k)) \/ LookUp(r) \/ Touch(r)
  PROVE  IndInv' /\ Grows
  <1> DEFINE Requests ==
        [step : {"new", "lookup", "touch", "served", "refused"},
         key : Key \cup {NoKey}, dead : BOOLEAN, limited : BOOLEAN]
  <1>1. UNCHANGED <<now, owners, row, job>>
    BY DEF Receive, LookUp, Touch
  <1>2. now' = now /\ users' = users /\ client' = client /\ row' = row /\ job' = job
    BY <1>1 DEF owners
  <1>3. /\ TypeOK /\ req \in [Request -> Requests] /\ req[r] \in Requests
        /\ RequestInv(r) /\ \A k \in Key : RowInv(k)
    BY DEF IndInv, TypeOK
  <1>4. PICK q \in Requests : /\ req' = [req EXCEPT ![r] = q] /\ req'[r] = q
                              /\ RequestInv(r)'
    <2>1. CASE \E k \in Key : Receive(r, k)
      <3>1. PICK k \in Key : Receive(r, k)
        BY <2>1
      <3> DEFINE dead == row[k].issued /\ ~Usable(row[k])
                 q == [Fresh EXCEPT !.step = "lookup", !.key = k, !.dead = dead]
      <3>2. dead \in BOOLEAN
        BY <1>3 DEF TypeOK, Row, Usable
      <3> HIDE DEF dead
      <3>3. /\ q \in Requests /\ q.step = "lookup" /\ q.key = k /\ q.dead = dead
        BY <3>2 DEF Fresh
      <3>4. req' = [req EXCEPT ![r] = q]
        BY <3>1 DEF Receive, dead
      <3> HIDE DEF q
      <3>5. req'[r] = q
        BY <1>3, <3>4
      <3>6. dead => row[k].issued /\ ~Usable(row[k])'
        BY <1>2 DEF dead, Usable, Expired
      <3>7. RequestInv(r)'
        BY <1>2, <3>3, <3>5, <3>6 DEF RequestInv
      <3> QED BY <3>3, <3>4, <3>5, <3>7
    <2>2. CASE LookUp(r)
      <3> DEFINE good == Usable(row[req[r].key])
                 q == IF good THEN [req[r] EXCEPT !.step = "touch"] ELSE Unauthorized
      <3>1. req[r].key \in Key /\ (req[r].dead => ~good) /\ req[r].step = "lookup"
        BY <1>3, <2>2 DEF LookUp, RequestInv
      <3>2. good => row[req[r].key].issued
        BY DEF Usable
      <3> HIDE DEF good
      <3>3. q \in Requests
        BY <1>3 DEF Unauthorized, Fresh
      <3>4. \/ q.step = "touch" /\ q.key = req[r].key /\ good /\ q.dead = req[r].dead
            \/ q.step = "refused"
        BY <1>3 DEF Unauthorized, Fresh
      <3>5. req' = [req EXCEPT ![r] = q]
        BY <1>3, <2>2 DEF LookUp, good
      <3> HIDE DEF q
      <3>6. req'[r] = q
        BY <1>3, <3>5
      <3>7. RequestInv(r)'
        BY <1>2, <3>1, <3>2, <3>4, <3>6 DEF RequestInv
      <3> QED BY <3>3, <3>5, <3>6, <3>7
    <2>3. CASE Touch(r)
      <3> DEFINE owner == row[req[r].key].owner
                 q == [req[r] EXCEPT !.step = "served", !.limited = client[owner].limited]
      <3>1. /\ req[r].key \in Key /\ ~req[r].dead /\ row[req[r].key].issued
            /\ owner \in Client /\ client[owner] \in ClientRow
        BY <1>3, <2>3 DEF Touch, RequestInv, RowInv, TypeOK
      <3>2. client[owner].limited <=> client[owner].wanted # "none"
        BY <3>1 DEF IndInv, ClientInv
      <3>3. client[owner].limited \in BOOLEAN
        BY <3>1 DEF ClientRow
      <3> HIDE DEF owner
      <3>4. /\ q \in Requests /\ q.step = "served" /\ q.key = req[r].key
            /\ q.dead = req[r].dead /\ q.limited = client[owner].limited
        BY <1>3, <3>3
      <3>5. req' = [req EXCEPT ![r] = q]
        BY <1>3, <2>3 DEF Touch, owner
      <3> HIDE DEF q
      <3>6. req'[r] = q
        BY <1>3, <3>5
      <3>7. RequestInv(r)'
        BY <1>2, <3>1, <3>2, <3>4, <3>6 DEF RequestInv, owner
      <3> QED BY <3>4, <3>5, <3>6, <3>7
    <2> QED BY <2>1, <2>2, <2>3
  <1>5. TypeOK'
    BY <1>2, <1>3, <1>4 DEF TypeOK
  <1>6. Grows
    BY <1>2, <1>3, KeysAssumption DEF TypeOK, Grows, Time
  <1>7. ASSUME NEW o \in Request PROVE RequestInv(o)'
    <2>1. CASE o = r
      BY <1>4, <2>1
    <2>2. CASE o # r
      <3>1. req'[o] = req[o]
        BY <1>3, <1>4, <2>2
      <3> QED BY <1>5, <1>6, <3>1, RequestKept
    <2> QED BY <2>1, <2>2
  <1> QED BY <1>1, <1>5, <1>7, RequestsOnly

LEMMA CrashStep ==
  ASSUME IndInv, Crash
  PROVE  IndInv' /\ Grows
  <1>1. /\ now' = now /\ users' = users /\ client' = client /\ row' = row
        /\ job' = [job EXCEPT ![Server] = Idle] /\ req' = [r \in Request |-> Fresh]
        /\ job \in [Actor -> Job] /\ TypeOK
    BY DEF Crash, owners, IndInv, TypeOK
  <1>2. /\ job' \in [Actor -> Job] /\ job'[Server] = Idle
        /\ \A a \in Actor : a # Server => job'[a] = job[a]
    BY <1>1, IdleJob, ServerIsActor
  <1>3. TypeOK'
    BY <1>1, <1>2 DEF TypeOK, Fresh
  <1>4. Grows
    BY <1>1, KeysAssumption DEF TypeOK, Grows, Time
  <1>5. ASSUME NEW a \in Actor PROVE PendingInv(a)' /\ AnswerInv(a)'
    BY <1>1, <1>2, <1>3, <1>4, IdleIsFine, PendingKept
  <1>6. OneWriter'
    BY <1>2 DEF IndInv, OneWriter, Idle
  <1>7. /\ \A c \in Client : ClientInv(c)'
        /\ \A k \in Key : RowInv(k)'
        /\ \A r \in Request : RequestInv(r)'
    BY <1>1 DEF IndInv, ClientInv, RowInv, RequestInv, Fresh
  <1> QED BY <1>3, <1>4, <1>5, <1>6, <1>7 DEF IndInv

LEMMA TickStep ==
  ASSUME IndInv, Tick
  PROVE  IndInv' /\ Grows
  <1>1. /\ users' = users /\ client' = client /\ row' = row /\ job' = job /\ req' = req
        /\ now' = now + 1 /\ now < LastTick /\ now \in Time /\ TypeOK
    BY DEF Tick, owners, IndInv, TypeOK
  <1>2. now' \in Time /\ now' >= now
    BY <1>1, KeysAssumption DEF Time
  <1>3. TypeOK' /\ Grows
    BY <1>1, <1>2 DEF TypeOK, Grows
  <1>4. \A a \in Actor : PendingInv(a)' /\ AnswerInv(a)'
    BY <1>1, <1>3, PendingKept
  <1>5. \A r \in Request : RequestInv(r)'
    BY <1>1, <1>3, RequestKept
  <1>6. /\ \A c \in Client : ClientInv(c)'
        /\ \A k \in Key : RowInv(k)'
        /\ OneWriter'
    BY <1>1 DEF IndInv, ClientInv, RowInv, OneWriter
  <1> QED BY <1>3, <1>4, <1>5, <1>6 DEF IndInv

LEMMA QuietStep ==
  ASSUME IndInv, UNCHANGED vars
  PROVE  IndInv' /\ Grows
  <1>1. UNCHANGED <<now, owners, row, job>> /\ req' = req /\ client' = client /\ row' = row
        /\ now' = now
    BY DEF vars, owners
  <1>2. TypeOK'
    BY <1>1 DEF IndInv, TypeOK, owners
  <1>3. \A r \in Request : RequestInv(r)'
    BY <1>1 DEF IndInv, RequestInv, Usable, Expired
  <1> QED BY <1>1, <1>2, <1>3, RequestsOnly

LEMMA StepIndInv ==
  ASSUME IndInv, [Next]_vars
  PROVE  IndInv' /\ Grows
  <1>1. ASSUME NEW a \in Actor, ActorStep(a) PROVE IndInv' /\ Grows
    BY <1>1, ActorStepKeeps DEF ActorStep
  <1>2. CASE Command
    BY <1>1, <1>2, ServerIsActor, AdminStep DEF Command
  <1>3. CASE Handler
    BY <1>1, <1>3, ServerIsActor, HandlerStep
  <1>4. CASE \E r \in Request : (\E k \in Key : Receive(r, k)) \/ LookUp(r) \/ Touch(r)
    BY <1>4, RequestStep
  <1> QED BY <1>2, <1>3, <1>4, CrashStep, TickStep, QuietStep DEF Next

LEMMA IndInvHolds == Spec => []IndInv
  <1>1. IndInv /\ [Next]_vars => IndInv'
    BY StepIndInv
  <1> QED BY <1>1, InitIndInv, PTL DEF Spec

-----------------------------------------------------------------------------
(* The types.                                                              *)
THEOREM TypeCorrect == Spec => []TypeOK
  BY IndInvHolds, PTL DEF IndInv

(* No key is used by a request that comes after its revocation or expiry.  *)
THEOREM DeadKeysAreRefused == Spec => []DeadKeysServeNobody
  <1>1. IndInv => DeadKeysServeNobody
    BY DEF IndInv, RequestInv, DeadKeysServeNobody
  <1> QED BY <1>1, IndInvHolds, PTL

(* No client is seen without the limit it is created with, neither in its  *)
(* row nor by a request.                                                   *)
THEOREM LimitsAreThere == Spec => []LimitsFromTheStart
  <1>1. IndInv => LimitsFromTheStart
    BY DEF IndInv, ClientInv, RequestInv, LimitsFromTheStart
  <1> QED BY <1>1, IndInvHolds, PTL

(* What the server and the command line have answered is so and stays so.  *)
THEOREM AnswersAreKept == Spec => []AnswersHold
  <1>1. IndInv => AnswersHold
    BY DEF IndInv, AnswerInv, AnswersHold
  <1> QED BY <1>1, IndInvHolds, PTL

(* Revocation is for good, whatever sessions, requests and crashes do.     *)
THEOREM RevocationIsForGood == Spec => RevokedForGood
  <1>1. IndInv /\ [Next]_vars =>
          [\A k \in Key : Revoked(row[k]) => Revoked(row'[k])]_vars
    <2> SUFFICES ASSUME IndInv, Next, NEW k \in Key, Revoked(row[k])
                 PROVE  Revoked(row'[k])
      OBVIOUS
    <2>1. row[k].issued
      BY DEF IndInv, TypeOK, Revoked, NoRow
    <2> QED BY <2>1, StepIndInv DEF Grows
  <1> QED BY <1>1, IndInvHolds, PTL DEF Spec, RevokedForGood

(* A rotation has a new key in the table before the old one goes.          *)
THEOREM RotationsReplace == Spec => RotationReplaces
  <1> DEFINE Replaced(k) ==
        row'[k].revoked = "rotate" /\ row[k].revoked # "rotate" =>
          /\ job[Server].key = k /\ job[Server].new # NoKey
          /\ row[job[Server].new].issued
  <1>1. IndInv /\ [Next]_vars => [\A k \in Key : Replaced(k)]_vars
    <2> SUFFICES ASSUME IndInv, Next, NEW k \in Key,
                        row'[k].revoked = "rotate", row[k].revoked # "rotate"
                 PROVE  /\ job[Server].key = k /\ job[Server].new # NoKey
                        /\ row[job[Server].new].issued
      OBVIOUS
    <2>1. row \in [Key -> Row] /\ row'[k] # row[k]
      BY DEF IndInv, TypeOK
    <2>2. \E a \in Actor : Insert(a) \/ Update(a)
      BY <2>1, ServerIsActor
         DEF Next, Command, Handler, Admin, CreateUser, InsertUser, CreateClient,
             InsertClient, CommitClient, Create, Revoke, Rotate, ReadKey, UpdateNothing,
             CommitFails, Receive, LookUp, Touch, Crash, Tick
    <2>3. PICK a \in Actor : Insert(a) \/ Update(a)
      BY <2>2
    <2>4. CASE Insert(a)
      <3>1. PICK x \in Key, e \in Time \cup {Never} :
              row' = [row EXCEPT ![x] =
                [NoRow EXCEPT !.issued = TRUE, !.owner = job[a].who, !.expires = e]]
        BY <2>4 DEF Insert
      <3> QED BY <2>1, <3>1 DEF NoRow
    <2>5. CASE Update(a)
      <3>1. PendingInv(a) /\ job[a].step = "update"
        BY <2>5 DEF IndInv, Update
      <3>2. row' = [row EXCEPT ![job[a].key].revoked = job[a].kind]
        BY <2>5 DEF Update
      <3>3. job[a].key = k /\ job[a].kind = "rotate"
        BY <2>1, <3>1, <3>2 DEF PendingInv
      <3> QED BY <3>1, <3>3, KeysAssumption DEF PendingInv
    <2> QED BY <2>3, <2>4, <2>5
  <1> QED BY <1>1, IndInvHolds, PTL DEF Spec, RotationReplaces
=============================================================================
