------------------------------- MODULE ApiKeys ------------------------------
(***************************************************************************)
(* Users, their clients and the life of API keys: issued, used, rotated,   *)
(* revoked (services/admin.py through api/admin.py and cli.py) while       *)
(* requests authenticate with them (core/auth.py).                         *)
(*                                                                         *)
(* The admin handlers are coroutines that never suspend, so the server     *)
(* runs one of them at a time; requests authenticate in threads, and the   *)
(* command line is another process.  What they share is the database, one  *)
(* statement or commit at a time: a step here is one read or one commit.   *)
(* Sessions keep what they have read (expire_on_commit is off).  What is   *)
(* written and not committed is seen by nobody and keeps the others from   *)
(* writing.  A commit can fail, so can the read that follows it before the *)
(* answer, and the server can die between two steps.                       *)
(***************************************************************************)
EXTENDS Integers

CONSTANTS User,      \* the names of users
          ClientName,\* the names of clients
          Key,       \* the keys that can be issued
          NoKey,     \* no key
          Server,    \* the server, running an admin handler
          Cli,       \* runs of the command line
          Request,   \* the requests
          Never,     \* no time
          LastTick   \* bound: ticks the clock runs through

Actor == Cli \cup {Server}
Client == User \X ClientName
Time == 0 .. LastTick

ASSUME KeysAssumption ==
  /\ LastTick \in Nat /\ Never \notin Time /\ Server \notin Cli /\ NoKey \notin Key

VARIABLES
  now,   \* the clock
  users, \* the table users
  client,\* the table clients, with client_allowed_models
  row,   \* the table api_keys: each key's row
  job,   \* what each actor is doing, with what it has read
  req    \* each request: where it is, with what it has read

owners == <<users, client>>
vars == <<now, owners, row, job, req>>

(* The allowed models a client is created with: none or an empty list,     *)
(* some, or one of them twice.  There is a limit where there are rows.     *)
Lists == {"none", "some", "twice"}
ClientRow == [there : BOOLEAN, wanted : Lists, limited : BOOLEAN]
NoClient == [there |-> FALSE, wanted |-> "none", limited |-> FALSE]

(* issued: the row is there.  revoked: whether revoked_at is set, and (for *)
(* the properties) what set it.  last_used_at is left out.                 *)
Row == [issued : BOOLEAN, owner : Client \cup {NoKey}, expires : Time \cup {Never},
        revoked : {"no", "revoke", "rotate"}]

NoRow == [issued |-> FALSE, owner |-> NoKey, expires |-> Never, revoked |-> "no"]

Steps == {"idle", "user", "client", "limits", "insert", "update"}
Job == [step : Steps, kind : {"none", "user", "client", "create", "revoke", "rotate"},
        who : User \cup Client \cup {NoKey}, wanted : Lists,
        key : Key \cup {NoKey}, new : Key \cup {NoKey}, readRevoked : BOOLEAN,
        revokeOld : BOOLEAN, ok : BOOLEAN]

Idle == [step |-> "idle", kind |-> "none", who |-> NoKey, wanted |-> "none", key |-> NoKey,
         new |-> NoKey, readRevoked |-> FALSE, revokeOld |-> FALSE, ok |-> FALSE]

(* dead: the key could not be used any more when the request came.         *)
(* limited: the principal has a list of allowed models.                    *)
Fresh == [step |-> "new", key |-> NoKey, dead |-> FALSE, limited |-> FALSE]

Unauthorized == [Fresh EXCEPT !.step = "refused"]

TypeOK ==
  /\ now \in Time
  /\ users \subseteq User /\ client \in [Client -> ClientRow]
  /\ row \in [Key -> Row] /\ \A k \in Key : ~row[k].issued => row[k] = NoRow
  /\ job \in [Actor -> Job]
  /\ req \in [Request -> [step : {"new", "lookup", "touch", "served", "refused"},
                          key : Key \cup {NoKey}, dead : BOOLEAN, limited : BOOLEAN]]

Init ==
  /\ now = 0
  /\ users = {} /\ client = [c \in Client |-> NoClient]
  /\ row = [k \in Key |-> NoRow]
  /\ job = [a \in Actor |-> Idle]
  /\ req = [r \in Request |-> Fresh]

-----------------------------------------------------------------------------
Revoked(w) == w.revoked # "no"
Expired(w) == w.expires # Never /\ w.expires <= now

Usable(w) == w.issued /\ ~Revoked(w) /\ ~Expired(w)

Begin(a, j) ==
  /\ job[a].step = "idle"
  /\ job' = [job EXCEPT ![a] = j]

(* The answer to what it did, kept for the properties.                     *)
Succeed(a) ==
  job' = [job EXCEPT ![a].step = "idle", ![a].readRevoked = FALSE, ![a].ok = TRUE]

(* The answer is an error, or there is none: nothing is promised.          *)
GiveUp(a) == job' = [job EXCEPT ![a] = Idle]

(* Nobody else is between a write and its commit.                          *)
MayWrite(a) == \A b \in Actor \ {a} : job[b].step # "limits"

(* The answer after a commit, unless reading the row back fails.           *)
AnswerCommitted(a) == Succeed(a) \/ GiveUp(a)

-----------------------------------------------------------------------------
(* Users and clients.                                                      *)

(* create_user: 409, or the name is not taken as it is now.                *)
CreateUser(a) ==
  /\ \E u \in User :
       LET j == [Idle EXCEPT !.kind = "user", !.who = u]
       IN  Begin(a, IF u \in users THEN Idle ELSE [j EXCEPT !.step = "user"])
  /\ UNCHANGED <<now, owners, row, req>>

(* A name that was taken since is refused by the table.                    *)
InsertUser(a) ==
  /\ job[a].step = "user" /\ MayWrite(a)
  /\ \/ job[a].who \in users /\ GiveUp(a) /\ UNCHANGED users
     \/ /\ job[a].who \notin users /\ AnswerCommitted(a)
        /\ users' = users \cup {job[a].who}
  /\ UNCHANGED <<now, client, row, req>>

(* create_client: 404, or the user is there.                               *)
CreateClient(a) ==
  /\ \E c \in Client, wanted \in Lists :
       LET j == [Idle EXCEPT !.kind = "client", !.who = c, !.wanted = wanted]
       IN  Begin(a, IF c[1] \in users THEN [j EXCEPT !.step = "client"] ELSE Idle)
  /\ UNCHANGED <<now, owners, row, req>>

(* Wrong: the client is committed to have its id.                          *)
InsertClientCommits(a) ==
  /\ job[a].step = "client" /\ MayWrite(a) /\ ~client[job[a].who].there
  /\ client' = [client EXCEPT ![job[a].who] =
                  [there |-> TRUE, wanted |-> job[a].wanted, limited |-> FALSE]]
  /\ job' = [job EXCEPT ![a].step = "limits"]
  /\ UNCHANGED <<now, users, row, req>>

(* The client is written and not committed; its name may be taken.         *)
InsertClient(a) ==
  /\ job[a].step = "client" /\ MayWrite(a)
  /\ \/ client[job[a].who].there /\ GiveUp(a)
     \/ ~client[job[a].who].there /\ job' = [job EXCEPT ![a].step = "limits"]
  /\ UNCHANGED <<now, owners, row, req>>

(* The allowed models are written and all of it is committed, or none of   *)
(* it: the table takes no model twice.                                     *)
CommitClient(a) ==
  LET wanted == job[a].wanted
  IN  /\ job[a].step = "limits"
      /\ \/ wanted = "twice" /\ GiveUp(a) /\ UNCHANGED client
         \/ /\ wanted # "twice" /\ AnswerCommitted(a)
            /\ client' = [client EXCEPT ![job[a].who] =
                 [there |-> TRUE, wanted |-> wanted, limited |-> wanted = "some"]]
      /\ UNCHANGED <<now, users, row, req>>

-----------------------------------------------------------------------------
(* Keys.                                                                   *)

(* create_api_key: 404, or the client is there.                            *)
Create(a) ==
  /\ \E c \in Client :
       LET j == [Idle EXCEPT !.kind = "create", !.who = c]
       IN  Begin(a, IF client[c].there THEN [j EXCEPT !.step = "insert"] ELSE Idle)
  /\ UNCHANGED <<now, owners, row, req>>

(* Wrong: a key that is not there is taken for one.                        *)
ReadKeyUnchecked(a, k, kind, revokeOld, step) ==
  /\ Begin(a, [Idle EXCEPT !.kind = kind, !.key = k, !.readRevoked = Revoked(row[k]),
                           !.revokeOld = revokeOld, !.who = row[k].owner, !.step = step])
  /\ UNCHANGED <<now, owners, row, req>>

(* get_api_key: 404, or the row as it is now.                              *)
ReadKey(a, k, kind, revokeOld, step) ==
  LET j == [Idle EXCEPT !.kind = kind, !.key = k, !.readRevoked = Revoked(row[k]),
                        !.revokeOld = revokeOld, !.who = row[k].owner]
  IN  /\ Begin(a, IF row[k].issued THEN [j EXCEPT !.step = step] ELSE Idle)
      /\ UNCHANGED <<now, owners, row, req>>

Revoke(a) == \E k \in Key : ReadKey(a, k, "revoke", FALSE, "update")

(* Wrong: the old key is revoked first.                                    *)
RotateRevokesFirst == \E k \in Key, revokeOld \in BOOLEAN :
                        ReadKey(Server, k, "rotate", revokeOld, "update")

(* The command line has no rotation.                                       *)
Rotate == \E k \in Key, revokeOld \in BOOLEAN :
            ReadKey(Server, k, "rotate", revokeOld, "insert")

(* A new key: the one that replaces another has no expiry.  A rotation     *)
(* goes on to the old key, or ends here, as it does where the new row      *)
(* cannot be read back: then nobody gets to know the new key.              *)
Insert(a) ==
  LET goesOn == job[a].revokeOld
  IN  /\ job[a].step = "insert" /\ MayWrite(a)
      /\ \E k \in Key, e \in Time \cup {Never} :
           /\ ~row[k].issued /\ (job[a].kind = "rotate" \/ a # Server => e = Never)
           /\ row' = [row EXCEPT ![k] =
                [NoRow EXCEPT !.issued = TRUE, !.owner = job[a].who, !.expires = e]]
           /\ \/ job' = [job EXCEPT ![a].new = k,
                             ![a].step = IF goesOn THEN "update" ELSE "idle",
                             ![a].readRevoked = @ /\ goesOn, ![a].ok = ~goesOn]
              \/ GiveUp(a)
      /\ UNCHANGED <<now, owners, req>>

(* Wrong: the answer goes out whatever became of the commit.               *)
UpdateFailsSilently(a) ==
  /\ job[a].step = "update" /\ ~job[a].readRevoked
  /\ Succeed(a)
  /\ UNCHANGED <<now, owners, row, req>>

(* revoke_api_key, with the row its session read first: a key that was not *)
(* revoked then is revoked now, even where another has revoked it since.   *)
Update(a) ==
  /\ job[a].step = "update" /\ ~job[a].readRevoked /\ MayWrite(a)
  /\ row' = [row EXCEPT ![job[a].key].revoked = job[a].kind]
  /\ AnswerCommitted(a)
  /\ UNCHANGED <<now, owners, req>>

UpdateNothing(a) ==
  /\ job[a].step = "update" /\ job[a].readRevoked
  /\ Succeed(a)
  /\ UNCHANGED <<now, owners, row, req>>

(* The write or its commit fails: what was committed before stays.         *)
CommitFails(a) ==
  /\ job[a].step # "idle"
  /\ GiveUp(a)
  /\ UNCHANGED <<now, owners, row, req>>

-----------------------------------------------------------------------------
(* Requests.                                                               *)

Receive(r, k) ==
  /\ req[r].step = "new"
  /\ req' = [req EXCEPT ![r] = [Fresh EXCEPT !.step = "lookup", !.key = k,
               !.dead = row[k].issued /\ ~Usable(row[k])]]
  /\ UNCHANGED <<now, owners, row, job>>

(* Wrong: a key is good until the tick after it expires.                   *)
LookUpLate(r) ==
  /\ req[r].step = "lookup"
  /\ LET w == row[req[r].key]
         good == w.issued /\ ~Revoked(w) /\ (w.expires = Never \/ w.expires >= now)
     IN  req' = [req EXCEPT ![r] = IF good THEN [@ EXCEPT !.step = "touch"] ELSE Unauthorized]
  /\ UNCHANGED <<now, owners, row, job>>

LookUp(r) ==
  /\ req[r].step = "lookup"
  /\ LET good == Usable(row[req[r].key])
     IN  req' = [req EXCEPT ![r] = IF good THEN [@ EXCEPT !.step = "touch"] ELSE Unauthorized]
  /\ UNCHANGED <<now, owners, row, job>>

(* Wrong: the whole row goes back as it was read, not revoked.             *)
TouchWholeRow(r) ==
  /\ req[r].step = "touch"
  /\ row' = [row EXCEPT ![req[r].key] = [@ EXCEPT !.revoked = "no"]]
  /\ req' = [req EXCEPT ![r].step = "served"]
  /\ UNCHANGED <<now, owners, job>>

(* last_used_at alone is written; that may fail, and the request is served *)
(* all the same, with the limits of its client as they are now.            *)
Touch(r) ==
  /\ req[r].step = "touch"
  /\ req' = [req EXCEPT ![r].step = "served",
                        ![r].limited = client[row[req[r].key].owner].limited]
  /\ UNCHANGED <<now, owners, row, job>>

(* The server dies with what it was doing; the database stays.             *)
Crash ==
  /\ job' = [job EXCEPT ![Server] = Idle]
  /\ req' = [r \in Request |-> Fresh]
  /\ UNCHANGED <<now, owners, row>>

Tick == now < LastTick /\ now' = now + 1 /\ UNCHANGED <<owners, row, job, req>>

Admin(a) == CreateUser(a) \/ InsertUser(a)
              \/ CreateClient(a) \/ InsertClient(a) \/ CommitClient(a)
              \/ Create(a) \/ Revoke(a) \/ Insert(a) \/ Update(a) \/ UpdateNothing(a)
              \/ CommitFails(a)

Command == \E a \in Cli : Admin(a)
Handler == Admin(Server) \/ Rotate

Next ==
  \/ Command \/ Handler
  \/ \E r \in Request : (\E k \in Key : Receive(r, k)) \/ LookUp(r) \/ Touch(r)
  \/ Crash \/ Tick

Spec == Init /\ [][Next]_vars

-----------------------------------------------------------------------------
(* Properties.                                                             *)

(* Nothing makes a revoked key good again, no rotation and no request that *)
(* read the key before it was revoked.                                     *)
RevokedForGood ==
  [][\A k \in Key : Revoked(row[k]) => Revoked(row'[k])]_vars

(* A key is of no use to a request that comes after its revocation or its  *)
(* expiry.                                                                 *)
DeadKeysServeNobody ==
  \A r \in Request : req[r].step \in {"touch", "served"} => ~req[r].dead

(* A client is never seen without the limit it is created with, which      *)
(* would be a client without limits: not while it is being created, not    *)
(* where that fails half-way, and not by a request with one of its keys.   *)
LimitsFromTheStart ==
  /\ \A c \in Client : client[c].there => (client[c].limited <=> client[c].wanted # "none")
  /\ \A r \in Request : req[r].step = "served" =>
       (req[r].limited <=> client[row[req[r].key].owner].wanted # "none")

(* What an actor was told holds: a user or a client that was answered is   *)
(* there, a revocation that was answered is in the database, and a         *)
(* rotation that was answered has left a new key of the same client and,   *)
(* when asked to, revoked the old one.                                     *)
AnswersHold ==
  \A a \in Actor :
    LET j == job[a] IN
    j.ok =>
      /\ j.kind = "revoke" \/ j.revokeOld => Revoked(row[j.key])
      /\ j.kind \in {"create", "rotate"} => row[j.new].issued /\ row[j.new].owner = j.who
      /\ j.kind = "user" => j.who \in users
      /\ j.kind = "client" => client[j.who].there /\ client[j.who].wanted = j.wanted

(* A rotation takes no key away before its replacement is there, whether   *)
(* it goes through, fails or dies half-way.                                *)
RotationReplaces ==
  [][\A k \in Key :
       row'[k].revoked = "rotate" /\ row[k].revoked # "rotate" =>
         /\ job[Server].key = k /\ job[Server].new # NoKey
         /\ row[job[Server].new].issued]_vars
=============================================================================
