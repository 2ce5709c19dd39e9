------------------------------- MODULE Routing ------------------------------
(***************************************************************************)
(* Which model and which backend a request gets: the routing file read at  *)
(* startup (routing/config.py), the registries built from it (routing/     *)
(* __init__.py, model_registry.py, backend_registry.py) between the start  *)
(* and the end of the application (main.py), and the decisions taken with  *)
(* them (router.py, api/chat.py, api/admin.py).                            *)
(*                                                                         *)
(* Startup is one sequence of steps: the default backend opened, then one  *)
(* backend or model of the file parsed, one backend opened, one entry      *)
(* registered; it reaches the end, or raises and leaves what it opened.    *)
(* A request is two: it is authenticated, which takes a copy of what its   *)
(* client may use, and later routed; what the default backend has loaded   *)
(* changes in between.                                                     *)
(* What a client may use is said when it is created and not changed again. *)
(* Without a routing file every model the default backend reports is       *)
(* routed to it (passthrough).                                             *)
(***************************************************************************)
EXTENDS Integers, Sequences

CONSTANTS Name,        \* the strings a file or a request can use for a model
          BackendId,   \* the strings a file can use for a backend
          Malformed,   \* anything else in the place of a required string
          Absent,      \* backend_model is not in the file
          Native,      \* the values backend_model can have in the file
          NoFile,      \* no routing file, or an empty one
          RawConfigs,  \* the files to start with
          NoLimit,     \* allowed_models is None
          Policies,    \* the sets of allowed models, none empty, and NoLimit
          Client       \* the clients

RawBackend == [id : BackendId \cup {Malformed}, supported : BOOLEAN, url : BOOLEAN]

RawModel == [id : Name \cup {Malformed}, backend : BackendId \cup {Malformed},
             native : Native \cup {Absent, Malformed}, enabled : BOOLEAN,
             aliases : Seq(Name \cup {Malformed})]

RawConfig == [backends : Seq(RawBackend), models : Seq(RawModel)]

ModelEntry == [id : Name, backend : BackendId, native : Native \cup Name,
               enabled : BOOLEAN, aliases : Seq(Name)]

ASSUME RoutingAssumption ==
  /\ RawConfigs \ {NoFile} \subseteq RawConfig
  /\ Malformed \notin Name \cup BackendId \cup Native
  /\ Absent \notin Name \cup Native /\ Absent # Malformed
  /\ NoLimit \in Policies /\ Policies \ {NoLimit} \subseteq (SUBSET Name) \ {{}}

VARIABLES
  raw,       \* the routing file
  phase,     \* how far startup has come
  n,         \* the index of the loop startup is in
  backends,  \* ParsedRoutingConfig.backends: their ids
  models,    \* ParsedRoutingConfig.models
  clients,   \* the backends with an open client, Absent for the default one
  opened,    \* BackendRegistry._backends: their ids
  byId,      \* ModelRegistry._by_id
  byAlias,   \* ModelRegistry._by_alias
  loaded,    \* what the default backend reports, Malformed when it fails
  allowed,   \* what each client may use, Malformed before it is created
  asked,     \* the request of each client that is authenticated: name, policy
  decision   \* the decision on the client's last request

parsed == <<backends, models>>
registry == <<clients, opened, byId, byAlias>>
requests == <<asked, decision>>
vars == <<raw, phase, n, parsed, registry, loaded, allowed, requests>>

Idle == [name |-> Malformed, may |-> NoLimit]
Undecided == [outcome |-> "none"]
Failure(why) == [outcome |-> why]
Routed(name, id, b, native) ==
  [outcome |-> "routed", name |-> name, id |-> id, backend |-> b, native |-> native]

Phases == {"connect", "backends", "models", "open", "register", "serving", "stopped",
           "failed"}
Outcomes == {"none", "not_found", "disabled", "forbidden", "backend_missing",
             "backend_error"}

TypeOK ==
  /\ phase \in Phases /\ n \in Nat
  /\ backends \in Seq(BackendId)
  /\ models \in Seq(ModelEntry)
  /\ clients \subseteq BackendId \cup {Absent} /\ opened \subseteq BackendId
  /\ DOMAIN byId \subseteq Name /\ \A x \in DOMAIN byId : byId[x] \in ModelEntry
  /\ DOMAIN byAlias \subseteq Name /\ \A x \in DOMAIN byAlias : byAlias[x] \in Name
  /\ loaded \in (SUBSET Name) \cup {Malformed}
  /\ allowed \in [Client -> Policies \cup {Malformed}]
  /\ asked \in [Client -> [name : Name, may : Policies] \cup {Idle}]
  /\ \A c \in Client :
       \/ decision[c].outcome \in Outcomes
       \/ decision[c] \in [outcome : {"routed"}, name : Name, id : Name,
                           backend : BackendId \cup {Absent}, native : Native \cup Name]

Init ==
  /\ raw \in RawConfigs
  /\ phase = "connect"
  /\ n = 1
  /\ backends = <<>> /\ models = <<>>
  /\ clients = {} /\ opened = {} /\ byId = <<>> /\ byAlias = <<>>
  /\ loaded = Malformed /\ allowed = [c \in Client |-> Malformed]
  /\ asked = [c \in Client |-> Idle]
  /\ decision = [c \in Client |-> Undecided]

-----------------------------------------------------------------------------
(* Starting, and parsing the file.                                         *)

(* The default backend is opened whether or not there is a file.           *)
OpenDefault ==
  /\ phase = "connect"
  /\ clients' = clients \cup {Absent}
  /\ phase' = IF raw = NoFile THEN "serving" ELSE "backends"
  /\ UNCHANGED <<raw, n, parsed, opened, byId, byAlias, loaded, allowed, requests>>

Elements(s) == {s[i] : i \in DOMAIN s}
SeenModelIds == {models[i].id : i \in DOMAIN models}
SeenAliases == UNION {Elements(models[i].aliases) : i \in DOMAIN models}

BackendAccepted(b) ==
  b.id \notin Elements(backends) \cup {Malformed} /\ b.supported /\ b.url

(* The aliases of an entry are looked at one after another, before the id  *)
(* of the entry itself is added to the ids seen.                           *)
AliasesAccepted(as) ==
  \A i \in DOMAIN as :
    /\ as[i] \notin SeenModelIds \cup SeenAliases \cup {Malformed}
    /\ \A j \in 1 .. i - 1 : as[j] # as[i]

ModelAccepted(m) ==
  /\ m.id \notin SeenModelIds \cup {Malformed}
  /\ m.backend \in Elements(backends)
  /\ m.native # Malformed
  /\ AliasesAccepted(m.aliases)

(* Wrong: backend_model stays empty when the file has none.                *)
EntryOfUndefaulted(m) == m

(* A model without a backend_model is known to its backend by its own id.  *)
EntryOf(m) == [m EXCEPT !.native = IF @ = Absent THEN m.id ELSE @]

Fail ==
  /\ phase' = "failed"
  /\ UNCHANGED <<raw, n, parsed, registry, loaded, allowed, requests>>

RejectEmpty ==
  /\ phase = "backends" /\ n = 1
  /\ raw.backends = <<>> \/ raw.models = <<>>
  /\ Fail

ParseBackend ==
  /\ phase = "backends" /\ raw.models # <<>> /\ n <= Len(raw.backends)
  /\ LET b == raw.backends[n]
     IN  \/ /\ BackendAccepted(b)
            /\ backends' = Append(backends, b.id)
            /\ n' = IF n = Len(raw.backends) THEN 1 ELSE n + 1
            /\ phase' = IF n = Len(raw.backends) THEN "models" ELSE phase
            /\ UNCHANGED <<raw, models, registry, loaded, allowed, requests>>
         \/ ~BackendAccepted(b) /\ Fail

ParseModel ==
  /\ phase = "models"
  /\ LET m == raw.models[n]
     IN  \/ /\ ModelAccepted(m)
            /\ models' = Append(models, EntryOf(m))
            /\ n' = IF n = Len(raw.models) THEN 1 ELSE n + 1
            /\ phase' = IF n = Len(raw.models) THEN "open" ELSE phase
            /\ UNCHANGED <<raw, backends, registry, loaded, allowed, requests>>
         \/ ~ModelAccepted(m) /\ Fail

(* Opening makes a client and does not talk to the backend.                *)
OpenBackend ==
  /\ phase = "open"
  /\ clients' = clients \cup {backends[n]} /\ opened' = opened \cup {backends[n]}
  /\ n' = IF n = Len(backends) THEN 1 ELSE n + 1
  /\ phase' = IF n = Len(backends) THEN "register" ELSE phase
  /\ UNCHANGED <<raw, parsed, byId, byAlias, loaded, allowed, requests>>

-----------------------------------------------------------------------------
(* The model registry.                                                     *)

(* Values for some more arguments; the new ones win.                       *)
With(f, g) == [x \in DOMAIN f \cup DOMAIN g |-> IF x \in DOMAIN g THEN g[x] ELSE f[x]]

Refused(e) == e.id \in DOMAIN byId \/ Elements(e.aliases) \cap DOMAIN byAlias # {}

RegisterEntry ==
  /\ phase = "register"
  /\ LET e == models[n]
     IN  \/ /\ ~Refused(e)
            /\ byId' = With(byId, [x \in {e.id} |-> e])
            /\ byAlias' = With(byAlias, [a \in Elements(e.aliases) |-> e.id])
            /\ n' = IF n = Len(models) THEN 1 ELSE n + 1
            /\ phase' = IF n = Len(models) THEN "serving" ELSE phase
            /\ UNCHANGED <<raw, parsed, clients, opened, loaded, allowed, requests>>
         \/ Refused(e) /\ Fail

(* Wrong: aliases are looked up before ids.                                *)
ResolveAliasFirst(name) ==
  IF name \in DOMAIN byAlias THEN byId[byAlias[name]] ELSE byId[name]

Resolve(name) ==
  IF name \in DOMAIN byId THEN byId[name] ELSE byId[byAlias[name]]

Known(name) == name \in DOMAIN byId \cup DOMAIN byAlias

-----------------------------------------------------------------------------
(* Requests.                                                               *)

Passthrough == raw = NoFile

CanUse(may, id) == may = NoLimit \/ id \in may

(* Wrong: the policy is asked about the name in the request.               *)
RouteByRequestedName(name, may) ==
  LET e == Resolve(name)
  IN  CASE ~Known(name)             -> Failure("not_found")
        [] Known(name) /\ ~e.enabled -> Failure("disabled")
        [] Known(name) /\ e.enabled /\ ~CanUse(may, name) -> Failure("forbidden")
        [] OTHER -> IF e.backend \in opened
                    THEN Routed(name, e.id, e.backend, e.native)
                    ELSE Failure("backend_missing")

(* RoutingService.route in configured mode: it does not wait for anything. *)
Route(name, may) ==
  LET e == Resolve(name)
  IN  CASE ~Known(name)             -> Failure("not_found")
        [] Known(name) /\ ~e.enabled -> Failure("disabled")
        [] Known(name) /\ e.enabled /\ ~CanUse(may, e.id) -> Failure("forbidden")
        [] OTHER -> IF e.backend \in opened
                    THEN Routed(name, e.id, e.backend, e.native)
                    ELSE Failure("backend_missing")

(* The chat handler in passthrough mode, once the backend has answered.    *)
PassThrough(name, may) ==
  CASE loaded = Malformed -> Failure("backend_error")
    [] loaded # Malformed /\ name \notin loaded -> Failure("not_found")
    [] loaded # Malformed /\ name \in loaded /\ ~CanUse(may, name) -> Failure("forbidden")
    [] OTHER -> Routed(name, name, Absent, name)

(* Wrong: the backend is not asked for its models.                         *)
RoutePassthroughUnchecked(name, may) ==
  CASE ~CanUse(may, name) -> Failure("forbidden")
    [] CanUse(may, name)  -> Routed(name, name, Absent, name)

(* RoutingService.route in passthrough mode, which only the preview calls: *)
(* a backend that fails is one without models.                             *)
RoutePassthrough(name, may) ==
  CASE loaded = Malformed \/ name \notin loaded -> Failure("not_found")
    [] loaded # Malformed /\ name \in loaded /\ ~CanUse(may, name) -> Failure("forbidden")
    [] OTHER -> Routed(name, name, Absent, name)

(* POST /admin/routing/preview, for a principal without limits.            *)
Preview(name) ==
  IF Passthrough THEN RoutePassthrough(name, NoLimit) ELSE Route(name, NoLimit)

(* What a chat request with a policy would be told now.                    *)
Answer(name, may) == IF Passthrough THEN PassThrough(name, may) ELSE Route(name, may)

(* What GET /v1/models answers; nothing where it fails.                    *)
ListModels(may) ==
  IF Passthrough
  THEN {id \in IF loaded = Malformed THEN {} ELSE loaded : CanUse(may, id)}
  ELSE {id \in DOMAIN byId : byId[id].enabled /\ CanUse(may, id)}

Authenticate(c, name) ==
  /\ phase = "serving" /\ asked[c] = Idle /\ allowed[c] # Malformed
  /\ asked' = [asked EXCEPT ![c] = [name |-> name, may |-> allowed[c]]]
  /\ decision' = [decision EXCEPT ![c] = Undecided]
  /\ UNCHANGED <<raw, phase, n, parsed, registry, loaded, allowed>>

Decide(c) ==
  /\ asked[c] # Idle
  /\ decision' = [decision EXCEPT ![c] = Answer(asked[c].name, asked[c].may)]
  /\ asked' = [asked EXCEPT ![c] = Idle]
  /\ UNCHANGED <<raw, phase, n, parsed, registry, loaded, allowed>>

(* No list, or an empty one, is no limit.                                  *)
CreateClient(c) ==
  /\ phase = "serving" /\ allowed[c] = Malformed
  /\ \E may \in Policies : allowed' = [allowed EXCEPT ![c] = may]
  /\ UNCHANGED <<raw, phase, n, parsed, registry, loaded, requests>>

LoadOther ==
  /\ phase = "serving" /\ Passthrough
  /\ loaded' \in (SUBSET Name) \cup {Malformed}
  /\ UNCHANGED <<raw, phase, n, parsed, registry, allowed, requests>>

(* The end of the application, once no request is left: the clients of the *)
(* registry are not closed.                                                *)
Shutdown ==
  /\ phase = "serving" /\ \A c \in Client : asked[c] = Idle
  /\ phase' = "stopped"
  /\ clients' = clients \ {Absent}
  /\ UNCHANGED <<raw, n, parsed, opened, byId, byAlias, loaded, allowed, requests>>

Startup == OpenDefault \/ RejectEmpty \/ ParseBackend \/ ParseModel
             \/ OpenBackend \/ RegisterEntry

Next ==
  \/ Startup
  \/ \E c \in Client : \/ \E name \in Name : Authenticate(c, name)
                       \/ Decide(c) \/ CreateClient(c)
  \/ LoadOther \/ Shutdown

Spec == Init /\ [][Next]_vars

-----------------------------------------------------------------------------
(* Properties.                                                             *)

(* What a file has to be, said of the file as a whole: ids are unique,     *)
(* backends exist, and no alias occurs twice or is an id declared before   *)
(* the entry it is in.                                                     *)
ValidFile ==
  LET bs == raw.backends  ms == raw.models
      places == UNION {{<<i, j>> : j \in DOMAIN ms[i].aliases} : i \in DOMAIN ms}
      at(p) == ms[p[1]].aliases[p[2]]
  IN  /\ bs # <<>> /\ ms # <<>>
      /\ \A i \in DOMAIN bs : bs[i].id # Malformed /\ bs[i].supported /\ bs[i].url
      /\ \A i, j \in DOMAIN bs : i # j => bs[i].id # bs[j].id
      /\ \A i \in DOMAIN ms : ms[i].id # Malformed /\ ms[i].native # Malformed
      /\ \A i, j \in DOMAIN ms : i # j => ms[i].id # ms[j].id
      /\ \A i \in DOMAIN ms : \E j \in DOMAIN bs : ms[i].backend = bs[j].id
      /\ \A p \in places : at(p) # Malformed
      /\ \A p, q \in places : p # q => at(p) # at(q)
      /\ \A p \in places : \A i \in 1 .. p[1] - 1 : at(p) # ms[i].id

(* Every backend of the file and the default one have an open client, so   *)
(* whatever is routed has one.                                             *)
BackendsOpen ==
  clients = {Absent} \cup
    (IF Passthrough THEN {} ELSE {raw.backends[i].id : i \in DOMAIN raw.backends})

(* An id always means its own entry, and an alias the entry it is declared *)
(* in, unless a later entry has it for its id.                             *)
NamesMeanTheirEntry ==
  \A i \in DOMAIN models :
    /\ Resolve(models[i].id) = models[i]
    /\ \A a \in Elements(models[i].aliases) :
         a \notin SeenModelIds => Resolve(a) = models[i]

(* The parser takes exactly the valid files, and what it takes the         *)
(* registry takes too: its own checks for duplicates never fire.  The      *)
(* application that serves has all that the file names, under its names.   *)
StartupExact ==
  /\ phase \in {"open", "register", "serving"} /\ ~Passthrough => ValidFile
  /\ phase = "failed" => ~ValidFile
  /\ phase = "serving" => BackendsOpen /\ NamesMeanTheirEntry

(* A name cannot be used around the policy or a switched-off model: what   *)
(* is routed is what the canonical name would have been routed to, is      *)
(* enabled and is among what the client could use when it authenticated.   *)
NoBypass ==
  [][\A c \in Client :
       LET d == decision'[c] IN
       d # decision[c] /\ d.outcome = "routed" /\ ~Passthrough =>
         /\ d.id \in DOMAIN byId /\ byId[d.id].enabled
         /\ CanUse(asked[c].may, d.id)
         /\ <<d.backend, d.native>> = <<byId[d.id].backend, byId[d.id].native>>]_vars

(* GET /v1/models lists the ids a request with the same policy would be    *)
(* routed by, and no others.                                               *)
ListedIsRoutable ==
  \A may \in Policies :
    ListModels(may) = {id \in IF Passthrough THEN Name ELSE DOMAIN byId :
                         Answer(id, may).outcome = "routed"}

(* The preview names the backend and the model that every request for the  *)
(* name would be sent to, the policy of its client permitting, and fails   *)
(* for the names no client could use, though in passthrough mode the two   *)
(* are decided by different code.  docs/ROUTING.md:43 says that there is   *)
(* no preview in passthrough mode; the code answers it there               *)
(* (RoutingService.route), and what it answers is held to the same.        *)
PreviewTells ==
  \A name \in Name, may \in Policies :
    LET a == Answer(name, may)  p == Preview(name) IN
    /\ a.outcome = "routed" => a = p
    /\ p.outcome = "routed" => a.outcome \in {"routed", "forbidden"}

(* What a client is shown and what the operator is shown of the models is  *)
(* what a request would meet.                                              *)
PagesTellRouting == phase = "serving" => ListedIsRoutable /\ PreviewTells

=============================================================================
