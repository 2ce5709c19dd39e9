---------------------------- MODULE RoutingProofs ---------------------------
(***************************************************************************)
(* Theorems about Routing, for every routing file, every set of names,     *)
(* backends, clients and policies.                                         *)
(***************************************************************************)
EXTENDS Routing, TLAPS

-----------------------------------------------------------------------------
(* The inductive invariant.                                                *)

NB == Len(raw.backends)
NM == Len(raw.models)

(* The first b backends of the file are as they have to be.                *)
BackendsUpTo(b) ==
  /\ \A i \in 1 .. b :
       raw.backends[i].id # Malformed /\ raw.backends[i].supported /\ raw.backends[i].url
  /\ \A i, j \in 1 .. b : i # j => raw.backends[i].id # raw.backends[j].id

(* So are the first m models.                                              *)
ModelsUpTo(m) ==
  /\ \A i \in 1 .. m :
       /\ raw.models[i].id # Malformed /\ raw.models[i].native # Malformed
       /\ \E j \in 1 .. NB : raw.models[i].backend = raw.backends[j].id
       /\ \A x \in DOMAIN raw.models[i].aliases : raw.models[i].aliases[x] # Malformed
  /\ \A i, j \in 1 .. m : i # j => raw.models[i].id # raw.models[j].id
  /\ \A i, j \in 1 .. m :
       \A x \in DOMAIN raw.models[i].aliases, y \in DOMAIN raw.models[j].aliases :
         i # j \/ x # y => raw.models[i].aliases[x] # raw.models[j].aliases[y]
  /\ \A i \in 1 .. m : \A x \in DOMAIN raw.models[i].aliases : \A j \in 1 .. i - 1 :
       raw.models[i].aliases[x] # raw.models[j].id

(* What has been parsed: b backends and m models.                          *)
ParsedUpTo(b, m) ==
  /\ backends \in Seq(BackendId) /\ Len(backends) = b
  /\ \A i \in 1 .. b : backends[i] = raw.backends[i].id
  /\ models \in Seq(ModelEntry) /\ Len(models) = m
  /\ \A i \in 1 .. m : models[i] = EntryOf(raw.models[i])

(* What has been opened: b backends of the file and the default one.       *)
OpenedUpTo(b) ==
  /\ opened = {raw.backends[i].id : i \in 1 .. b}
  /\ clients = {Absent} \cup opened

(* What has been registered: m entries.                                    *)
RegisteredUpTo(m) ==
  /\ DOMAIN byId = {models[i].id : i \in 1 .. m}
  /\ \A i \in 1 .. m : byId[models[i].id] = models[i]
  /\ DOMAIN byAlias = UNION {Elements(models[i].aliases) : i \in 1 .. m}
  /\ \A i \in 1 .. m : \A a \in Elements(models[i].aliases) : byAlias[a] = models[i].id

ValidUpTo(b, m) == NB > 0 /\ NM > 0 /\ BackendsUpTo(b) /\ ModelsUpTo(m)

NothingRegistered == byId = <<>> /\ byAlias = <<>>

PhaseInv ==
  /\ phase = "connect" =>
       n = 1 /\ backends = <<>> /\ models = <<>> /\ clients = {} /\ opened = {}
         /\ NothingRegistered
  /\ phase = "backends" =>
       /\ ~Passthrough /\ n \in 1 .. NB + 1 /\ (n > 1 => NM > 0 /\ n <= NB)
       /\ ParsedUpTo(n - 1, 0) /\ BackendsUpTo(n - 1)
       /\ clients = {Absent} /\ opened = {} /\ NothingRegistered
  /\ phase = "models" =>
       /\ ~Passthrough /\ n \in 1 .. NM
       /\ ParsedUpTo(NB, n - 1) /\ ValidUpTo(NB, n - 1)
       /\ clients = {Absent} /\ opened = {} /\ NothingRegistered
  /\ phase = "open" =>
       /\ ~Passthrough /\ n \in 1 .. NB
       /\ ParsedUpTo(NB, NM) /\ ValidUpTo(NB, NM)
       /\ OpenedUpTo(n - 1) /\ NothingRegistered
  /\ phase = "register" =>
       /\ ~Passthrough /\ n \in 1 .. NM
       /\ ParsedUpTo(NB, NM) /\ ValidUpTo(NB, NM)
       /\ OpenedUpTo(NB) /\ RegisteredUpTo(n - 1)
  /\ phase = "serving" /\ ~Passthrough =>
       /\ ParsedUpTo(NB, NM) /\ ValidUpTo(NB, NM)
       /\ OpenedUpTo(NB) /\ RegisteredUpTo(NM)
  /\ phase = "serving" /\ Passthrough =>
       /\ models = <<>> /\ clients = {Absent} /\ opened = {} /\ NothingRegistered
  /\ phase = "failed" => ~Passthrough /\ ~ValidUpTo(NB, NM)

(* An entry is found under its own id, and an alias leads to an entry.     *)
RegistryInv ==
  /\ \A x \in DOMAIN byId : byId[x].id = x
  /\ \A x \in DOMAIN byAlias : byAlias[x] \in DOMAIN byId

(* Requests are made of a server that runs.                                *)
RequestInv ==
  /\ decision = [c \in Client |-> decision[c]]
  /\ phase # "serving" => \A c \in Client : asked[c] = Idle
  /\ raw \in RawConfigs

IndInv == TypeOK /\ PhaseInv /\ RegistryInv /\ RequestInv

-----------------------------------------------------------------------------
(* Files and entries.                                                      *)

LEMMA FileShape ==
  ASSUME raw \in RawConfigs, ~Passthrough
  PROVE  /\ raw \in RawConfig
         /\ raw.backends \in Seq(RawBackend) /\ raw.models \in Seq(RawModel)
         /\ NB \in Nat /\ NM \in Nat
         /\ DOMAIN raw.backends = 1 .. NB /\ DOMAIN raw.models = 1 .. NM
         /\ \A i \in 1 .. NB : raw.backends[i] \in RawBackend
         /\ \A i \in 1 .. NM : raw.models[i] \in RawModel
         /\ (NB = 0 <=> raw.backends = <<>>) /\ (NM = 0 <=> raw.models = <<>>)
  <1>1. raw \in RawConfig
    BY RoutingAssumption DEF Passthrough
  <1>2. raw.backends \in Seq(RawBackend) /\ raw.models \in Seq(RawModel)
    BY <1>1 DEF RawConfig
  <1> QED BY <1>1, <1>2 DEF NB, NM

LEMMA EntryFacts ==
  ASSUME NEW m \in RawModel
  PROVE  /\ EntryOf(m).id = m.id /\ EntryOf(m).backend = m.backend
         /\ EntryOf(m).enabled = m.enabled /\ EntryOf(m).aliases = m.aliases
         /\ EntryOf(m).native = IF m.native = Absent THEN m.id ELSE m.native
  BY DEF EntryOf, RawModel

LEMMA EntryType ==
  ASSUME NEW m \in RawModel, m.id # Malformed, m.native # Malformed,
         m.backend # Malformed,
         \A x \in DOMAIN m.aliases : m.aliases[x] # Malformed
  PROVE  EntryOf(m) \in ModelEntry
  <1>1. /\ m.id \in Name /\ m.backend \in BackendId /\ m.enabled \in BOOLEAN
        /\ m.native \in Native \cup {Absent} /\ m.aliases \in Seq(Name \cup {Malformed})
    BY DEF RawModel
  <1>2. m.aliases \in Seq(Name)
    BY <1>1
  <1>3. EntryOf(m) = [id |-> m.id, backend |-> m.backend,
                      native |-> IF m.native = Absent THEN m.id ELSE m.native,
                      enabled |-> m.enabled, aliases |-> m.aliases]
    BY DEF EntryOf, RawModel
  <1> QED BY <1>1, <1>2, <1>3 DEF ModelEntry

(* What the parser has seen is what it has parsed.                         *)
LEMMA Seen ==
  ASSUME raw \in RawConfigs, ~Passthrough, NEW b \in 0 .. NB, NEW m \in 0 .. NM,
         ParsedUpTo(b, m)
  PROVE  /\ Elements(backends) = {raw.backends[i].id : i \in 1 .. b}
         /\ SeenModelIds = {raw.models[i].id : i \in 1 .. m}
         /\ SeenAliases = UNION {Elements(raw.models[i].aliases) : i \in 1 .. m}
  <1>1. DOMAIN backends = 1 .. b /\ DOMAIN models = 1 .. m
    BY DEF ParsedUpTo
  <1>2. \A i \in 1 .. m : /\ models[i].id = raw.models[i].id
                          /\ models[i].aliases = raw.models[i].aliases
    BY FileShape, EntryFacts DEF ParsedUpTo
  <1>3. Elements(backends) = {raw.backends[i].id : i \in 1 .. b}
    BY <1>1 DEF Elements, ParsedUpTo
  <1>4. SeenModelIds = {raw.models[i].id : i \in 1 .. m}
    BY <1>1, <1>2 DEF SeenModelIds
  <1>5. SeenAliases = UNION {Elements(raw.models[i].aliases) : i \in 1 .. m}
    BY <1>1, <1>2 DEF SeenAliases
  <1> QED BY <1>3, <1>4, <1>5

LEMMA BackendAcceptedIff ==
  ASSUME raw \in RawConfigs, ~Passthrough, NEW b \in Nat, b < NB,
         ParsedUpTo(b, 0), BackendsUpTo(b)
  PROVE  BackendAccepted(raw.backends[b + 1]) <=> BackendsUpTo(b + 1)
  <1>1. NB \in Nat /\ NM \in Nat
    BY FileShape
  <1>2. b \in 0 .. NB /\ 0 \in 0 .. NM /\ 1 .. b + 1 = 1 .. b \cup {b + 1}
    BY <1>1
  <1>3. Elements(backends) = {raw.backends[i].id : i \in 1 .. b}
    BY <1>2, Seen
  <1>4. ASSUME BackendAccepted(raw.backends[b + 1]) PROVE BackendsUpTo(b + 1)
    BY <1>2, <1>3, <1>4 DEF BackendAccepted, BackendsUpTo
  <1>5. ASSUME BackendsUpTo(b + 1) PROVE BackendAccepted(raw.backends[b + 1])
    <2>1. \A i \in 1 .. b : raw.backends[b + 1].id # raw.backends[i].id
      BY <1>2, <1>5 DEF BackendsUpTo
    <2> QED BY <1>2, <1>3, <1>5, <2>1 DEF BackendAccepted, BackendsUpTo
  <1> QED BY <1>4, <1>5

LEMMA ModelAcceptedIff ==
  ASSUME raw \in RawConfigs, ~Passthrough, NEW m \in Nat, m < NM,
         ParsedUpTo(NB, m), ModelsUpTo(m)
  PROVE  ModelAccepted(raw.models[m + 1]) <=> ModelsUpTo(m + 1)
  <1> DEFINE e == raw.models[m + 1]
             as == raw.models[m + 1].aliases
  <1>1. NB \in Nat /\ NM \in Nat /\ m + 1 \in 1 .. NM
    BY FileShape
  <1>2. /\ NB \in 0 .. NB /\ m \in 0 .. NM /\ 1 .. m + 1 = 1 .. m \cup {m + 1}
        /\ \A i \in 1 .. m : i # m + 1 /\ i \in 1 .. (m + 1) - 1
        /\ (m + 1) - 1 = m
    BY <1>1
  <1>3. /\ Elements(backends) = {raw.backends[i].id : i \in 1 .. NB}
        /\ SeenModelIds = {raw.models[i].id : i \in 1 .. m}
        /\ SeenAliases = UNION {Elements(raw.models[i].aliases) : i \in 1 .. m}
    BY <1>2, Seen
  <1>4. e \in RawModel /\ as \in Seq(Name \cup {Malformed})
    BY <1>1, FileShape DEF RawModel
  <1>5. DOMAIN as = 1 .. Len(as) /\ Len(as) \in Nat
    BY <1>4
  <1>6. ASSUME ModelAccepted(e) PROVE ModelsUpTo(m + 1)
    <2>1. /\ e.id # Malformed /\ e.native # Malformed
          /\ \E j \in 1 .. NB : e.backend = raw.backends[j].id
          /\ \A i \in 1 .. m : raw.models[i].id # e.id
      BY <1>3, <1>6 DEF ModelAccepted
    <2>2. \A x \in DOMAIN as :
            /\ as[x] # Malformed
            /\ \A i \in 1 .. m : as[x] # raw.models[i].id
            /\ \A i \in 1 .. m : \A y \in DOMAIN raw.models[i].aliases :
                 as[x] # raw.models[i].aliases[y]
      BY <1>3, <1>6 DEF ModelAccepted, AliasesAccepted, Elements
    <2>3. \A x, y \in DOMAIN as : x # y => as[x] # as[y]
      BY <1>5, <1>6 DEF ModelAccepted, AliasesAccepted
    <2> HIDE DEF e, as
    <2>4. /\ raw.models[m + 1] = e /\ e.aliases = as
      BY DEF e, as
    <2>5. ASSUME NEW i \in 1 .. m + 1
          PROVE  /\ raw.models[i].id # Malformed /\ raw.models[i].native # Malformed
                 /\ \E j \in 1 .. NB : raw.models[i].backend = raw.backends[j].id
                 /\ \A x \in DOMAIN raw.models[i].aliases :
                      raw.models[i].aliases[x] # Malformed
      BY <1>2, <2>1, <2>2, <2>4 DEF ModelsUpTo
    <2>6. ASSUME NEW i \in 1 .. m + 1, NEW j \in 1 .. m + 1, i # j
          PROVE  raw.models[i].id # raw.models[j].id
      BY <1>2, <2>1, <2>4, <2>6 DEF ModelsUpTo
    <2>7. ASSUME NEW i \in 1 .. m + 1, NEW j \in 1 .. m + 1,
                 NEW x \in DOMAIN raw.models[i].aliases,
                 NEW y \in DOMAIN raw.models[j].aliases, i # j \/ x # y
          PROVE  raw.models[i].aliases[x] # raw.models[j].aliases[y]
      <3>1. CASE i \in 1 .. m /\ j \in 1 .. m
        BY <2>7, <3>1 DEF ModelsUpTo
      <3>2. CASE i = m + 1 /\ j \in 1 .. m
        BY <2>2, <2>4, <3>2
      <3>3. CASE i \in 1 .. m /\ j = m + 1
        BY <2>2, <2>4, <3>3
      <3>4. CASE i = m + 1 /\ j = m + 1
        BY <2>3, <2>4, <2>7, <3>4
      <3> QED BY <1>2, <3>1, <3>2, <3>3, <3>4
    <2>8. ASSUME NEW i \in 1 .. m + 1, NEW x \in DOMAIN raw.models[i].aliases,
                 NEW j \in 1 .. i - 1
          PROVE  raw.models[i].aliases[x] # raw.models[j].id
      <3>1. CASE i \in 1 .. m
        BY <3>1 DEF ModelsUpTo
      <3>2. CASE i = m + 1
        BY <1>2, <2>2, <2>4, <3>2
      <3> QED BY <1>2, <3>1, <3>2
    <2> QED BY <2>5, <2>6, <2>7, <2>8 DEF ModelsUpTo
  <1>7. ASSUME ModelsUpTo(m + 1) PROVE ModelAccepted(e)
    <2>1. /\ e.id # Malformed /\ e.native # Malformed
          /\ \E j \in 1 .. NB : e.backend = raw.backends[j].id
          /\ \A i \in 1 .. m : e.id # raw.models[i].id
      BY <1>2, <1>7 DEF ModelsUpTo
    <2>2. /\ e.id \notin SeenModelIds \cup {Malformed}
          /\ e.backend \in Elements(backends)
      BY <1>3, <2>1
    <2>3. ASSUME NEW x \in DOMAIN as
          PROVE  /\ as[x] \notin SeenModelIds \cup SeenAliases \cup {Malformed}
                 /\ \A y \in 1 .. x - 1 : as[y] # as[x]
      <3>1. as[x] # Malformed
        BY <1>2, <1>7 DEF ModelsUpTo
      <3>2. as[x] \notin SeenModelIds
        <4>1. m + 1 \in 1 .. m + 1 /\ \A j \in 1 .. (m + 1) - 1 : as[x] # raw.models[j].id
          BY <1>2, <1>7 DEF ModelsUpTo
        <4>2. \A j \in 1 .. m : as[x] # raw.models[j].id
          BY <1>2, <4>1
        <4> QED BY <1>3, <4>2
      <3>3. as[x] \notin SeenAliases
        BY <1>2, <1>3, <1>7 DEF ModelsUpTo, Elements
      <3>4. \A y \in DOMAIN as : y # x => as[y] # as[x]
        BY <1>2, <1>7 DEF ModelsUpTo
      <3>5. \A y \in 1 .. x - 1 : y \in DOMAIN as /\ y # x
        BY <1>5
      <3> QED BY <3>1, <3>2, <3>3, <3>4, <3>5
    <2> QED BY <2>1, <2>2, <2>3 DEF ModelAccepted, AliasesAccepted
  <1> QED BY <1>6, <1>7

(* The file as a whole, and as the loops of the parser take it.            *)
LEMMA ValidFileIff ==
  ASSUME raw \in RawConfigs, ~Passthrough
  PROVE  ValidFile <=> ValidUpTo(NB, NM)
  <1> DEFINE bs == raw.backends
             ms == raw.models
             places == UNION {{<<i, j>> : j \in DOMAIN ms[i].aliases} : i \in DOMAIN ms}
             at(p) == ms[p[1]].aliases[p[2]]
  <1>1. /\ NB \in Nat /\ NM \in Nat
        /\ DOMAIN bs = 1 .. NB /\ DOMAIN ms = 1 .. NM
        /\ (NB = 0 <=> bs = <<>>) /\ (NM = 0 <=> ms = <<>>)
    BY FileShape
  <1>2. (bs # <<>> /\ ms # <<>>) <=> (NB > 0 /\ NM > 0)
    BY <1>1
  <1>3. \A p : p \in places <=>
          \E i \in 1 .. NM : \E j \in DOMAIN ms[i].aliases : p = <<i, j>>
    BY <1>1
  <1>4. \A i, j : at(<<i, j>>) = ms[i].aliases[j]
    OBVIOUS
  <1>5. (\A p \in places : at(p) # Malformed) <=>
          \A i \in 1 .. NM : \A x \in DOMAIN ms[i].aliases : ms[i].aliases[x] # Malformed
    <2>1. ASSUME \A p \in places : at(p) # Malformed,
                 NEW i \in 1 .. NM, NEW x \in DOMAIN ms[i].aliases
          PROVE  ms[i].aliases[x] # Malformed
      <3>1. <<i, x>> \in places
        BY <1>3
      <3> QED BY <1>4, <2>1, <3>1
    <2>2. ASSUME \A i \in 1 .. NM : \A x \in DOMAIN ms[i].aliases :
                   ms[i].aliases[x] # Malformed,
                 NEW p \in places
          PROVE  at(p) # Malformed
      <3>1. PICK i \in 1 .. NM : \E x \in DOMAIN ms[i].aliases : p = <<i, x>>
        BY <1>3
      <3>2. PICK x \in DOMAIN ms[i].aliases : p = <<i, x>>
        BY <3>1
      <3> QED BY <2>2, <3>2
    <2> QED BY <2>1, <2>2
  <1>6. (\A p, q \in places : p # q => at(p) # at(q)) <=>
          \A i, j \in 1 .. NM :
            \A x \in DOMAIN ms[i].aliases, y \in DOMAIN ms[j].aliases :
              i # j \/ x # y => ms[i].aliases[x] # ms[j].aliases[y]
    <2>1. ASSUME \A p, q \in places : p # q => at(p) # at(q),
                 NEW i \in 1 .. NM, NEW j \in 1 .. NM,
                 NEW x \in DOMAIN ms[i].aliases, NEW y \in DOMAIN ms[j].aliases,
                 i # j \/ x # y
          PROVE  ms[i].aliases[x] # ms[j].aliases[y]
      <3>1. <<i, x>> \in places /\ <<j, y>> \in places /\ <<i, x>> # <<j, y>>
        BY <1>3, <2>1
      <3>2. at(<<i, x>>) # at(<<j, y>>)
        BY <2>1, <3>1
      <3> QED BY <1>4, <3>2
    <2>2. ASSUME \A i, j \in 1 .. NM :
                   \A x \in DOMAIN ms[i].aliases, y \in DOMAIN ms[j].aliases :
                     i # j \/ x # y => ms[i].aliases[x] # ms[j].aliases[y],
                 NEW p \in places, NEW q \in places, p # q
          PROVE  at(p) # at(q)
      <3>1. PICK i \in 1 .. NM : \E x \in DOMAIN ms[i].aliases : p = <<i, x>>
        BY <1>3
      <3>2. PICK x \in DOMAIN ms[i].aliases : p = <<i, x>>
        BY <3>1
      <3>3. PICK j \in 1 .. NM : \E y \in DOMAIN ms[j].aliases : q = <<j, y>>
        BY <1>3
      <3>4. PICK y \in DOMAIN ms[j].aliases : q = <<j, y>>
        BY <3>3
      <3>5. ms[i].aliases[x] # ms[j].aliases[y]
        BY <2>2, <3>2, <3>4
      <3> QED BY <3>2, <3>4, <3>5
    <2> QED BY <2>1, <2>2
  <1>7. (\A p \in places : \A k \in 1 .. p[1] - 1 : at(p) # ms[k].id) <=>
          \A i \in 1 .. NM : \A x \in DOMAIN ms[i].aliases : \A k \in 1 .. i - 1 :
            ms[i].aliases[x] # ms[k].id
    <2>1. ASSUME \A p \in places : \A k \in 1 .. p[1] - 1 : at(p) # ms[k].id,
                 NEW i \in 1 .. NM, NEW x \in DOMAIN ms[i].aliases, NEW k \in 1 .. i - 1
          PROVE  ms[i].aliases[x] # ms[k].id
      <3>1. <<i, x>> \in places /\ <<i, x>>[1] = i
        BY <1>3
      <3> QED BY <1>4, <2>1, <3>1
    <2>2. ASSUME \A i \in 1 .. NM : \A x \in DOMAIN ms[i].aliases :
                   \A k \in 1 .. i - 1 : ms[i].aliases[x] # ms[k].id,
                 NEW p \in places, NEW k \in 1 .. p[1] - 1
          PROVE  at(p) # ms[k].id
      <3>1. PICK i \in 1 .. NM : \E x \in DOMAIN ms[i].aliases : p = <<i, x>>
        BY <1>3
      <3>2. PICK x \in DOMAIN ms[i].aliases : p = <<i, x>>
        BY <3>1
      <3> QED BY <2>2, <3>2
    <2> QED BY <2>1, <2>2
  <1>8. ValidFile <=>
          /\ bs # <<>> /\ ms # <<>>
          /\ \A i \in DOMAIN bs : bs[i].id # Malformed /\ bs[i].supported /\ bs[i].url
          /\ \A i, j \in DOMAIN bs : i # j => bs[i].id # bs[j].id
          /\ \A i \in DOMAIN ms : ms[i].id # Malformed /\ ms[i].native # Malformed
          /\ \A i, j \in DOMAIN ms : i # j => ms[i].id # ms[j].id
          /\ \A i \in DOMAIN ms : \E j \in DOMAIN bs : ms[i].backend = bs[j].id
          /\ \A p \in places : at(p) # Malformed
          /\ \A p, q \in places : p # q => at(p) # at(q)
          /\ \A p \in places : \A k \in 1 .. p[1] - 1 : at(p) # ms[k].id
    BY DEF ValidFile
  <1> HIDE DEF places, at
  <1>9. ASSUME ValidFile PROVE ValidUpTo(NB, NM)
    <2>1. BackendsUpTo(NB)
      BY <1>1, <1>8, <1>9 DEF BackendsUpTo
    <2>2. ModelsUpTo(NM)
      BY <1>1, <1>5, <1>6, <1>7, <1>8, <1>9 DEF ModelsUpTo
    <2> QED BY <1>2, <1>8, <1>9, <2>1, <2>2 DEF ValidUpTo
  <1>10. ASSUME ValidUpTo(NB, NM) PROVE ValidFile
    <2>1. /\ \A i \in DOMAIN bs : bs[i].id # Malformed /\ bs[i].supported /\ bs[i].url
          /\ \A i, j \in DOMAIN bs : i # j => bs[i].id # bs[j].id
      BY <1>1, <1>10 DEF ValidUpTo, BackendsUpTo
    <2>2. /\ \A i \in DOMAIN ms : ms[i].id # Malformed /\ ms[i].native # Malformed
          /\ \A i, j \in DOMAIN ms : i # j => ms[i].id # ms[j].id
          /\ \A i \in DOMAIN ms : \E j \in DOMAIN bs : ms[i].backend = bs[j].id
          /\ \A p \in places : at(p) # Malformed
      BY <1>1, <1>5, <1>10 DEF ValidUpTo, ModelsUpTo
    <2>3. /\ \A p, q \in places : p # q => at(p) # at(q)
          /\ \A p \in places : \A k \in 1 .. p[1] - 1 : at(p) # ms[k].id
      BY <1>6, <1>7, <1>10 DEF ValidUpTo, ModelsUpTo
    <2> QED BY <1>2, <1>8, <1>10, <2>1, <2>2, <2>3 DEF ValidUpTo
  <1> QED BY <1>9, <1>10

(* What holds of all holds of the first ones.                              *)
LEMMA BackendsPrefix ==
  ASSUME NEW b \in Nat, NB \in Nat, b <= NB, BackendsUpTo(NB)
  PROVE  BackendsUpTo(b)
  <1>1. \A i \in 1 .. b : i \in 1 .. NB
    OBVIOUS
  <1> QED BY <1>1 DEF BackendsUpTo

LEMMA ModelsPrefix ==
  ASSUME NEW m \in Nat, NM \in Nat, m <= NM, ModelsUpTo(NM)
  PROVE  ModelsUpTo(m)
  <1>1. \A i \in 1 .. m : i \in 1 .. NM
    OBVIOUS
  <1> QED BY <1>1 DEF ModelsUpTo

-----------------------------------------------------------------------------
(* The registry.                                                           *)

(* What has been parsed, entry by entry.                                   *)
LEMMA ParsedEntries ==
  ASSUME raw \in RawConfigs, ~Passthrough, ParsedUpTo(NB, NM), ValidUpTo(NB, NM)
  PROVE  /\ DOMAIN models = 1 .. NM /\ NM \in Nat
         /\ \A i \in 1 .. NM : models[i] \in ModelEntry
         /\ \A i, j \in 1 .. NM : i # j => models[i].id # models[j].id
         /\ \A i, j \in 1 .. NM : i # j =>
              Elements(models[i].aliases) \cap Elements(models[j].aliases) = {}
  <1>1. NM \in Nat /\ DOMAIN models = 1 .. NM
    BY FileShape DEF ParsedUpTo
  <1>2. \A i \in 1 .. NM : models[i] \in ModelEntry
    BY <1>1 DEF ParsedUpTo
  <1>3. \A i \in 1 .. NM : /\ models[i].id = raw.models[i].id
                           /\ models[i].aliases = raw.models[i].aliases
    BY FileShape, EntryFacts DEF ParsedUpTo
  <1>4. \A i, j \in 1 .. NM : i # j => models[i].id # models[j].id
    BY <1>3 DEF ValidUpTo, ModelsUpTo
  <1>5. ASSUME NEW i \in 1 .. NM, NEW j \in 1 .. NM, i # j,
               NEW a \in Elements(models[i].aliases), a \in Elements(models[j].aliases)
        PROVE  FALSE
    <2>1. PICK x \in DOMAIN raw.models[i].aliases : a = raw.models[i].aliases[x]
      BY <1>3, <1>5 DEF Elements
    <2>2. PICK y \in DOMAIN raw.models[j].aliases : a = raw.models[j].aliases[y]
      BY <1>3, <1>5 DEF Elements
    <2>3. \A k, l \in 1 .. NM :
            \A v \in DOMAIN raw.models[k].aliases, w \in DOMAIN raw.models[l].aliases :
              k # l \/ v # w => raw.models[k].aliases[v] # raw.models[l].aliases[w]
      BY DEF ValidUpTo, ModelsUpTo
    <2>4. raw.models[i].aliases[x] # raw.models[j].aliases[y]
      BY <1>5, <2>3
    <2> QED BY <2>1, <2>2, <2>4
  <1> QED BY <1>1, <1>2, <1>4, <1>5

(* What the parser has taken the registry does not refuse.                 *)
LEMMA NotRefused ==
  ASSUME raw \in RawConfigs, ~Passthrough, ParsedUpTo(NB, NM), ValidUpTo(NB, NM),
         NEW m \in Nat, m < NM, RegisteredUpTo(m)
  PROVE  ~Refused(models[m + 1])
  <1>1. m + 1 \in 1 .. NM /\ \A i \in 1 .. m : i \in 1 .. NM /\ i # m + 1
    BY FileShape
  <1>2. models[m + 1].id \notin DOMAIN byId
    BY <1>1, ParsedEntries DEF RegisteredUpTo
  <1>3. Elements(models[m + 1].aliases) \cap DOMAIN byAlias = {}
    <2>1. \A i \in 1 .. m :
            Elements(models[i].aliases) \cap Elements(models[m + 1].aliases) = {}
      BY <1>1, ParsedEntries
    <2>2. DOMAIN byAlias = UNION {Elements(models[i].aliases) : i \in 1 .. m}
      BY DEF RegisteredUpTo
    <2> QED BY <2>1, <2>2
  <1> QED BY <1>2, <1>3 DEF Refused

(* One more entry registered.                                              *)
LEMMA RegisteredOneMore ==
  ASSUME raw \in RawConfigs, ~Passthrough, ParsedUpTo(NB, NM), ValidUpTo(NB, NM),
         NEW m \in Nat, m < NM, RegisteredUpTo(m), UNCHANGED models,
         byId' = With(byId, [x \in {models[m + 1].id} |-> models[m + 1]]),
         byAlias' = With(byAlias, [a \in Elements(models[m + 1].aliases) |->
                                     models[m + 1].id])
  PROVE  RegisteredUpTo(m + 1)'
  <1> DEFINE e == models[m + 1]
             g == [x \in {e.id} |-> e]
             h == [a \in Elements(e.aliases) |-> e.id]
  <1>1. /\ 1 .. m + 1 = 1 .. m \cup {m + 1}
        /\ m + 1 \in 1 .. NM /\ \A i \in 1 .. m : i \in 1 .. NM /\ i # m + 1
    BY FileShape
  <1>2. /\ DOMAIN g = {e.id} /\ g[e.id] = e
        /\ DOMAIN h = Elements(e.aliases) /\ \A a \in Elements(e.aliases) : h[a] = e.id
    OBVIOUS
  <1>3. /\ DOMAIN byId' = DOMAIN byId \cup {e.id} /\ byId'[e.id] = e
        /\ \A x \in DOMAIN byId \ {e.id} : byId'[x] = byId[x]
    <2>1. byId' = With(byId, g)
      OBVIOUS
    <2> HIDE DEF g, e
    <2> QED BY <1>2, <2>1 DEF With
  <1>4. /\ DOMAIN byAlias' = DOMAIN byAlias \cup Elements(e.aliases)
        /\ \A a \in Elements(e.aliases) : byAlias'[a] = e.id
        /\ \A a \in DOMAIN byAlias \ Elements(e.aliases) : byAlias'[a] = byAlias[a]
    <2>1. byAlias' = With(byAlias, h)
      OBVIOUS
    <2> HIDE DEF h, e
    <2> QED BY <1>2, <2>1 DEF With
  <1>5. /\ \A i \in 1 .. m : models[i].id # e.id
        /\ \A i \in 1 .. m : \A a \in Elements(models[i].aliases) :
             a \notin Elements(e.aliases)
    BY <1>1, ParsedEntries
  <1>6. e = models[m + 1]
    OBVIOUS
  <1> HIDE DEF e
  <1>7. /\ DOMAIN byId' = {models[i].id : i \in 1 .. m + 1}
        /\ \A i \in 1 .. m + 1 : byId'[models[i].id] = models[i]
    <2>1. /\ DOMAIN byId = {models[i].id : i \in 1 .. m}
          /\ \A i \in 1 .. m : byId[models[i].id] = models[i]
      BY DEF RegisteredUpTo
    <2>2. DOMAIN byId' = {models[i].id : i \in 1 .. m + 1}
      <3>1. {models[i].id : i \in 1 .. m \cup {m + 1}} =
              {models[i].id : i \in 1 .. m} \cup {models[m + 1].id}
        OBVIOUS
      <3> QED BY <1>1, <1>3, <1>6, <2>1, <3>1
    <2>3. ASSUME NEW i \in 1 .. m PROVE byId'[models[i].id] = models[i]
      BY <1>3, <1>5, <2>1
    <2> QED BY <1>1, <1>3, <1>6, <2>2, <2>3
  <1>8. DOMAIN byAlias' = UNION {Elements(models[i].aliases) : i \in 1 .. m + 1}
    <2>1. DOMAIN byAlias = UNION {Elements(models[i].aliases) : i \in 1 .. m}
      BY DEF RegisteredUpTo
    <2>2. UNION {Elements(models[i].aliases) : i \in 1 .. m \cup {m + 1}} =
            (UNION {Elements(models[i].aliases) : i \in 1 .. m})
              \cup Elements(models[m + 1].aliases)
      OBVIOUS
    <2> QED BY <1>1, <1>4, <1>6, <2>1, <2>2
  <1>9. \A i \in 1 .. m + 1 : \A a \in Elements(models[i].aliases) :
          byAlias'[a] = models[i].id
    <2>1. ASSUME NEW i \in 1 .. m, NEW a \in Elements(models[i].aliases)
          PROVE  byAlias'[a] = models[i].id
      <3>1. a \in DOMAIN byAlias \ Elements(e.aliases)
        BY <1>5 DEF RegisteredUpTo
      <3> QED BY <1>4, <3>1 DEF RegisteredUpTo
    <2> QED BY <1>1, <1>4, <1>6, <2>1
  <1> QED BY <1>7, <1>8, <1>9 DEF RegisteredUpTo

(* A name means the entry it is declared in.                               *)
LEMMA Meanings ==
  ASSUME raw \in RawConfigs, ~Passthrough, ParsedUpTo(NB, NM), ValidUpTo(NB, NM),
         RegisteredUpTo(NM)
  PROVE  NamesMeanTheirEntry
  <1>1. DOMAIN models = 1 .. NM
    BY ParsedEntries
  <1>2. SeenModelIds = DOMAIN byId
    BY <1>1 DEF SeenModelIds, RegisteredUpTo
  <1>3. ASSUME NEW i \in DOMAIN models
        PROVE  /\ Resolve(models[i].id) = models[i]
               /\ \A a \in Elements(models[i].aliases) :
                    a \notin SeenModelIds => Resolve(a) = models[i]
    <2>1. models[i].id \in DOMAIN byId /\ byId[models[i].id] = models[i]
      BY <1>1 DEF RegisteredUpTo
    <2>2. \A a \in Elements(models[i].aliases) : byAlias[a] = models[i].id
      BY <1>1 DEF RegisteredUpTo
    <2> QED BY <1>2, <2>1, <2>2 DEF Resolve
  <1> QED BY <1>3 DEF NamesMeanTheirEntry

-----------------------------------------------------------------------------
(* The steps of startup.                                                   *)

(* Requests and startup disturb each other's half of the state little.     *)
LEMMA FileFrame ==
  ASSUME UNCHANGED raw, NEW b, NEW m
  PROVE  /\ Passthrough' = Passthrough /\ NB' = NB /\ NM' = NM
         /\ ValidUpTo(b, m)' <=> ValidUpTo(b, m)
         /\ BackendsUpTo(b)' <=> BackendsUpTo(b)
         /\ ModelsUpTo(m)' <=> ModelsUpTo(m)
         /\ UNCHANGED parsed => (ParsedUpTo(b, m)' <=> ParsedUpTo(b, m))
         /\ UNCHANGED <<clients, opened>> => (OpenedUpTo(b)' <=> OpenedUpTo(b))
  <1>1. Passthrough' = Passthrough /\ NB' = NB /\ NM' = NM
    BY DEF Passthrough, NB, NM
  <1>2. /\ BackendsUpTo(b)' <=> BackendsUpTo(b)
        /\ ModelsUpTo(m)' <=> ModelsUpTo(m)
    BY <1>1 DEF BackendsUpTo, ModelsUpTo
  <1>3. ValidUpTo(b, m)' <=> ValidUpTo(b, m)
    BY <1>1, <1>2 DEF ValidUpTo
  <1>4. UNCHANGED parsed => (ParsedUpTo(b, m)' <=> ParsedUpTo(b, m))
    <2>1. \A i : EntryOf(raw.models[i])' = EntryOf(raw.models[i])
      BY DEF EntryOf
    <2> QED BY <2>1 DEF parsed, ParsedUpTo
  <1>5. UNCHANGED <<clients, opened>> => (OpenedUpTo(b)' <=> OpenedUpTo(b))
    BY DEF OpenedUpTo
  <1> QED BY <1>1, <1>2, <1>3, <1>4, <1>5

LEMMA RegistryFrame ==
  ASSUME NEW m, UNCHANGED <<models, byId, byAlias>>
  PROVE  RegisteredUpTo(m)' <=> RegisteredUpTo(m)
  BY DEF RegisteredUpTo, Elements

LEMMA StartupFrame ==
  ASSUME UNCHANGED <<raw, phase, n, parsed, registry>>
  PROVE  (PhaseInv => PhaseInv') /\ (RegistryInv => RegistryInv')
  <1>1. PhaseInv => PhaseInv'
    <2>1. NothingRegistered' <=> NothingRegistered
      BY DEF registry, NothingRegistered
    <2>2. /\ UNCHANGED <<phase, n, backends, models, clients, opened, byId, byAlias>>
          /\ UNCHANGED <<NB, NM, Passthrough>>
      BY FileFrame DEF parsed, registry
    <2> QED BY <2>1, <2>2, FileFrame, RegistryFrame DEF PhaseInv, parsed
  <1>2. RegistryInv => RegistryInv'
    BY DEF registry, RegistryInv
  <1> QED BY <1>1, <1>2

LEMMA RequestFrame ==
  ASSUME IndInv, UNCHANGED <<raw, requests>>, phase # "serving" \/ phase' = "serving"
  PROVE  RequestInv'
  BY DEF IndInv, RequestInv, requests

(* What the type invariant says that startup does not touch.               *)
LEMMA TypeFrame ==
  ASSUME TypeOK, UNCHANGED <<loaded, allowed, requests>>,
         phase' \in Phases, n' \in Nat, backends' \in Seq(BackendId),
         models' \in Seq(ModelEntry),
         clients' \subseteq BackendId \cup {Absent}, opened' \subseteq BackendId,
         DOMAIN byId' \subseteq Name, \A x \in DOMAIN byId' : byId'[x] \in ModelEntry,
         DOMAIN byAlias' \subseteq Name, \A x \in DOMAIN byAlias' : byAlias'[x] \in Name
  PROVE  TypeOK'
  BY DEF TypeOK, requests

LEMMA EmptyFile ==
  ASSUME raw \in RawConfigs, ~Passthrough, raw.backends = <<>> \/ raw.models = <<>>
  PROVE  ~ValidUpTo(NB, NM)
  BY FileShape DEF ValidUpTo

(* A startup that fails leaves everything but the phase.                   *)
LEMMA FailStep ==
  ASSUME IndInv, Fail, phase # "serving", ~Passthrough, ~ValidUpTo(NB, NM)
  PROVE  IndInv'
  <1>1. TypeOK'
    BY DEF IndInv, TypeOK, Fail, parsed, registry, requests, Phases
  <1>2. ~ValidUpTo(NB, NM)' /\ ~Passthrough'
    BY FileFrame DEF Fail
  <1>3. PhaseInv'
    BY <1>2 DEF PhaseInv, Fail
  <1>4. RegistryInv' /\ RequestInv'
    BY DEF IndInv, RegistryInv, RequestInv, Fail, registry, requests
  <1> QED BY <1>1, <1>3, <1>4 DEF IndInv

LEMMA InitIndInv == Init => IndInv
  <1> SUFFICES ASSUME Init PROVE IndInv
    OBVIOUS
  <1>1. TypeOK
    <2>1. /\ phase \in Phases /\ n \in Nat
          /\ backends \in Seq(BackendId) /\ models \in Seq(ModelEntry)
          /\ clients \subseteq BackendId \cup {Absent} /\ opened \subseteq BackendId
      BY DEF Init, Phases
    <2>2. DOMAIN byId = {} /\ DOMAIN byAlias = {}
      BY DEF Init
    <2>3. /\ loaded \in (SUBSET Name) \cup {Malformed}
          /\ allowed \in [Client -> Policies \cup {Malformed}]
          /\ asked \in [Client -> [name : Name, may : Policies] \cup {Idle}]
      BY DEF Init
    <2>4. \A c \in Client : decision[c].outcome \in Outcomes
      BY DEF Init, Outcomes, Undecided
    <2> QED BY <2>1, <2>2, <2>3, <2>4 DEF TypeOK
  <1>2. PhaseInv
    BY DEF Init, PhaseInv, NothingRegistered
  <1>3. RegistryInv /\ RequestInv
    BY DEF Init, RegistryInv, RequestInv
  <1> QED BY <1>1, <1>2, <1>3 DEF IndInv

LEMMA OpenDefaultStep == IndInv /\ OpenDefault => IndInv'
  <1> SUFFICES ASSUME IndInv, OpenDefault PROVE IndInv'
    OBVIOUS
  <1>1. /\ n = 1 /\ backends = <<>> /\ models = <<>> /\ clients = {} /\ opened = {}
        /\ NothingRegistered /\ raw \in RawConfigs
    BY DEF IndInv, PhaseInv, OpenDefault, RequestInv
  <1>2. TypeOK'
    BY DEF IndInv, TypeOK, OpenDefault, parsed, requests, Phases
  <1>3. PhaseInv'
    <2>1. CASE Passthrough
      <3>1. phase' = "serving" /\ Passthrough' /\ clients' = {Absent}
        BY <1>1, <2>1 DEF OpenDefault, Passthrough
      <3> QED BY <1>1, <3>1 DEF PhaseInv, OpenDefault, parsed, NothingRegistered
    <2>2. CASE ~Passthrough
      <3>1. phase' = "backends" /\ ~Passthrough' /\ clients' = {Absent}
        BY <1>1, <2>2 DEF OpenDefault, Passthrough
      <3>2. NB \in Nat /\ NM \in Nat /\ UNCHANGED <<NB, NM, n, backends, models, raw>>
        BY <1>1, <2>2, FileShape DEF OpenDefault, parsed, NB, NM
      <3>3. n' \in 1 .. NB' + 1 /\ ~(n' > 1) /\ n' - 1 = 0
        BY <1>1, <3>2
      <3>4. ParsedUpTo(0, 0)' /\ BackendsUpTo(0)'
        BY <1>1, <3>2 DEF ParsedUpTo, BackendsUpTo
      <3>5. opened' = {} /\ NothingRegistered'
        BY <1>1 DEF OpenDefault, NothingRegistered
      <3> QED BY <3>1, <3>3, <3>4, <3>5 DEF PhaseInv
    <2> QED BY <2>1, <2>2
  <1>4. RegistryInv' /\ RequestInv'
    BY DEF IndInv, RegistryInv, RequestInv, OpenDefault, requests
  <1> QED BY <1>2, <1>3, <1>4 DEF IndInv

LEMMA RejectEmptyStep == IndInv /\ RejectEmpty => IndInv'
  <1> SUFFICES ASSUME IndInv, RejectEmpty PROVE IndInv'
    OBVIOUS
  <1>1. ~Passthrough /\ raw \in RawConfigs /\ phase # "serving" /\ Fail
    BY DEF IndInv, PhaseInv, RequestInv, RejectEmpty
  <1> QED BY <1>1, EmptyFile, FailStep DEF RejectEmpty

LEMMA ParseBackendStep == IndInv /\ ParseBackend => IndInv'
  <1> SUFFICES ASSUME IndInv, ParseBackend PROVE IndInv'
    OBVIOUS
  <1> DEFINE b == raw.backends[n]
  <1>1. /\ phase = "backends" /\ ~Passthrough /\ raw \in RawConfigs /\ n \in Nat
        /\ n <= NB /\ raw.models # <<>>
        /\ ParsedUpTo(n - 1, 0) /\ BackendsUpTo(n - 1)
        /\ clients = {Absent} /\ opened = {} /\ NothingRegistered
    BY DEF IndInv, TypeOK, PhaseInv, RequestInv, ParseBackend, NB
  <1>2. /\ n \in 1 .. NB + 1 /\ NB \in Nat /\ NM \in Nat /\ NM > 0
    BY <1>1, FileShape DEF IndInv, PhaseInv
  <1>3. /\ n - 1 \in Nat /\ n - 1 < NB /\ (n - 1) + 1 = n /\ n \in 1 .. NB /\ NB > 0
    BY <1>1, <1>2
  <1>4. PICK k \in Nat : k = n
    BY <1>1
  <1>5. BackendAccepted(b) <=> BackendsUpTo(k)
    BY <1>1, <1>3, <1>4, BackendAcceptedIff
  <1>6. CASE BackendAccepted(b) /\ ~Fail
    <2>1. /\ backends' = Append(backends, b.id)
          /\ n' = IF n = NB THEN 1 ELSE n + 1
          /\ phase' = IF n = NB THEN "models" ELSE phase
          /\ UNCHANGED <<raw, models, registry, loaded, allowed, requests>>
      BY <1>6 DEF ParseBackend, NB
    <2>2. b.id \in BackendId
      BY <1>1, <1>3, <1>6, FileShape DEF BackendAccepted, RawBackend
    <2>3. /\ backends' \in Seq(BackendId) /\ Len(backends') = n
          /\ \A i \in 1 .. n : backends'[i] = raw.backends[i].id
      BY <1>1, <1>3, <2>1, <2>2 DEF ParsedUpTo
    <2>4. ParsedUpTo(k, 0)'
      <3>1. models' = models
        BY <2>1
      <3>2. models' \in Seq(ModelEntry) /\ Len(models') = 0 /\ 1 .. 0 = {}
        BY <1>1, <3>1 DEF ParsedUpTo
      <3>3. k = n /\ raw' = raw
        BY <1>4, <2>1
      <3> QED BY <2>3, <3>2, <3>3 DEF ParsedUpTo
    <2>5. BackendsUpTo(k)' /\ NB' = NB /\ NM' = NM /\ ~Passthrough'
      BY <1>1, <1>5, <1>6, <2>1, FileFrame
    <2>6. /\ clients' = {Absent} /\ opened' = {} /\ NothingRegistered'
          /\ raw' \in RawConfigs
      BY <1>1, <2>1 DEF registry, NothingRegistered
    <2>7. PhaseInv'
      <3>1. CASE n = NB
        <4>1. phase' = "models" /\ n' = 1 /\ n' - 1 = 0 /\ n' \in 1 .. NM'
          BY <1>2, <2>1, <2>5, <3>1
        <4>2. ParsedUpTo(NB, n - 1)' /\ BackendsUpTo(NB)'
          BY <1>4, <2>4, <2>5, <3>1, <4>1
        <4>3. ModelsUpTo(n - 1)'
          BY <4>1 DEF ModelsUpTo
        <4>4. ValidUpTo(NB, n - 1)'
          BY <1>2, <1>3, <2>5, <4>2, <4>3 DEF ValidUpTo
        <4> QED BY <2>5, <2>6, <4>1, <4>2, <4>4 DEF PhaseInv
      <3>2. CASE n # NB
        <4>1. /\ phase' = "backends" /\ n' = n + 1 /\ n' - 1 = n
              /\ n' \in 1 .. NB' + 1 /\ n' <= NB' /\ NM' > 0
          <5>1. phase' = "backends" /\ n' = n + 1
            BY <1>1, <2>1, <3>2
          <5>2. n \in 1 .. NB /\ n + 1 \in 1 .. NB + 1 /\ n + 1 <= NB /\ (n + 1) - 1 = n
            BY <1>2, <1>3, <3>2
          <5> QED BY <1>2, <2>5, <5>1, <5>2
        <4>2. ParsedUpTo(n - 1, 0)' /\ BackendsUpTo(n - 1)'
          BY <1>4, <2>4, <2>5, <4>1
        <4> QED BY <2>5, <2>6, <4>1, <4>2 DEF PhaseInv
      <3> QED BY <3>1, <3>2
    <2>8. TypeOK'
      <3>1. phase' \in Phases /\ n' \in Nat
        BY <1>1, <1>3, <2>1 DEF Phases
      <3>2. /\ models' \in Seq(ModelEntry) /\ clients' \subseteq BackendId \cup {Absent}
            /\ opened' \subseteq BackendId
            /\ DOMAIN byId' \subseteq Name
            /\ \A x \in DOMAIN byId' : byId'[x] \in ModelEntry
            /\ DOMAIN byAlias' \subseteq Name
            /\ \A x \in DOMAIN byAlias' : byAlias'[x] \in Name
        BY <2>1 DEF IndInv, TypeOK, registry
      <3> QED BY <2>1, <2>3, <3>1, <3>2, TypeFrame DEF IndInv
    <2>9. RegistryInv' /\ RequestInv'
      BY <1>1, <2>1, RequestFrame DEF IndInv, RegistryInv, registry
    <2> QED BY <2>7, <2>8, <2>9 DEF IndInv
  <1>7. CASE ~BackendAccepted(b) /\ Fail
    <2>1. ~BackendsUpTo(k) /\ k <= NB
      BY <1>3, <1>4, <1>5, <1>7
    <2> HIDE DEF b
    <2>2. ~BackendsUpTo(NB)
      BY <1>2, <2>1, BackendsPrefix
    <2>3. ~ValidUpTo(NB, NM)
      BY <2>2 DEF ValidUpTo
    <2> QED BY <1>1, <1>7, <2>3, FailStep
  <1>8. /\ BackendAccepted(b) \/ (~BackendAccepted(b) /\ Fail)
        /\ BackendAccepted(b) => ~Fail
    <2>1. ASSUME BackendAccepted(b) PROVE ~Fail
      <3>1. phase' \in {"backends", "models"}
        BY <1>1, <2>1 DEF ParseBackend
      <3> QED BY <3>1 DEF Fail
    <2> QED BY <2>1 DEF ParseBackend
  <1> QED BY <1>6, <1>7, <1>8

LEMMA ParseModelStep == IndInv /\ ParseModel => IndInv'
  <1> SUFFICES ASSUME IndInv, ParseModel PROVE IndInv'
    OBVIOUS
  <1> DEFINE m == raw.models[n]
  <1>1. /\ phase = "models" /\ ~Passthrough /\ raw \in RawConfigs /\ n \in Nat
        /\ ParsedUpTo(NB, n - 1) /\ ValidUpTo(NB, n - 1)
        /\ clients = {Absent} /\ opened = {} /\ NothingRegistered
    BY DEF IndInv, TypeOK, PhaseInv, RequestInv, ParseModel
  <1>2. /\ n \in 1 .. NM /\ NB \in Nat /\ NM \in Nat /\ NB > 0 /\ NM > 0
        /\ BackendsUpTo(NB) /\ ModelsUpTo(n - 1)
    BY <1>1, FileShape DEF IndInv, PhaseInv, ParseModel, ValidUpTo
  <1>3. n - 1 \in Nat /\ n - 1 < NM /\ (n - 1) + 1 = n
    BY <1>1, <1>2
  <1>4. PICK k \in Nat, b \in Nat : k = n /\ b = NB
    BY <1>1, <1>2
  <1>5. ModelAccepted(m) <=> ModelsUpTo(k)
    BY <1>1, <1>2, <1>3, <1>4, ModelAcceptedIff
  <1>6. CASE ModelAccepted(m) /\ ~Fail
    <2>1. /\ models' = Append(models, EntryOf(m))
          /\ n' = IF n = NM THEN 1 ELSE n + 1
          /\ phase' = IF n = NM THEN "open" ELSE phase
          /\ UNCHANGED <<raw, backends, registry, loaded, allowed, requests>>
      BY <1>6 DEF ParseModel, NM
    <2>2. EntryOf(m) \in ModelEntry
      <3>1. m \in RawModel /\ m.id # Malformed /\ m.native # Malformed
        BY <1>1, <1>2, <1>6, FileShape DEF ModelAccepted
      <3>2. m.backend # Malformed
        BY <1>1, <1>6, RoutingAssumption DEF ModelAccepted, Elements, ParsedUpTo
      <3>3. \A x \in DOMAIN m.aliases : m.aliases[x] # Malformed
        BY <1>6 DEF ModelAccepted, AliasesAccepted
      <3> HIDE DEF m
      <3> QED BY <3>1, <3>2, <3>3, EntryType
    <2>3. /\ models' \in Seq(ModelEntry) /\ Len(models') = n
          /\ \A i \in 1 .. n : models'[i] = EntryOf(raw.models[i])
      <3>1. models \in Seq(ModelEntry) /\ Len(models) = n - 1
        BY <1>1 DEF ParsedUpTo
      <3>2. \A i \in 1 .. n - 1 : models[i] = EntryOf(raw.models[i])
        BY <1>1 DEF ParsedUpTo
      <3> DEFINE e == EntryOf(m)
      <3>3. e = EntryOf(raw.models[n]) /\ e \in ModelEntry /\ models' = Append(models, e)
        BY <2>1, <2>2
      <3> HIDE DEF e
      <3> QED BY <1>1, <1>3, <3>1, <3>2, <3>3
    <2>4. ParsedUpTo(b, k)'
      <3>1. UNCHANGED <<raw, backends>>
        BY <2>1
      <3>2. \A x : EntryOf(x)' = EntryOf(x)
        BY DEF EntryOf
      <3>3. backends \in Seq(BackendId) /\ Len(backends) = b
            /\ \A i \in 1 .. b : backends[i] = raw.backends[i].id
        BY <1>1, <1>4 DEF ParsedUpTo
      <3>4. \A i \in 1 .. k : models'[i] = EntryOf(raw'.models[i])
        BY <1>4, <2>3, <3>1, <3>2
      <3> QED BY <1>4, <2>3, <3>1, <3>3, <3>4 DEF ParsedUpTo
    <2>5. /\ BackendsUpTo(b)' /\ ModelsUpTo(k)'
          /\ NB' = NB /\ NM' = NM /\ ~Passthrough'
      BY <1>1, <1>2, <1>4, <1>5, <1>6, <2>1, FileFrame
    <2>6. /\ clients' = {Absent} /\ opened' = {} /\ NothingRegistered'
          /\ raw' \in RawConfigs
      BY <1>1, <2>1 DEF registry, NothingRegistered
    <2>7. PhaseInv'
      <3>1. ValidUpTo(b, k)'
        BY <1>2, <2>5 DEF ValidUpTo
      <3>2. CASE n = NM
        <4>1. phase' = "open" /\ n' = 1 /\ n' - 1 = 0 /\ n' \in 1 .. NB'
          BY <1>2, <2>1, <2>5, <3>2
        <4>2. ParsedUpTo(NB, NM)' /\ ValidUpTo(NB, NM)'
          BY <1>4, <2>4, <2>5, <3>1, <3>2
        <4>3. OpenedUpTo(n - 1)'
          BY <2>6, <4>1 DEF OpenedUpTo
        <4> QED BY <2>5, <2>6, <4>1, <4>2, <4>3 DEF PhaseInv
      <3>3. CASE n # NM
        <4>1. phase' = "models" /\ n' = n + 1
          BY <1>1, <2>1, <3>3
        <4>2. n' - 1 = n /\ n' \in 1 .. NM'
          BY <1>2, <2>5, <3>3, <4>1
        <4>3. ParsedUpTo(NB, n - 1)' /\ ValidUpTo(NB, n - 1)'
          BY <1>4, <2>4, <2>5, <3>1, <4>2
        <4> QED BY <2>5, <2>6, <4>1, <4>2, <4>3 DEF PhaseInv
      <3> QED BY <3>2, <3>3
    <2>8. TypeOK'
      <3>1. phase' \in Phases /\ n' \in Nat
        BY <1>1, <1>3, <2>1 DEF Phases
      <3>2. /\ backends' \in Seq(BackendId) /\ clients' \subseteq BackendId \cup {Absent}
            /\ opened' \subseteq BackendId
            /\ DOMAIN byId' \subseteq Name
            /\ \A x \in DOMAIN byId' : byId'[x] \in ModelEntry
            /\ DOMAIN byAlias' \subseteq Name
            /\ \A x \in DOMAIN byAlias' : byAlias'[x] \in Name
        BY <2>1 DEF IndInv, TypeOK, registry
      <3> QED BY <2>1, <2>3, <3>1, <3>2, TypeFrame DEF IndInv
    <2>9. RegistryInv' /\ RequestInv'
      BY <1>1, <2>1, RequestFrame DEF IndInv, RegistryInv, registry
    <2> QED BY <2>7, <2>8, <2>9 DEF IndInv
  <1>7. CASE ~ModelAccepted(m) /\ Fail
    <2>1. ~ModelsUpTo(k) /\ k <= NM
      BY <1>2, <1>4, <1>5, <1>7
    <2> HIDE DEF m
    <2>2. ~ModelsUpTo(NM)
      BY <1>2, <2>1, ModelsPrefix
    <2>3. ~ValidUpTo(NB, NM)
      BY <2>2 DEF ValidUpTo
    <2> QED BY <1>1, <1>7, <2>3, FailStep
  <1>8. /\ ModelAccepted(m) \/ (~ModelAccepted(m) /\ Fail)
        /\ ModelAccepted(m) => ~Fail
    <2>1. ASSUME ModelAccepted(m) PROVE ~Fail
      <3>1. phase' \in {"models", "open"}
        BY <1>1, <2>1 DEF ParseModel
      <3> QED BY <3>1 DEF Fail
    <2> QED BY <2>1 DEF ParseModel
  <1> QED BY <1>6, <1>7, <1>8

LEMMA OpenBackendStep == IndInv /\ OpenBackend => IndInv'
  <1> SUFFICES ASSUME IndInv, OpenBackend PROVE IndInv'
    OBVIOUS
  <1>1. /\ phase = "open" /\ ~Passthrough /\ raw \in RawConfigs /\ n \in 1 .. NB
        /\ ParsedUpTo(NB, NM) /\ ValidUpTo(NB, NM) /\ OpenedUpTo(n - 1)
        /\ NothingRegistered
    BY DEF IndInv, PhaseInv, RequestInv, OpenBackend
  <1>2. NB \in Nat /\ NM \in Nat /\ NB > 0 /\ NM > 0
    BY <1>1, FileShape DEF ValidUpTo
  <1>3. PICK k \in Nat, b \in Nat, m \in Nat : k = n /\ b = NB /\ m = NM
    BY <1>1, <1>2
  <1>4. /\ clients' = clients \cup {backends[n]} /\ opened' = opened \cup {backends[n]}
        /\ n' = IF n = NB THEN 1 ELSE n + 1
        /\ phase' = IF n = NB THEN "register" ELSE phase
        /\ UNCHANGED <<raw, parsed, byId, byAlias, loaded, allowed, requests>>
    <2>1. Len(backends) = NB
      BY <1>1 DEF ParsedUpTo
    <2> QED BY <2>1 DEF OpenBackend
  <1>5. backends[n] = raw.backends[n].id /\ backends[n] \in BackendId
    BY <1>1, <1>2 DEF ParsedUpTo
  <1>6. OpenedUpTo(k)'
    <2>1. opened' = {raw.backends[i].id : i \in 1 .. n}
      <3>1. 1 .. n = 1 .. n - 1 \cup {n}
        BY <1>1, <1>2
      <3>2. {raw.backends[i].id : i \in 1 .. n - 1 \cup {n}} =
              {raw.backends[i].id : i \in 1 .. n - 1} \cup {raw.backends[n].id}
        OBVIOUS
      <3> QED BY <1>1, <1>4, <1>5, <3>1, <3>2 DEF OpenedUpTo
    <2>2. clients' = {Absent} \cup opened'
      BY <1>1, <1>4 DEF OpenedUpTo
    <2>3. raw' = raw
      BY <1>4
    <2> QED BY <1>3, <2>1, <2>2, <2>3 DEF OpenedUpTo
  <1>7. /\ ParsedUpTo(b, m)' /\ ValidUpTo(b, m)' /\ NB' = NB /\ NM' = NM /\ ~Passthrough'
        /\ NothingRegistered'
    BY <1>1, <1>3, <1>4, FileFrame DEF NothingRegistered
  <1>8. PhaseInv'
    <2>1. CASE n = NB
      <3>1. phase' = "register" /\ n' = 1 /\ n' - 1 = 0 /\ n' \in 1 .. NM'
        BY <1>2, <1>4, <1>7, <2>1
      <3>2. ParsedUpTo(NB, NM)' /\ ValidUpTo(NB, NM)' /\ OpenedUpTo(NB)'
        BY <1>3, <1>6, <1>7, <2>1
      <3>3. RegisteredUpTo(n - 1)'
        BY <1>7, <3>1 DEF RegisteredUpTo, NothingRegistered
      <3> QED BY <1>7, <3>1, <3>2, <3>3 DEF PhaseInv
    <2>2. CASE n # NB
      <3>1. phase' = "open" /\ n' = n + 1
        BY <1>1, <1>4, <2>2
      <3>2. n' - 1 = n /\ n' \in 1 .. NB'
        BY <1>1, <1>2, <1>7, <2>2, <3>1
      <3>3. ParsedUpTo(NB, NM)' /\ ValidUpTo(NB, NM)' /\ OpenedUpTo(n - 1)'
        BY <1>3, <1>6, <1>7, <3>2
      <3> QED BY <1>7, <3>1, <3>2, <3>3 DEF PhaseInv
    <2> QED BY <2>1, <2>2
  <1>9. TypeOK'
    <2>1. phase' \in Phases /\ n' \in Nat
      BY <1>1, <1>4 DEF Phases
    <2>2. /\ backends' \in Seq(BackendId) /\ models' \in Seq(ModelEntry)
          /\ clients' \subseteq BackendId \cup {Absent} /\ opened' \subseteq BackendId
          /\ DOMAIN byId' \subseteq Name
          /\ \A x \in DOMAIN byId' : byId'[x] \in ModelEntry
          /\ DOMAIN byAlias' \subseteq Name
          /\ \A x \in DOMAIN byAlias' : byAlias'[x] \in Name
      BY <1>4, <1>5 DEF IndInv, TypeOK, parsed
    <2> QED BY <1>4, <2>1, <2>2, TypeFrame DEF IndInv
  <1>10. RegistryInv' /\ RequestInv'
    BY <1>1, <1>4, RequestFrame DEF IndInv, RegistryInv
  <1> QED BY <1>8, <1>9, <1>10 DEF IndInv

LEMMA RegisterEntryStep == IndInv /\ RegisterEntry => IndInv'
  <1> SUFFICES ASSUME IndInv, RegisterEntry PROVE IndInv'
    OBVIOUS
  <1> DEFINE e == models[n]
  <1>1. /\ phase = "register" /\ ~Passthrough /\ raw \in RawConfigs /\ n \in 1 .. NM
        /\ ParsedUpTo(NB, NM) /\ ValidUpTo(NB, NM) /\ OpenedUpTo(NB)
        /\ RegisteredUpTo(n - 1)
    BY DEF IndInv, PhaseInv, RequestInv, RegisterEntry
  <1>2. NB \in Nat /\ NM \in Nat /\ NB > 0 /\ NM > 0
    BY <1>1, FileShape DEF ValidUpTo
  <1>3. PICK k \in Nat, b \in Nat, m \in Nat : k = n - 1 /\ b = NB /\ m = NM
    BY <1>1, <1>2
  <1>4. k + 1 = n /\ k < NM /\ n \in Nat
    BY <1>1, <1>2, <1>3
  <1>5. ~Refused(e)
    BY <1>1, <1>3, <1>4, NotRefused
  <1>6. /\ byId' = With(byId, [x \in {e.id} |-> e])
        /\ byAlias' = With(byAlias, [a \in Elements(e.aliases) |-> e.id])
        /\ n' = IF n = NM THEN 1 ELSE n + 1
        /\ phase' = IF n = NM THEN "serving" ELSE phase
        /\ UNCHANGED <<raw, parsed, clients, opened, loaded, allowed, requests>>
    <2>1. Len(models) = NM
      BY <1>1 DEF ParsedUpTo
    <2> QED BY <1>5, <2>1 DEF RegisterEntry
  <1>7. RegisteredUpTo(k + 1)'
    <2>1. UNCHANGED models
      BY <1>6 DEF parsed
    <2> QED BY <1>1, <1>3, <1>4, <1>6, <2>1, RegisteredOneMore
  <1>8. /\ ParsedUpTo(b, m)' /\ ValidUpTo(b, m)' /\ OpenedUpTo(b)'
        /\ NB' = NB /\ NM' = NM /\ ~Passthrough'
    BY <1>1, <1>3, <1>6, FileFrame
  <1>9. PhaseInv'
    <2>1. CASE n = NM
      <3>1. phase' = "serving"
        BY <1>6, <2>1
      <3>2. ParsedUpTo(NB, NM)' /\ ValidUpTo(NB, NM)' /\ OpenedUpTo(NB)'
            /\ RegisteredUpTo(NM)'
        BY <1>3, <1>4, <1>7, <1>8, <2>1
      <3> QED BY <1>8, <3>1, <3>2 DEF PhaseInv
    <2>2. CASE n # NM
      <3>1. phase' = "register" /\ n' = n + 1
        BY <1>1, <1>6, <2>2
      <3>2. n' - 1 = k + 1 /\ n' \in 1 .. NM'
        BY <1>1, <1>2, <1>4, <1>8, <2>2, <3>1
      <3>3. ParsedUpTo(NB, NM)' /\ ValidUpTo(NB, NM)' /\ OpenedUpTo(NB)'
            /\ RegisteredUpTo(n - 1)'
        BY <1>3, <1>7, <1>8, <3>2
      <3> QED BY <1>8, <3>1, <3>2, <3>3 DEF PhaseInv
    <2> QED BY <2>1, <2>2
  <1>10. e \in ModelEntry
    BY <1>1, ParsedEntries
  <1>11. /\ e.id \in Name /\ Elements(e.aliases) \subseteq Name
    BY <1>10 DEF ModelEntry, Elements
  <1>12. /\ DOMAIN byId' = DOMAIN byId \cup {e.id}
         /\ \A x \in DOMAIN byId' : byId'[x] = IF x = e.id THEN e ELSE byId[x]
         /\ DOMAIN byAlias' = DOMAIN byAlias \cup Elements(e.aliases)
         /\ \A a \in DOMAIN byAlias' :
              byAlias'[a] = IF a \in Elements(e.aliases) THEN e.id ELSE byAlias[a]
    <2> HIDE DEF e
    <2> QED BY <1>6 DEF With
  <1>13. TypeOK'
    <2> HIDE DEF e
    <2>1. phase' \in Phases /\ n' \in Nat
      BY <1>1, <1>4, <1>6 DEF Phases
    <2>2. /\ backends' \in Seq(BackendId) /\ models' \in Seq(ModelEntry)
          /\ clients' \subseteq BackendId \cup {Absent} /\ opened' \subseteq BackendId
      BY <1>6 DEF IndInv, TypeOK, parsed
    <2>3. /\ DOMAIN byId' \subseteq Name
          /\ \A x \in DOMAIN byId' : byId'[x] \in ModelEntry
      BY <1>10, <1>11, <1>12 DEF IndInv, TypeOK
    <2>4. /\ DOMAIN byAlias' \subseteq Name
          /\ \A x \in DOMAIN byAlias' : byAlias'[x] \in Name
      BY <1>11, <1>12 DEF IndInv, TypeOK
    <2> QED BY <1>6, <2>1, <2>2, <2>3, <2>4, TypeFrame DEF IndInv
  <1>14. RegistryInv'
    <2> HIDE DEF e
    <2> QED BY <1>12 DEF IndInv, RegistryInv
  <1>15. RequestInv'
    BY <1>1, <1>6, RequestFrame
  <1> QED BY <1>9, <1>13, <1>14, <1>15 DEF IndInv

-----------------------------------------------------------------------------
(* The steps of requests.                                                  *)

(* What a request that is let through is told.                             *)
LEMMA RouteTells ==
  ASSUME IndInv, NEW name \in Name, NEW may \in Policies,
         Route(name, may).outcome = "routed"
  PROVE  \E id \in DOMAIN byId :
           /\ Route(name, may) = Routed(name, id, byId[id].backend, byId[id].native)
           /\ byId[id].enabled /\ CanUse(may, id)
  <1> DEFINE e == Resolve(name)
  <1>1. Known(name) /\ e.enabled /\ CanUse(may, e.id) /\ e.backend \in opened
        /\ Route(name, may) = Routed(name, e.id, e.backend, e.native)
    BY DEF Route, Failure
  <1>2. \E x \in DOMAIN byId : e = byId[x]
    <2>1. CASE name \in DOMAIN byId
      BY <2>1 DEF Resolve
    <2>2. CASE name \in DOMAIN byAlias /\ name \notin DOMAIN byId
      BY <2>2 DEF Resolve, IndInv, RegistryInv
    <2> QED BY <1>1, <2>1, <2>2 DEF Known
  <1>3. PICK x \in DOMAIN byId : e = byId[x]
    BY <1>2
  <1>4. byId[x].id = x
    BY DEF IndInv, RegistryInv
  <1> HIDE DEF e
  <1> QED BY <1>1, <1>3, <1>4

LEMMA RouteFails ==
  ASSUME NEW name, NEW may, Route(name, may).outcome # "routed"
  PROVE  Route(name, may).outcome \in Outcomes
  BY DEF Route, Failure, Routed, Outcomes

LEMMA PassThroughTells ==
  ASSUME TypeOK, NEW name \in Name, NEW may
  PROVE  \/ PassThrough(name, may) = Routed(name, name, Absent, name)
         \/ PassThrough(name, may).outcome \in Outcomes
  BY DEF PassThrough, Failure, Outcomes

LEMMA AnswerType ==
  ASSUME IndInv, NEW name \in Name, NEW may \in Policies
  PROVE  LET d == Answer(name, may) IN
           \/ d.outcome \in Outcomes
           \/ d \in [outcome : {"routed"}, name : Name, id : Name,
                     backend : BackendId \cup {Absent}, native : Native \cup Name]
  <1>1. CASE Passthrough
    <2>1. Answer(name, may) = PassThrough(name, may)
      BY <1>1 DEF Answer
    <2> QED BY <2>1, PassThroughTells DEF IndInv, Routed
  <1>2. CASE ~Passthrough /\ Route(name, may).outcome # "routed"
    BY <1>2, RouteFails DEF Answer
  <1>3. CASE ~Passthrough /\ Route(name, may).outcome = "routed"
    <2>1. PICK id \in DOMAIN byId :
            Route(name, may) = Routed(name, id, byId[id].backend, byId[id].native)
      BY <1>3, RouteTells
    <2>2. id \in Name /\ byId[id] \in ModelEntry
      BY DEF IndInv, TypeOK
    <2>3. byId[id].backend \in BackendId /\ byId[id].native \in Native \cup Name
      BY <2>2 DEF ModelEntry
    <2> QED BY <1>3, <2>1, <2>2, <2>3 DEF Answer, Routed
  <1> QED BY <1>1, <1>2, <1>3

(* A request waits with a name and the policy of its client.               *)
LEMMA AskedType ==
  ASSUME TypeOK, NEW c \in Client, asked[c] # Idle
  PROVE  asked[c].name \in Name /\ asked[c].may \in Policies
  BY DEF TypeOK

LEMMA AuthenticateStep ==
  ASSUME IndInv, NEW c \in Client, NEW name \in Name, Authenticate(c, name)
  PROVE  IndInv'
  <1>1. PhaseInv' /\ RegistryInv'
    BY StartupFrame DEF IndInv, Authenticate
  <1>2. allowed[c] \in Policies
    BY DEF IndInv, TypeOK, Authenticate
  <1>3. asked' \in [Client -> [name : Name, may : Policies] \cup {Idle}]
    BY <1>2 DEF IndInv, TypeOK, Authenticate
  <1>4. /\ decision' = [x \in Client |-> decision'[x]]
        /\ \A x \in Client : decision'[x] = IF x = c THEN Undecided ELSE decision[x]
    BY DEF IndInv, RequestInv, Authenticate
  <1>5. TypeOK'
    <2>1. \A x \in Client :
            \/ decision'[x].outcome \in Outcomes
            \/ decision'[x] \in [outcome : {"routed"}, name : Name, id : Name,
                                 backend : BackendId \cup {Absent},
                                 native : Native \cup Name]
      BY <1>4 DEF IndInv, TypeOK, Undecided, Outcomes
    <2> QED BY <1>3, <2>1 DEF IndInv, TypeOK, Authenticate, parsed, registry
  <1>6. RequestInv'
    BY <1>4 DEF IndInv, RequestInv, Authenticate
  <1> QED BY <1>1, <1>5, <1>6 DEF IndInv

LEMMA DecideStep ==
  ASSUME IndInv, NEW c \in Client, Decide(c)
  PROVE  IndInv'
  <1>1. PhaseInv' /\ RegistryInv'
    BY StartupFrame DEF IndInv, Decide
  <1>2. phase = "serving"
    BY DEF IndInv, RequestInv, Decide
  <1>3. asked' \in [Client -> [name : Name, may : Policies] \cup {Idle}]
    BY DEF IndInv, TypeOK, Decide
  <1> DEFINE d == Answer(asked[c].name, asked[c].may)
  <1>4. /\ decision' = [x \in Client |-> decision'[x]]
        /\ \A x \in Client : decision'[x] = IF x = c THEN d ELSE decision[x]
    <2>1. decision' = [decision EXCEPT ![c] = d] /\ DOMAIN decision = Client
      BY DEF IndInv, RequestInv, Decide
    <2> HIDE DEF d
    <2> QED BY <2>1
  <1>5. TypeOK'
    <2>1. \/ d.outcome \in Outcomes
          \/ d \in [outcome : {"routed"}, name : Name, id : Name,
                    backend : BackendId \cup {Absent}, native : Native \cup Name]
      BY AskedType, AnswerType DEF IndInv, Decide
    <2> HIDE DEF d
    <2>2. \A x \in Client :
            \/ decision'[x].outcome \in Outcomes
            \/ decision'[x] \in [outcome : {"routed"}, name : Name, id : Name,
                                 backend : BackendId \cup {Absent},
                                 native : Native \cup Name]
      BY <1>4, <2>1 DEF IndInv, TypeOK
    <2> QED BY <1>3, <2>2 DEF IndInv, TypeOK, Decide, parsed, registry
  <1>6. RequestInv'
    BY <1>2, <1>4 DEF IndInv, RequestInv, Decide
  <1> QED BY <1>1, <1>5, <1>6 DEF IndInv

LEMMA CreateClientStep ==
  ASSUME IndInv, NEW c \in Client, CreateClient(c)
  PROVE  IndInv'
  <1>1. PhaseInv' /\ RegistryInv'
    BY StartupFrame DEF IndInv, CreateClient
  <1>2. PICK may \in Policies : allowed' = [allowed EXCEPT ![c] = may]
    BY DEF CreateClient
  <1>3. TypeOK'
    BY <1>2 DEF IndInv, TypeOK, CreateClient, parsed, registry, requests
  <1>4. RequestInv'
    BY DEF IndInv, RequestInv, CreateClient, requests
  <1> QED BY <1>1, <1>3, <1>4 DEF IndInv

LEMMA LoadOtherStep == IndInv /\ LoadOther => IndInv'
  <1> SUFFICES ASSUME IndInv, LoadOther PROVE IndInv'
    OBVIOUS
  <1>1. PhaseInv' /\ RegistryInv'
    BY StartupFrame DEF IndInv, LoadOther
  <1>2. TypeOK' /\ RequestInv'
    BY DEF IndInv, TypeOK, RequestInv, LoadOther, parsed, registry, requests
  <1> QED BY <1>1, <1>2 DEF IndInv

LEMMA ShutdownStep == IndInv /\ Shutdown => IndInv'
  <1> SUFFICES ASSUME IndInv, Shutdown PROVE IndInv'
    OBVIOUS
  <1>1. TypeOK'
    BY DEF IndInv, TypeOK, Phases, Shutdown, parsed, requests
  <1>2. PhaseInv'
    BY DEF PhaseInv, Shutdown
  <1>3. RegistryInv' /\ RequestInv'
    BY DEF IndInv, RegistryInv, RequestInv, Shutdown, requests
  <1> QED BY <1>1, <1>2, <1>3 DEF IndInv

LEMMA StepIndInv == IndInv /\ [Next]_vars => IndInv'
  <1> SUFFICES ASSUME IndInv, [Next]_vars PROVE IndInv'
    OBVIOUS
  <1>1. CASE Startup
    BY <1>1, OpenDefaultStep, RejectEmptyStep, ParseBackendStep, ParseModelStep,
       OpenBackendStep, RegisterEntryStep DEF Startup
  <1>2. ASSUME NEW c \in Client, NEW name \in Name, Authenticate(c, name)
        PROVE  IndInv'
    BY <1>2, AuthenticateStep
  <1>3. ASSUME NEW c \in Client, Decide(c) PROVE IndInv'
    BY <1>3, DecideStep
  <1>4. ASSUME NEW c \in Client, CreateClient(c) PROVE IndInv'
    BY <1>4, CreateClientStep
  <1>5. CASE LoadOther
    BY <1>5, LoadOtherStep
  <1>6. CASE Shutdown
    BY <1>6, ShutdownStep
  <1>7. CASE UNCHANGED vars
    <2>1. PhaseInv' /\ RegistryInv'
      BY <1>7, StartupFrame DEF IndInv, vars
    <2>2. TypeOK' /\ RequestInv'
      BY <1>7 DEF IndInv, TypeOK, RequestInv, vars, parsed, registry, requests
    <2> QED BY <2>1, <2>2 DEF IndInv
  <1> QED BY <1>1, <1>2, <1>3, <1>4, <1>5, <1>6, <1>7 DEF Next

-----------------------------------------------------------------------------
(* The theorems.                                                           *)

LEMMA Invariance == Spec => []IndInv
  BY InitIndInv, StepIndInv, PTL DEF Spec

(* The type invariant: whatever the file says, entries, registries and     *)
(* decisions are made of names and backends, never of a malformed or an    *)
(* absent field (parse_routing_config, RouteDecision).                     *)
THEOREM TypeCorrect == Spec => []TypeOK
  <1>1. IndInv => TypeOK
    BY DEF IndInv
  <1> QED BY <1>1, Invariance, PTL

(* The parser takes exactly the valid files, the registry refuses none of  *)
(* what the parser took, and a server that runs has all its backends open  *)
(* and every name meaning its own entry (parse_routing_config,             *)
(* ModelRegistry, build_routing).                                          *)
THEOREM StartupIsExact == Spec => []StartupExact
  <1>1. ASSUME IndInv PROVE StartupExact
    <2>1. raw \in RawConfigs
      BY <1>1 DEF IndInv, RequestInv
    <2>2. ASSUME phase \in {"open", "register", "serving"}, ~Passthrough PROVE ValidFile
      <3>1. ValidUpTo(NB, NM)
        BY <1>1, <2>2 DEF IndInv, PhaseInv
      <3> QED BY <2>1, <2>2, <3>1, ValidFileIff
    <2>3. ASSUME phase = "failed" PROVE ~ValidFile
      BY <1>1, <2>1, <2>3, ValidFileIff DEF IndInv, PhaseInv
    <2>4. ASSUME phase = "serving" PROVE BackendsOpen /\ NamesMeanTheirEntry
      <3>1. CASE Passthrough
        <4>1. models = <<>> /\ clients = {Absent}
          BY <1>1, <2>4, <3>1 DEF IndInv, PhaseInv
        <4> QED BY <3>1, <4>1 DEF BackendsOpen, NamesMeanTheirEntry
      <3>2. CASE ~Passthrough
        <4>1. /\ ParsedUpTo(NB, NM) /\ ValidUpTo(NB, NM)
              /\ OpenedUpTo(NB) /\ RegisteredUpTo(NM)
          BY <1>1, <2>4, <3>2 DEF IndInv, PhaseInv
        <4>2. BackendsOpen
          BY <2>1, <3>2, <4>1, FileShape DEF BackendsOpen, OpenedUpTo
        <4> QED BY <2>1, <3>2, <4>1, <4>2, Meanings
      <3> QED BY <3>1, <3>2
    <2> QED BY <2>2, <2>3, <2>4 DEF StartupExact
  <1> QED BY <1>1, Invariance, PTL

(* No name gets around a policy or a switched-off model, whatever aliases  *)
(* the file declares and whatever clients are created while requests wait  *)
(* (RoutingService.route, authenticate_with_orm).                          *)
THEOREM PolicyIsKept == Spec => NoBypass
  <1> DEFINE Kept(c) ==
        LET d == decision'[c] IN
        d # decision[c] /\ d.outcome = "routed" /\ ~Passthrough =>
          /\ d.id \in DOMAIN byId /\ byId[d.id].enabled
          /\ CanUse(asked[c].may, d.id)
          /\ <<d.backend, d.native>> = <<byId[d.id].backend, byId[d.id].native>>
  <1>1. IndInv /\ [Next]_vars => [\A c \in Client : Kept(c)]_vars
    <2> SUFFICES ASSUME IndInv, [Next]_vars, NEW c \in Client,
                        decision'[c] # decision[c], decision'[c].outcome = "routed",
                        ~Passthrough
                 PROVE  LET d == decision'[c] IN
                          /\ d.id \in DOMAIN byId /\ byId[d.id].enabled
                          /\ CanUse(asked[c].may, d.id)
                          /\ <<d.backend, d.native>> =
                               <<byId[d.id].backend, byId[d.id].native>>
      OBVIOUS
    <2>1. DOMAIN decision = Client
      BY DEF IndInv, RequestInv
    <2>2. CASE UNCHANGED requests
      BY <2>2 DEF requests
    <2>3. ASSUME NEW x \in Client, NEW name \in Name, Authenticate(x, name) PROVE FALSE
      BY <2>1, <2>3 DEF Authenticate, Undecided
    <2>4. ASSUME NEW x \in Client, Decide(x)
          PROVE  /\ asked[c].name \in Name /\ asked[c].may \in Policies
                 /\ decision'[c] = Route(asked[c].name, asked[c].may)
      <3>1. x = c /\ decision'[c] = Answer(asked[c].name, asked[c].may)
        <4> DEFINE d == Answer(asked[x].name, asked[x].may)
        <4>1. decision' = [decision EXCEPT ![x] = d]
          BY <2>4 DEF Decide
        <4> HIDE DEF d
        <4>2. x = c /\ decision'[c] = d
          BY <2>1, <4>1
        <4> QED BY <4>2 DEF d
      <3>2. asked[c] # Idle
        BY <2>4, <3>1 DEF Decide
      <3> QED BY <3>1, <3>2, AskedType DEF IndInv, Answer
    <2>5. CASE \E x \in Client : Decide(x)
      <3>1. PICK id \in DOMAIN byId :
              /\ decision'[c] = Routed(asked[c].name, id, byId[id].backend, byId[id].native)
              /\ byId[id].enabled /\ CanUse(asked[c].may, id)
        BY <2>4, <2>5, RouteTells
      <3>2. /\ decision'[c].id = id /\ decision'[c].backend = byId[id].backend
            /\ decision'[c].native = byId[id].native
        BY <3>1 DEF Routed
      <3> QED BY <3>1, <3>2
    <2>6. \/ UNCHANGED requests
          \/ \E x \in Client : Decide(x) \/ \E name \in Name : Authenticate(x, name)
      BY DEF Next, Startup, OpenDefault, RejectEmpty, ParseBackend, ParseModel,
             OpenBackend, RegisterEntry, Fail, CreateClient, LoadOther, Shutdown, vars
    <2> QED BY <2>2, <2>3, <2>5, <2>6
  <1> QED BY <1>1, Invariance, PTL DEF Spec, NoBypass

(* GET /v1/models lists what a request with the same policy would be       *)
(* routed by, and the preview names where every request would go, in both  *)
(* modes (RoutingService.list_models, routing_preview).                    *)
THEOREM PagesAreTrue == Spec => []PagesTellRouting
  <1>1. ASSUME IndInv, phase = "serving", NEW may \in Policies, Passthrough
        PROVE  ListModels(may) = {id \in Name : Answer(id, may).outcome = "routed"}
    <2>1. loaded \in (SUBSET Name) \cup {Malformed}
      BY <1>1 DEF IndInv, TypeOK
    <2>2. \A id : PassThrough(id, may).outcome = "routed" <=>
                    loaded # Malformed /\ id \in loaded /\ CanUse(may, id)
      BY DEF PassThrough, Failure, Routed
    <2> QED BY <1>1, <2>1, <2>2 DEF ListModels, Answer
  <1>2. ASSUME IndInv, phase = "serving", NEW may \in Policies, ~Passthrough
        PROVE  ListModels(may) = {id \in DOMAIN byId : Answer(id, may).outcome = "routed"}
    <2>1. /\ ParsedUpTo(NB, NM) /\ ValidUpTo(NB, NM) /\ OpenedUpTo(NB)
          /\ RegisteredUpTo(NM) /\ raw \in RawConfigs
      BY <1>2 DEF IndInv, PhaseInv, RequestInv
    <2>2. ASSUME NEW id \in DOMAIN byId
          PROVE  Resolve(id) = byId[id] /\ Known(id) /\ byId[id].id = id
      BY <1>2 DEF Resolve, Known, IndInv, RegistryInv
    <2>3. ASSUME NEW id \in DOMAIN byId PROVE byId[id].backend \in opened
      <3>1. PICK i \in 1 .. NM : byId[id] = models[i]
        BY <2>1 DEF RegisteredUpTo
      <3>2. models[i].backend = raw.models[i].backend
        BY <1>2, <2>1, FileShape, EntryFacts DEF ParsedUpTo
      <3>3. \E j \in 1 .. NB : raw.models[i].backend = raw.backends[j].id
        BY <2>1 DEF ValidUpTo, ModelsUpTo
      <3> QED BY <2>1, <3>1, <3>2, <3>3 DEF OpenedUpTo
    <2>4. ASSUME NEW id \in DOMAIN byId
          PROVE  Route(id, may).outcome = "routed" <=>
                   byId[id].enabled /\ CanUse(may, id)
      <3>1. byId[id].enabled \in BOOLEAN
        BY <1>2 DEF IndInv, TypeOK, ModelEntry
      <3> QED BY <2>2, <2>3, <3>1 DEF Route, Failure, Routed
    <2> QED BY <1>2, <2>4 DEF ListModels, Answer
  <1>3. ASSUME NEW name \in Name, NEW may \in Policies
        PROVE  LET a == Answer(name, may)  p == Preview(name) IN
               /\ a.outcome = "routed" => a = p
               /\ p.outcome = "routed" => a.outcome \in {"routed", "forbidden"}
    <2>1. \A id : CanUse(NoLimit, id)
      BY DEF CanUse
    <2>2. CASE Passthrough
      BY <2>1, <2>2 DEF Answer, Preview, PassThrough, RoutePassthrough, Failure, Routed
    <2>3. CASE ~Passthrough
      BY <2>1, <2>3 DEF Answer, Preview, Route, Failure, Routed
    <2> QED BY <2>2, <2>3
  <1>4. IndInv => PagesTellRouting
    <2> SUFFICES ASSUME IndInv, phase = "serving" PROVE ListedIsRoutable /\ PreviewTells
      BY DEF PagesTellRouting
    <2>1. ListedIsRoutable
      BY <1>1, <1>2 DEF ListedIsRoutable
    <2>2. PreviewTells
      BY <1>3 DEF PreviewTells
    <2> QED BY <2>1, <2>2
  <1> QED BY <1>4, Invariance, PTL
=============================================================================
