----------------------------- MODULE MCRouting ------------------------------
(* An instance of Routing for TLC: every file of one or two models over     *)
(* three names with up to two aliases each, and every way a single field    *)
(* can be wrong.                                                            *)
EXTENDS Routing, TLC

CONSTANTS na, nb, nc, b1, b2

MCName == {na, nb, nc}
MCBackendId == {b1, b2}

Good == [id |-> b1, supported |-> TRUE, url |-> TRUE]
BackendLists ==
  {<<Good>>, <<Good, Good>>, <<Good, [Good EXCEPT !.id = b2]>>, <<>>,
   <<[Good EXCEPT !.id = Malformed]>>, <<[Good EXCEPT !.supported = FALSE]>>,
   <<Good, [Good EXCEPT !.id = b2, !.url = FALSE]>>}

AliasLists == {<<>>} \cup {<<x>> : x \in MCName} \cup {<<x, y>> : x, y \in MCName}
Plain == [id : MCName, backend : {b1}, native : {Absent}, enabled : {TRUE},
          aliases : AliasLists]
OneWrong ==
  LET m == [id |-> na, backend |-> b1, native |-> Absent, enabled |-> TRUE,
            aliases |-> <<nb>>]
  IN  {[m EXCEPT !.id = Malformed], [m EXCEPT !.backend = Malformed],
       [m EXCEPT !.backend = b2], [m EXCEPT !.native = Malformed],
       [m EXCEPT !.native = "gguf"], [m EXCEPT !.enabled = FALSE],
       [m EXCEPT !.aliases = <<Malformed>>], [m EXCEPT !.aliases = <<nb, Malformed>>]}

MCRawConfigs ==
  {NoFile}
  \cup [backends : {<<Good>>}, models : {<<m, o>> : m, o \in Plain}]
  \cup [backends : BackendLists,
        models : {<<>>} \cup {<<m>> : m \in OneWrong}
                 \cup {<<m, o>> : m \in OneWrong, o \in OneWrong \cup Plain}
                 \cup {<<o, m>> : m \in OneWrong, o \in Plain}]

MCPolicies == {NoLimit, MCName} \cup {{x} : x \in MCName}
Symmetry == Permutations({nb, nc})
=============================================================================
