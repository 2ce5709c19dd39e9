-------------------------- MODULE MCBackendHealth ---------------------------
(* Two backends, one of them the default backend too, and the pages asked  *)
(* for while they come and go: two at once, between them of every kind.    *)
EXTENDS BackendHealth, TLC

CONSTANTS b1, b2, p1, p2

TwoBackends == <<b1, b2>>

MCKinds == p1 :> {"status", "models", "default"}
             @@ p2 :> {"overview", "backends", "preview"}
=============================================================================
