------------------------------ MODULE MCUsage -------------------------------
(* An instance of Usage for TLC: one client with two keys, the second with *)
(* limits of its own, and three requests, two of which carry the first key *)
EXTENDS Usage

CONSTANTS r1, r2, r3, k1, k2, c1, m1, m2, b1

MCKeyOf == (r1 :> k1) @@ (r2 :> k1) @@ (r3 :> k2)
MCClientOf == (k1 :> c1) @@ (k2 :> c1)
MCModelOf == (r1 :> m1) @@ (r2 :> m2) @@ (r3 :> m1)
MCBackendOf == (r1 :> b1) @@ (r2 :> NULL) @@ (r3 :> b1)
MCTook == (r1 :> 7) @@ (r2 :> 0) @@ (r3 :> 2)

Limits(rpm, rpd, tpd) ==
  [requests_per_minute |-> rpm, requests_per_day |-> rpd, tokens_per_day |-> tpd]

MCKeyPolicy == (k1 :> Limits(NULL, NULL, NULL)) @@ (k2 :> Limits(0, 0, 1))
MCDefaultPolicy == Limits(1, 2, 1)
MCPolicyValues == Limits({NULL}, {NULL, 1}, {NULL})

(* Nothing reads the limiter's last answer.                                *)
View == <<now, windows, log, policy, stage, carried, answer, started, recorded,
          tokens, day, peak>>
=============================================================================
