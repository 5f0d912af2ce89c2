------------------------------ MODULE MCProxyFront ------------------------------
(* Two connections, one hijacked host, an address of either family.          *)
EXTENDS ProxyFront

CONSTANTS c1, c2, h1, a4, a6, m1, m2

MCConns == {c1, c2}
MCHosts == {h1}
MCV4 == {a4}
MCV6 == {a6}
MCModels == {m1, m2}
MCMapped == {m1}
=============================================================================
