--------------------------- MODULE MCRateLimiter ---------------------------
(* Small instances of RateLimiter for TLC. *)
EXTENDS RateLimiter, TLC

\* Every kind of call: REST clients wait until they go away, Connect clients
\* for two ticks.
MCAllKinds ==
    [api : {"rest"}, device : Devices \cup {NoDevice}, peer : Peers, timeout : {NULL}]
    \cup [api : {"connect"}, device : Devices \cup {NoDevice}, peer : Peers, timeout : {2}]

\* Calls for one device from clients that wait for ever.
MCEndless == [api : {"rest"}, device : Devices, peer : Peers, timeout : {NULL}]

RequestSymmetry == Permutations(Requests)

=============================================================================
