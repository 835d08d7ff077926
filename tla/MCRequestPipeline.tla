------------------------- MODULE MCRequestPipeline -------------------------
(* A small instance of RequestPipeline for TLC. *)
EXTENDS RequestPipeline

\* Calls for one device: REST clients wait until they go away, Connect clients
\* wait for a tick, or just as long as a token takes.
MCMixed ==
    [api : {"rest"}, device : Devices, peer : Peers, timeout : {NULL}]
    \cup [api : {"connect"}, device : Devices, peer : Peers, timeout : {1, 3}]

=============================================================================
