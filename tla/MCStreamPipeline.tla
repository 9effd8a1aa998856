-------------------------- MODULE MCStreamPipeline --------------------------
(* The set-ups of a stream: the direct path, and behind the middleware a     *)
(* passed-through stream and both converted ones, each with and without      *)
(* E2EE.                                                                     *)
EXTENDS StreamPipeline

Direct(e2ee) ==
    [middleware |-> FALSE, transform |-> "none", e2ee |-> e2ee, keepalive |-> FALSE]
Routed(transform, e2ee) ==
    [middleware |-> TRUE, transform |-> transform, e2ee |-> e2ee, keepalive |-> TRUE]

MCModes ==
    {Direct(e) : e \in BOOLEAN} \cup
    {Routed(t, e) : t \in {"none", "chat", "messages"}, e \in BOOLEAN}

=============================================================================
