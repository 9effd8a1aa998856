-------------------------- MODULE MCUpstreamConfig --------------------------
(* Instances of UpstreamConfig: two upstreams that the operator moves to    *)
(* another origin, which they then share, turns into a plain one, or drops. *)
EXTENDS UpstreamConfig, TLC

CONSTANTS u1, u2, oldOrigin, newOrigin

Node(origin, provider) ==
    [origin |-> origin, provider |-> provider, enabled |-> TRUE, refresh |-> provider = "attested"]

MCSeed == u1 :> Node(oldOrigin, "attested") @@ u2 :> Node(newOrigin, "plain")

MCSubmitted ==
    {u1 :> Node(newOrigin, "plain"),
     u1 :> Node(newOrigin, "aci-service") @@ u2 :> Node(newOrigin, "plain")}

Symmetry == Permutations(Rounds) \cup Permutations(Inodes)

=============================================================================
