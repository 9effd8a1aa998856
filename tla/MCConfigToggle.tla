--------------------------- MODULE MCConfigToggle ---------------------------
(* UpstreamConfig with two plain upstreams and no requests, observed for    *)
(* what the callers of PATCH were told.                                     *)
EXTENDS UpstreamConfig, TLC

CONSTANTS u1, u2, oldOrigin, newOrigin

VARIABLE toggles    \* the last acknowledged PATCH of each upstream

Plain(origin) == [origin |-> origin, provider |-> "plain", enabled |-> TRUE, refresh |-> FALSE]

MCTwoPlain == u1 :> Plain(oldOrigin) @@ u2 :> Plain(newOrigin)

MCNoPut == {}

\* The call of a is answered in this step.
Answered(a) == admin[a].pc = "swap" /\ admin'[a].pc = "idle" /\ up' = "up"

Observed ==
    toggles' = IF up' = "down" THEN Empty
               ELSE [n \in {admin[a].name : a \in {b \in Admins : Answered(b)}} |->
                        live'[n].enabled] @@ toggles

ToggleInit == Init /\ toggles = Empty

ToggleNext == Next /\ Observed

ToggleSpec == ToggleInit /\ [][ToggleNext]_<<vars, toggles>>

Quiet == up = "up" /\ \A a \in Admins : admin[a].pc = "idle"

\* PATCH is safe for toggling one node: once calls have been answered, each
\* node is enabled or disabled as the last call about it said.
TogglesKept == Quiet => \A n \in DOMAIN toggles : live[n].enabled = toggles[n]

=============================================================================
