--------------------------- MODULE UpstreamConfig ---------------------------
(***************************************************************************)
(* The upstream configuration (src/src/aggregator/upstream_config): one    *)
(* file on disk, one live state in memory, and the admin API that replaces *)
(* both while requests are served from the live state.                     *)
(*                                                                         *)
(* A replacement writes a temporary file, whose name is the same for every *)
(* replacement, renames it over the configuration file and then swaps the  *)
(* live state; nothing locks the three steps together.  A request takes    *)
(* the live state anew each time it prepares, verifies and forwards.  A    *)
(* background round of verification, run at start-up, after replacements   *)
(* and at intervals, takes it once and works through its upstreams.        *)
(*                                                                         *)
(* Files are modelled as names for inodes, since a rename moves a file     *)
(* under the hands of whoever has it open.  A crash is a process crash: it *)
(* loses memory and open files, not what the operating system was given.   *)
(***************************************************************************)
EXTENDS Naturals, FiniteSets, Functions

CONSTANTS
    Names,          \* upstream names
    Origins,        \* base_url values
    Admins,         \* concurrent calls of the admin API
    Requests,       \* inference requests
    Rounds,         \* background rounds that may be pending or running at once
    Inodes,         \* files the file system can hold
    SeedConfig,     \* the configured seed (empty when there is none)
    Submitted,      \* bodies of PUT /v1/admin/upstreams that pass validation
    None

Providers == {"plain", "aci-service", "attested"}

\* refresh: verification_refresh_seconds is not zero.
Upstream == [origin : Origins, provider : Providers, enabled : BOOLEAN, refresh : BOOLEAN]

\* A validated configuration: names are unique.
Config == UNION {[N -> Upstream] : N \in SUBSET Names}

ASSUME ConfigAssumption ==
    /\ SeedConfig \in Config
    /\ Submitted \subseteq Config
    /\ None \notin Names \cup Origins \cup Inodes
    /\ IsFiniteSet(Inodes)
    /\ Cardinality(Inodes) >= Cardinality(Admins) + 1

VARIABLES
    disk,           \* contents of the inodes
    path,           \* the inode of upstreams.json
    tmp,            \* the inode of upstreams.json.tmp
    up,             \* "down", "seeding" or "up"
    live,           \* the state behind the RwLock
    admin,          \* the calls of the admin API in progress
    req,            \* the requests in progress
    delivered,      \* history: how each request reached an upstream
    round,          \* the background rounds
    probed          \* history: upstreams verified in the background while in service

files == <<disk, path, tmp>>
background == <<round, probed>>
vars == <<files, up, live, admin, req, delivered, background>>

Empty == [n \in {} |-> None]

\* What a file holds: nothing, a configuration, or the bytes of two bodies, one
\* over the other.
Blank == [form |-> "blank", config |-> Empty]
Torn == [form |-> "torn", config |-> Empty]
Text(config) == [form |-> "config", config |-> config]

Content == IF path = None THEN Blank ELSE disk[path]

\* parse_config_text: no text is no upstreams.
parse_config_text(text) == text.config

AdminIdle == [pc |-> "idle", target |-> Empty, name |-> None, fd |-> None]

Event == [result : {"verified", "failed"}, url_origin : Origins \cup {None},
          binding : Origins \cup {None}]

FailedEvent(origin) == [result |-> "failed", url_origin |-> origin, binding |-> None]

RequestIdle ==
    [pc |-> "idle", name |-> None, origin |-> None, required |-> FALSE,
     event |-> FailedEvent(None)]

Enabled(cfg, n) == n \in DOMAIN cfg /\ cfg[n].enabled

RoundIdle == [pc |-> "idle", config |-> Empty, todo |-> {}]

\* tokio::spawn of a prewarm: the task has not run yet.
Spawn(w) ==
    /\ round[w].pc = "idle"
    /\ round' = [round EXCEPT ![w].pc = "spawned"]

-----------------------------------------------------------------------------
Init ==
    /\ disk = [i \in Inodes |-> Blank]
    /\ path = None
    /\ tmp = None
    /\ up = "down"
    /\ live = Empty
    /\ admin = [a \in Admins |-> AdminIdle]
    /\ req = [r \in Requests |-> RequestIdle]
    /\ delivered = [r \in Requests |-> {}]
    /\ round = [w \in Rounds |-> RoundIdle]
    /\ probed = {}

\* Opening a name creates a file unless there is one.
Opens(name, i) ==
    IF name # None THEN i = name
    ELSE i \notin {path, tmp} \cup {admin[a].fd : a \in Admins}

\* seed_upstream_config_if_empty: the file is missing or empty; it is created
\* or truncated in place and then written.
SeedOpen(i) ==
    /\ up = "down"
    /\ Content = Blank
    /\ SeedConfig # Empty
    /\ Opens(path, i)
    /\ path' = i
    /\ disk' = [disk EXCEPT ![i] = Blank]
    /\ up' = "seeding"
    /\ UNCHANGED <<tmp, live, admin, req, delivered, background>>

SeedWrite ==
    /\ up = "seeding"
    /\ disk' = [disk EXCEPT ![path] = Text(SeedConfig)]
    /\ up' = "down"
    /\ UNCHANGED <<path, tmp, live, admin, req, delivered, background>>

\* UpstreamConfigManager::load; a file that does not parse stops the start-up.
\* spawn_upstream_lifecycle then spawns the first round.
Load(w) ==
    /\ up = "down"
    /\ Content = Blank => SeedConfig = Empty
    /\ Content # Torn
    /\ live' = parse_config_text(Content)
    /\ up' = "up"
    /\ Spawn(w)
    /\ UNCHANGED <<files, admin, req, delivered, probed>>

Crash ==
    /\ up # "down"
    /\ up' = "down"
    /\ live' = Empty
    /\ admin' = [a \in Admins |-> AdminIdle]
    /\ req' = [r \in Requests |-> RequestIdle]
    /\ delivered' = [r \in Requests |-> {}]
    /\ round' = [w \in Rounds |-> RoundIdle]
    /\ probed' = {}
    /\ UNCHANGED files

-----------------------------------------------------------------------------
\* The admin API.
Goto(a, pc) == admin' = [admin EXCEPT ![a].pc = pc]

\* admin_put_upstreams up to write_config_file: the body is valid and the next
\* state can be built from it.  A body that is not changes nothing.
Put(a, config) ==
    /\ up = "up"
    /\ admin[a].pc = "idle"
    /\ admin' = [admin EXCEPT ![a] = [AdminIdle EXCEPT !.pc = "open", !.target = config]]
    /\ UNCHANGED <<files, up, live, req, delivered, background>>

\* set_enabled: the configuration is copied from the live state under the read
\* lock and changed afterwards.
Patch(a, n, enabled) ==
    /\ up = "up"
    /\ admin[a].pc = "idle"
    /\ n \in DOMAIN live
    /\ admin' = [admin EXCEPT ![a] =
                    [pc |-> "open", name |-> n, fd |-> None,
                     target |-> [live EXCEPT ![n].enabled = enabled]]]
    /\ UNCHANGED <<files, up, live, req, delivered, background>>

\* Bug: the configuration file itself is truncated and rewritten.
OpenInPlace(a, i) ==
    /\ admin[a].pc = "open"
    /\ Opens(path, i)
    /\ path' = i
    /\ tmp' = i
    /\ disk' = [disk EXCEPT ![i] = Blank]
    /\ admin' = [admin EXCEPT ![a].pc = "body", ![a].fd = i]
    /\ UNCHANGED <<up, live, req, delivered, background>>

\* std::fs::write opens the temporary file, created or truncated, ...
OpenTmp(a, i) ==
    /\ admin[a].pc = "open"
    /\ Opens(tmp, i)
    /\ tmp' = i
    /\ disk' = [disk EXCEPT ![i] = Blank]
    /\ admin' = [admin EXCEPT ![a].pc = "body", ![a].fd = i]
    /\ UNCHANGED <<path, up, live, req, delivered, background>>

\* ... and writes the body from its start, over whatever another writer put
\* there since: a shorter body leaves the tail of a longer one.
WriteBody(a, text) ==
    LET i == admin[a].fd IN
    /\ admin[a].pc = "body"
    /\ text \in {Text(admin[a].target)} \cup (IF disk[i] = Blank THEN {} ELSE {Torn})
    /\ disk' = [disk EXCEPT ![i] = text]
    /\ admin' = [admin EXCEPT ![a].pc = "rename", ![a].fd = None]
    /\ UNCHANGED <<path, tmp, up, live, req, delivered, background>>

\* The file system refuses the open, the write or the rename; a rename also
\* fails when another replacement has renamed the temporary file away.
WriteFails(a) ==
    /\ admin[a].pc \in {"open", "body", "rename"}
    /\ admin' = [admin EXCEPT ![a] = AdminIdle]
    /\ UNCHANGED <<files, up, live, req, delivered, background>>

\* The file that had the name is gone unless a late writer still has it open.
Rename(a) ==
    /\ admin[a].pc = "rename"
    /\ tmp # None
    /\ path' = tmp
    /\ tmp' = None
    /\ disk' = [i \in Inodes |->
                  IF i = path /\ \A b \in Admins : admin[b].fd # i THEN Blank ELSE disk[i]]
    /\ Goto(a, "swap")
    /\ UNCHANGED <<up, live, req, delivered, background>>

\* Bug: only a PUT is followed by a round.
AfterPut(a) == admin[a].name = None

\* A replacement, and a PATCH that enables, spawn a round.
Prewarms(a) == admin[a].name = None \/ admin[a].target[admin[a].name].enabled

\* The state built before the write becomes live and the call is answered.
Swap(a) ==
    /\ admin[a].pc = "swap"
    /\ live' = admin[a].target
    /\ admin' = [admin EXCEPT ![a] = AdminIdle]
    /\ IF Prewarms(a) THEN \E w \in Rounds : Spawn(w) ELSE UNCHANGED round
    /\ probed' = {n \in probed : Enabled(admin[a].target, n) /\ admin[a].target[n] = live[n]}
    /\ UNCHANGED <<files, up, req, delivered>>

-----------------------------------------------------------------------------
\* A request, whose prepare, verify and forward each take the live state.

\* The live router has a route of upstream n: routes of disabled upstreams are
\* not built.
route_for_id(n) == Enabled(live, n)

\* ModelRouterBackend::prepare for the route of upstream n: plain upstreams
\* never fail closed.
Prepare(r, n, required) ==
    /\ up = "up"
    /\ req[r].pc = "idle"
    /\ route_for_id(n)
    /\ req' = [req EXCEPT ![r] =
                [pc |-> "verify", name |-> n, origin |-> live[n].origin,
                 required |-> required /\ live[n].provider # "plain",
                 event |-> FailedEvent(live[n].origin)]]
    /\ delivered' = [delivered EXCEPT ![r] = {}]
    /\ UNCHANGED <<files, up, live, admin, background>>

\* The upstreams with a verifier.  RoutingUpstreamVerifier looks for one by
\* the origin asked about first and then by name; of several upstreams on one
\* origin the last in the file wins.
Verifiable(cfg) == {n \in DOMAIN cfg : cfg[n].enabled /\ cfg[n].provider # "plain"}

VerifiersFor(cfg, name, origin) ==
    LET byOrigin == {n \in Verifiable(cfg) : cfg[n].origin = origin}
    IN  IF byOrigin # {} THEN byOrigin ELSE Verifiable(cfg) \cap {name}

\* An ACI-service verifier attests the origin it was built for; the others
\* attest the origin they are asked about.
VerifiedEvent(upstream, origin) ==
    [result |-> "verified", url_origin |-> origin,
     binding |-> IF upstream.provider = "aci-service" THEN upstream.origin ELSE origin]

\* What the verifier of configuration cfg may answer.
EventsOf(cfg, name, origin) ==
    {FailedEvent(origin)} \cup
    {VerifiedEvent(cfg[n], origin) : n \in VerifiersFor(cfg, name, origin)}

\* recorded_upstream_event: verification, then the fail-closed gate.
Verify(r, event) ==
    /\ req[r].pc = "verify"
    /\ event \in EventsOf(live, req[r].name, req[r].origin)
    /\ req' = [req EXCEPT ![r] = IF req[r].required /\ event.result = "failed"
                                 THEN RequestIdle
                                 ELSE [@ EXCEPT !.pc = "forward", !.event = event]]
    /\ UNCHANGED <<files, up, live, admin, delivered, background>>

\* Bug: the origin of the binding is not compared with the backend's.
BindingIgnored(r) == route_for_id(req[r].name)

\* forward_verified_prepared: the route is looked up by its id, and its backend
\* accepts a binding for its own origin only.
Reachable(r) ==
    /\ route_for_id(req[r].name)
    /\ req[r].event.binding \in {None, live[req[r].name].origin}

\* DynamicUpstreamBackend takes the backend that is live now, which need not
\* be the one that prepared the request.
Forward(r) ==
    /\ req[r].pc = "forward"
    /\ delivered' = IF Reachable(r)
                    THEN [delivered EXCEPT ![r] = {[origin |-> live[req[r].name].origin,
                            required |-> req[r].required, event |-> req[r].event]}]
                    ELSE delivered
    /\ req' = [req EXCEPT ![r] = RequestIdle]
    /\ UNCHANGED <<files, up, live, admin, background>>

-----------------------------------------------------------------------------
\* A round of background verification.

\* The loop of spawn_upstream_lifecycle, which runs one round at a time: there
\* is an interval once an enabled upstream wants refreshing.
verification_refresh_interval_seconds ==
    Verifiable(live) # {} /\ \E n \in DOMAIN live : live[n].enabled /\ live[n].refresh

\* run_upstream_verification takes the verifier and the targets out of one
\* state; with no verifier it returns.
Take(w, todo, pc) ==
    round' = [round EXCEPT ![w] =
                IF Verifiable(live) = {} \/ todo = {} THEN RoundIdle
                ELSE [pc |-> pc, todo |-> todo,
                      config |-> Restrict(live, {n \in DOMAIN live : live[n].enabled})]]

Prewarm(w) ==
    /\ round[w].pc = "spawned"
    /\ Take(w, {n \in DOMAIN live : live[n].enabled}, "prewarm")
    /\ UNCHANGED <<files, up, live, admin, req, delivered, probed>>

Refresh(w) ==
    /\ up = "up"
    /\ round[w].pc = "idle"
    /\ \A v \in Rounds : round[v].pc # "refresh"
    /\ verification_refresh_interval_seconds
    /\ Take(w, {n \in DOMAIN live : live[n].enabled /\ live[n].refresh}, "refresh")
    /\ UNCHANGED <<files, up, live, admin, req, delivered, probed>>

\* cfg has upstream n in service as live does.
InService(n, cfg) == Enabled(live, n) /\ Enabled(cfg, n) /\ live[n] = cfg[n]

\* The events verifying target n of round w may give.
TargetEvents(w, n) == EventsOf(round[w].config, n, round[w].config[n].origin)

\* One target: the event, verified or failed, goes to the session sink.
Probe(w, n) ==
    /\ round[w].pc \in {"prewarm", "refresh"}
    /\ n \in round[w].todo
    /\ probed' = probed \cup {m \in {n} : InService(m, round[w].config)}
    /\ round' = [round EXCEPT ![w] = IF @.todo = {n} THEN RoundIdle
                                     ELSE [@ EXCEPT !.todo = round[w].todo \ {n}]]
    /\ UNCHANGED <<files, up, live, admin, req, delivered>>

Next ==
    \/ \E i \in Inodes : SeedOpen(i)
    \/ SeedWrite
    \/ Crash
    \/ \E a \in Admins :
        \/ \E config \in Submitted : Put(a, config)
        \/ \E n \in Names, enabled \in BOOLEAN : Patch(a, n, enabled)
        \/ \E i \in Inodes : OpenTmp(a, i)
        \/ \E text \in {Text(admin[a].target), Torn} : WriteBody(a, text)
        \/ WriteFails(a)
        \/ Rename(a)
        \/ Swap(a)
    \/ \E r \in Requests :
        \/ \E n \in Names, required \in BOOLEAN : Prepare(r, n, required)
        \/ \E event \in Event : Verify(r, event)
        \/ Forward(r)
    \/ \E w \in Rounds :
        \/ Load(w)
        \/ Prewarm(w)
        \/ Refresh(w)
        \/ \E n \in Names : Probe(w, n)

Spec == Init /\ [][Next]_vars

-----------------------------------------------------------------------------
AdminRecord ==
    [pc : {"idle", "open", "body", "rename", "swap"}, target : Config,
     name : Names \cup {None}, fd : Inodes \cup {None}]

\* The variables hold values of their types: what is live or about to be is a
\* validated configuration.
ConfigTypeOK ==
    /\ DOMAIN disk = Inodes
    /\ \A i \in Inodes : disk[i] \in {Blank, Torn} \cup {Text(disk[i].config)}
    /\ \A i \in Inodes : disk[i].config \in Config
    /\ path \in Inodes \cup {None} /\ tmp \in Inodes \cup {None}
    /\ up \in {"down", "seeding", "up"}
    /\ live \in Config
    /\ admin \in [Admins -> AdminRecord]
    /\ \A r \in Requests : req[r].event \in Event /\ req[r].pc \in {"idle", "verify", "forward"}
    /\ \A r \in Requests : \A d \in delivered[r] : d.origin \in Origins /\ d.event \in Event
    /\ \A w \in Rounds : round[w].config \in Config /\ round[w].todo \subseteq DOMAIN round[w].config
    /\ probed \subseteq Names

\* The admin API replaces the file and the live state together.  Whenever the
\* process dies, the file is complete: the configuration that is live, or the
\* one of a call past its rename; a failed or interrupted write is never what
\* the next start-up reads, and once no call is in progress a restart would
\* load what is being served.
ReplacementIsAllOrNothing ==
    /\ ConfigTypeOK
    /\ up = "up" =>
        /\ Content # Torn
        /\ \/ parse_config_text(Content) = live
           \/ \E a \in Admins : admin[a].pc = "swap" /\ Content = Text(admin[a].target)

\* Fail closed across a swap: a request that requires verification reaches
\* only the origin its verified event binds, even if its route was moved,
\* replaced by a plain one or removed since it was prepared or verified.
SwapKeepsBinding ==
    \A r \in Requests : \A d \in delivered[r] :
        /\ d.required => d.event.result = "verified"
        /\ d.event.result = "verified" => d.event.binding = d.origin

\* Background verification and swaps.  Every upstream in service that can be
\* verified has been since it was put in service, or a round that will verify
\* it is pending or running, also when its periodic refresh is off; and a round
\* that a swap overtook still judges each upstream by the verifier of its own
\* configuration, so a session it records binds the origin it is filed under.
VerifiedInBackground ==
    /\ up = "up" => \A n \in Verifiable(live) :
        \/ n \in probed
        \/ \E w \in Rounds :
            \/ round[w].pc = "spawned"
            \/ n \in round[w].todo /\ round[w].config[n] = live[n]
    /\ \A w \in Rounds : \A n \in round[w].todo : \A event \in TargetEvents(w, n) :
        event.result = "verified" => event.binding = round[w].config[n].origin

=============================================================================
