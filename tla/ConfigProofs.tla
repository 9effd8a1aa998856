---------------------------- MODULE ConfigProofs ----------------------------
(***************************************************************************)
(* Fail closed across a swap of the upstream configuration, for any number *)
(* of operators, requests and upstreams and any configurations.            *)
(*                                                                         *)
(* Whatever operators do to each other's replacements, what is live came   *)
(* through validation: it was the seed, a body submitted, a change of one  *)
(* flag, or what such a state left in the file.  So a verified event binds *)
(* an origin, and the comparison made when the request is sent decides.    *)
(* The second part is about one operator at a time: the file is never less *)
(* than a complete configuration, and background verification misses no    *)
(* upstream in service.                                                    *)
(***************************************************************************)
EXTENDS UpstreamConfig, TLAPS

\* A request: its step, route, event and whether it requires verification.
RequestRecord ==
    [pc : {"idle", "verify", "forward"}, name : Names \cup {None},
     origin : Origins \cup {None}, required : BOOLEAN, event : Event]

FileContent == {Blank, Torn} \cup {Text(config) : config \in Config}

\* Every configuration in memory or in a file is a validated one.
Validated ==
    /\ disk \in [Inodes -> FileContent]
    /\ path \in Inodes \cup {None}
    /\ tmp \in Inodes \cup {None}
    /\ live \in Config
    /\ admin \in [Admins -> AdminRecord]

\* A request has an origin once prepared, and an event that passed the gate
\* once verified; a verified event binds an origin.
Gated ==
    /\ req \in [Requests -> RequestRecord]
    /\ DOMAIN delivered = Requests
    /\ \A r \in Requests :
        /\ req[r].pc # "idle" => req[r].origin \in Origins
        /\ req[r].pc = "forward" =>
            /\ req[r].required => req[r].event.result = "verified"
            /\ req[r].event.result = "verified" => req[r].event.binding \in Origins

BindingInv == Validated /\ Gated /\ SwapKeepsBinding

-----------------------------------------------------------------------------
\* What a validated configuration has for a name.
LEMMA ConfigLookup ==
    ASSUME NEW cfg \in Config, NEW n \in DOMAIN cfg
    PROVE  n \in Names /\ cfg[n] \in Upstream
BY DEF Config

\* No text parses to no upstreams.
LEMMA EmptyIsConfig == Empty \in Config
<1>1. Empty \in [{} -> Upstream]
  BY DEF Empty
<1> QED
  BY ZenonT(30), <1>1 DEF Config

\* set_enabled changes a flag of one upstream.
LEMMA PatchedIsConfig ==
    ASSUME NEW cfg \in Config, NEW n \in DOMAIN cfg, NEW b \in BOOLEAN
    PROVE  [cfg EXCEPT ![n].enabled = b] \in Config
<1>1. PICK N \in SUBSET Names : cfg \in [N -> Upstream]
  BY DEF Config
<1>2. [cfg[n] EXCEPT !.enabled = b] \in Upstream
  BY <1>1 DEF Upstream
<1>3. [cfg EXCEPT ![n].enabled = b] \in [N -> Upstream]
  BY <1>1, <1>2
<1> QED
  BY <1>3 DEF Config

\* What files and idle calls hold is validated.
LEMMA Contents ==
    ASSUME Validated
    PROVE  /\ Content \in FileContent /\ Content.config \in Config
           /\ \A text \in FileContent : text.config \in Config
           /\ \A cfg \in Config : Text(cfg) \in FileContent
           /\ {Blank, Torn} \subseteq FileContent
           /\ AdminIdle \in AdminRecord
<1>1. {Blank, Torn} \subseteq FileContent
  BY EmptyIsConfig DEF Blank, Torn, FileContent
<1>2. \A cfg \in Config : Text(cfg) \in FileContent
  BY DEF Text, FileContent
<1>3. AdminIdle \in AdminRecord
  BY EmptyIsConfig DEF AdminIdle, AdminRecord
<1>4. \A text \in FileContent : text.config \in Config
  BY EmptyIsConfig DEF Blank, Torn, Text, FileContent
<1>5. Content \in FileContent
  BY <1>1 DEF Content, Validated
<1> QED
  BY <1>1, <1>2, <1>3, <1>4, <1>5

\* Every step keeps configurations validated.
LEMMA ValidatedStep == ASSUME Validated, [Next]_vars PROVE Validated'
<1> USE Contents, ConfigAssumption DEF Validated
<1>1. ASSUME NEW i \in Inodes, SeedOpen(i) PROVE Validated'
  BY <1>1 DEF SeedOpen
<1>2. CASE SeedWrite
  BY ZenonT(30), <1>2 DEF SeedWrite
<1>3. CASE Crash
  BY <1>3, EmptyIsConfig DEF Crash, files
<1>4. ASSUME NEW a \in Admins, NEW config \in Submitted, Put(a, config) PROVE Validated'
  <2>1. [AdminIdle EXCEPT !.pc = "open", !.target = config] \in AdminRecord
    BY ZenonT(30) DEF AdminRecord
  <2> QED
    BY <1>4, <2>1 DEF Put, files
<1>5. ASSUME NEW a \in Admins, NEW n \in Names, NEW enabled \in BOOLEAN, Patch(a, n, enabled)
      PROVE  Validated'
  <2>1. [live EXCEPT ![n].enabled = enabled] \in Config
    BY ZenonT(30), <1>5, PatchedIsConfig DEF Patch
  <2>2. [pc |-> "open", name |-> n, fd |-> None,
         target |-> [live EXCEPT ![n].enabled = enabled]] \in AdminRecord
    BY <2>1 DEF AdminRecord
  <2> QED
    BY <1>5, <2>2 DEF Patch, files
<1>6. ASSUME NEW a \in Admins, NEW i \in Inodes, OpenTmp(a, i) PROVE Validated'
  <2>1. [admin[a] EXCEPT !.pc = "body", !.fd = i] \in AdminRecord
    BY ZenonT(30) DEF AdminRecord
  <2>2. admin' = [admin EXCEPT ![a] = [admin[a] EXCEPT !.pc = "body", !.fd = i]]
    BY ZenonT(30), <1>6 DEF OpenTmp
  <2>3. admin' \in [Admins -> AdminRecord]
    BY <2>1, <2>2
  <2> QED
    BY <1>6, <2>3 DEF OpenTmp
<1>7. ASSUME NEW a \in Admins, NEW text \in {Text(admin[a].target), Torn}, WriteBody(a, text)
      PROVE  Validated'
  <2>1. admin[a].target \in Config
    BY DEF AdminRecord
  <2>2. text \in FileContent
    BY <2>1
  <2>3. admin' \in [Admins -> AdminRecord]
    BY ZenonT(30), <1>7 DEF WriteBody, AdminRecord
  <2> QED
    BY ZenonT(30), <1>7, <2>2, <2>3 DEF WriteBody
<1>8. ASSUME NEW a \in Admins, WriteFails(a) PROVE Validated'
  BY <1>8 DEF WriteFails, files
<1>9. ASSUME NEW a \in Admins, Rename(a) PROVE Validated'
  <2>1. admin' \in [Admins -> AdminRecord]
    BY ZenonT(30), <1>9 DEF Rename, Goto, AdminRecord
  <2>2. disk' \in [Inodes -> FileContent]
    BY <1>9 DEF Rename
  <2> QED
    BY <1>9, <2>1, <2>2 DEF Rename
<1>10. ASSUME NEW a \in Admins, Swap(a) PROVE Validated'
  <2>1. admin[a].target \in Config
    BY DEF AdminRecord
  <2> QED
    BY <1>10, <2>1 DEF Swap, files
<1>11. ASSUME NEW r \in Requests,
              \/ \E n \in Names, required \in BOOLEAN : Prepare(r, n, required)
              \/ \E event \in Event : Verify(r, event)
              \/ Forward(r)
       PROVE  Validated'
  BY ZenonT(30), <1>11 DEF Prepare, Verify, Forward, files
<1>12. ASSUME NEW w \in Rounds, Load(w) PROVE Validated'
  BY <1>12 DEF Load, parse_config_text, files
<1>13. ASSUME NEW w \in Rounds, Prewarm(w) \/ Refresh(w) \/ \E n \in Names : Probe(w, n)
       PROVE  Validated'
  BY <1>13 DEF Prewarm, Refresh, Probe, files
<1>14. CASE UNCHANGED vars
  BY <1>14 DEF vars, files
<1> HIDE DEF Validated
<1> QED
  BY ZenonT(30), <1>1, <1>2, <1>3, <1>4, <1>5, <1>6, <1>7, <1>8, <1>9, <1>10, <1>11, <1>12, <1>13,
     <1>14 DEF Next

-----------------------------------------------------------------------------
\* A step of the others leaves requests and what they delivered alone.
LEMMA GatedOtherwise ==
    ASSUME Gated, SwapKeepsBinding, UNCHANGED <<req, delivered>>
    PROVE  Gated' /\ SwapKeepsBinding'
BY DEF Gated, SwapKeepsBinding

\* Requests not under way, and failed events.
LEMMA IdleRequest ==
    /\ RequestIdle \in RequestRecord
    /\ RequestIdle.pc = "idle"
    /\ \A o \in Origins \cup {None} : FailedEvent(o) \in Event
<1>1. \A o \in Origins \cup {None} : FailedEvent(o) \in Event
  BY DEF FailedEvent, Event
<1> QED
  BY <1>1 DEF RequestIdle, RequestRecord

\* The verifier of a validated configuration binds an origin: its upstream's or
\* the one asked about.
LEMMA VerifiedBindsOrigin ==
    ASSUME NEW cfg \in Config, NEW name, NEW origin \in Origins,
           NEW event \in EventsOf(cfg, name, origin), event.result = "verified"
    PROVE  event.binding \in Origins
<1>1. event # FailedEvent(origin)
  BY DEF FailedEvent
<1>2. PICK n \in VerifiersFor(cfg, name, origin) : event = VerifiedEvent(cfg[n], origin)
  BY <1>1 DEF EventsOf
<1>3. n \in DOMAIN cfg
  BY <1>2 DEF VerifiersFor, Verifiable
<1>4. cfg[n].origin \in Origins
  BY <1>3, ConfigLookup DEF Upstream
<1> QED
  BY <1>2, <1>4 DEF VerifiedEvent

\* A prepared request has the origin of a validated upstream.
LEMMA PrepareKeeps ==
    ASSUME BindingInv, NEW r \in Requests, NEW n \in Names, NEW required \in BOOLEAN,
           Prepare(r, n, required)
    PROVE  Gated' /\ SwapKeepsBinding'
<1>1. live[n].origin \in Origins
  BY ConfigLookup DEF BindingInv, Validated, Prepare, route_for_id, Enabled, Upstream
<1> DEFINE new == [pc |-> "verify", name |-> n, origin |-> live[n].origin,
                   required |-> required /\ live[n].provider # "plain",
                   event |-> FailedEvent(live[n].origin)]
<1>2. new \in RequestRecord
  BY <1>1, IdleRequest DEF RequestRecord
<1>3. req' = [req EXCEPT ![r] = new] /\ delivered' = [delivered EXCEPT ![r] = {}]
  BY DEF Prepare
<1>4. new.pc = "verify" /\ new.origin \in Origins
  BY <1>1
<1> HIDE DEF new
<1>5. Gated'
  BY <1>2, <1>3, <1>4 DEF BindingInv, Gated
<1>6. SwapKeepsBinding'
  BY <1>3 DEF BindingInv, Gated, SwapKeepsBinding
<1> QED
  BY <1>5, <1>6

\* The gate lets a request pass that needs no verification, or whose event is
\* a verified one.
LEMMA VerifyKeeps ==
    ASSUME BindingInv, NEW r \in Requests, NEW event \in Event, Verify(r, event)
    PROVE  Gated' /\ SwapKeepsBinding'
<1>1. req \in [Requests -> RequestRecord] /\ req[r].origin \in Origins
  BY DEF BindingInv, Gated, Verify
<1>2. event.result = "verified" => event.binding \in Origins
  BY <1>1, VerifiedBindsOrigin DEF BindingInv, Validated, Verify
<1>3. delivered' = delivered /\ SwapKeepsBinding'
  BY DEF BindingInv, SwapKeepsBinding, Verify
<1>4. CASE req' = [req EXCEPT ![r] = RequestIdle]
  <2>1. Gated'
    BY <1>1, <1>3, <1>4, IdleRequest DEF BindingInv, Gated
  <2> QED
    BY <1>3, <2>1
<1>5. CASE /\ ~(req[r].required /\ event.result = "failed")
           /\ req' = [req EXCEPT ![r] = [@ EXCEPT !.pc = "forward", !.event = event]]
  <2> DEFINE new == [req[r] EXCEPT !.pc = "forward", !.event = event]
  <2>1. new \in RequestRecord /\ new.origin = req[r].origin
    BY ZenonT(30), <1>1 DEF RequestRecord
  <2>2. new.required = req[r].required /\ new.event = event
    BY <1>1 DEF RequestRecord
  <2>3. req[r].required => event.result = "verified"
    BY <1>5 DEF Event
  <2>4. req' = [req EXCEPT ![r] = new]
    BY <1>5
  <2> HIDE DEF new
  <2>5. Gated'
    BY <1>1, <1>2, <1>3, <2>1, <2>2, <2>3, <2>4 DEF BindingInv, Gated
  <2> QED
    BY <1>3, <2>5
<1> QED
  BY ZenonT(30), <1>4, <1>5 DEF Verify

\* What goes out goes to the origin the backend that is live has, and a binding
\* it accepts is for that origin.
LEMMA ForwardKeeps ==
    ASSUME BindingInv, NEW r \in Requests, Forward(r)
    PROVE  Gated' /\ SwapKeepsBinding'
<1>1. Gated'
  <2>1. req' = [req EXCEPT ![r] = RequestIdle] /\ DOMAIN delivered' = Requests
    BY SMTT(30) DEF BindingInv, Gated, Forward
  <2> QED
    BY <2>1, IdleRequest DEF BindingInv, Gated
<1>2. CASE ~ Reachable(r)
  BY <1>1, <1>2 DEF BindingInv, SwapKeepsBinding, Forward
<1>3. CASE Reachable(r)
  <2> DEFINE d == [origin |-> live[req[r].name].origin,
                   required |-> req[r].required, event |-> req[r].event]
  <2>1. d.required => d.event.result = "verified"
    BY SMTT(30) DEF BindingInv, Gated, Forward
  <2>2. d.event.result = "verified" => d.event.binding = d.origin
    <3>1. d.event.result = "verified" => d.event.binding \in Origins
      BY SMTT(30) DEF BindingInv, Gated, Forward
    <3> QED
      BY SMTT(30), <1>3, <3>1, ConfigAssumption DEF Reachable
  <2>3. delivered' = [delivered EXCEPT ![r] = {d}]
    BY SMTT(30), <1>3 DEF Forward
  <2> HIDE DEF d
  <2>4. SwapKeepsBinding'
    BY <2>1, <2>2, <2>3 DEF BindingInv, Gated, SwapKeepsBinding
  <2> QED
    BY <1>1, <2>4
<1> QED
  BY <1>2, <1>3

LEMMA BindingInit ==
    ASSUME Init
    PROVE  BindingInv
<1>1. Validated
  BY EmptyIsConfig DEF Init, Validated, Blank, FileContent, AdminIdle, AdminRecord
<1>2. Gated
  BY IdleRequest DEF Init, Gated
<1>3. SwapKeepsBinding
  BY DEF Init, SwapKeepsBinding
<1> QED
  BY <1>1, <1>2, <1>3 DEF BindingInv

\* Every step keeps the invariant.
LEMMA BindingStep == ASSUME BindingInv, [Next]_vars PROVE BindingInv'
<1>1. Validated'
  BY ValidatedStep DEF BindingInv
<1>2. ASSUME NEW r \in Requests, NEW n \in Names, NEW required \in BOOLEAN,
             Prepare(r, n, required)
      PROVE  Gated' /\ SwapKeepsBinding'
  BY <1>2, PrepareKeeps
<1>3. ASSUME NEW r \in Requests, NEW event \in Event, Verify(r, event)
      PROVE  Gated' /\ SwapKeepsBinding'
  BY <1>3, VerifyKeeps
<1>4. ASSUME NEW r \in Requests, Forward(r)
      PROVE  Gated' /\ SwapKeepsBinding'
  BY <1>4, ForwardKeeps
<1>5. CASE Crash
  <2>1. /\ req' = [r \in Requests |-> RequestIdle]
        /\ delivered' = [r \in Requests |-> {}]
    BY <1>5 DEF Crash
  <2>2. Gated'
    BY <2>1, IdleRequest DEF Gated
  <2>3. SwapKeepsBinding'
    BY <2>1 DEF SwapKeepsBinding
  <2> QED
    BY <1>1, <2>2, <2>3 DEF BindingInv
<1>6. CASE \/ \E i \in Inodes : SeedOpen(i)
           \/ SeedWrite
           \/ \E a \in Admins :
                \/ \E config \in Submitted : Put(a, config)
                \/ \E n \in Names, enabled \in BOOLEAN : Patch(a, n, enabled)
                \/ \E i \in Inodes : OpenTmp(a, i)
                \/ \E text \in {Text(admin[a].target), Torn} : WriteBody(a, text)
                \/ WriteFails(a)
                \/ Rename(a)
                \/ Swap(a)
           \/ \E w \in Rounds :
                \/ Load(w)
                \/ Prewarm(w)
                \/ Refresh(w)
                \/ \E n \in Names : Probe(w, n)
           \/ UNCHANGED vars
  <2>1. UNCHANGED <<req, delivered>>
    BY ZenonT(30), <1>6 DEF SeedOpen, SeedWrite, Put, Patch, OpenTmp, WriteBody, WriteFails, Rename, Swap,
       Load, Prewarm, Refresh, Probe, vars
  <2> QED
    BY <1>1, <2>1, GatedOtherwise DEF BindingInv
<1> QED
  BY <1>1, <1>2, <1>3, <1>4, <1>5, <1>6 DEF Next, BindingInv

\* Whatever operators submit, interleave and lose, and wherever the process
\* crashes: a request that requires verification reaches only the origin its
\* verified event binds (forward_verified_prepared).
THEOREM SwapsFailClosed == Spec => []SwapKeepsBinding
<1>1. BindingInv => SwapKeepsBinding
  BY DEF BindingInv
<1> QED
  BY <1>1, BindingInit, BindingStep, PTL DEF Spec

-----------------------------------------------------------------------------
(***************************************************************************)
(* Replacements by one operator at a time.  With two, both use one          *)
(* temporary file, and the file and the live state may have different       *)
(* winners.                                                                 *)
(***************************************************************************)
OneOperator == \A a, b \in Admins : a = b

\* What a call of the admin API has on disk and in hand at each of its steps.
\* A PATCH differs from what is live in the upstream it names.
Progress(a) ==
    /\ admin[a].pc = "body" => tmp # None /\ admin[a].fd = tmp /\ disk[tmp] = Blank
    /\ admin[a].pc = "rename" => tmp # None /\ disk[tmp] = Text(admin[a].target)
    /\ admin[a].pc = "swap" => path # None /\ disk[path] = Text(admin[a].target)
    /\ admin[a].pc # "idle" /\ admin[a].name # None =>
          /\ admin[a].name \in DOMAIN live
          /\ DOMAIN admin[a].target = DOMAIN live
          /\ \A n \in DOMAIN live \ {admin[a].name} : admin[a].target[n] = live[n]

\* Calls are made to a process that is up; the temporary file is not the
\* configuration file, and that one holds what is live up to the rename.
ReplaceInv ==
    /\ up \in {"down", "seeding", "up"}
    /\ up = "seeding" => path # None
    /\ tmp # None => tmp # path
    /\ up # "up" => \A a \in Admins : admin[a].pc = "idle"
    /\ \A a \in Admins : Progress(a)
    /\ up = "up" /\ (\A a \in Admins : admin[a].pc # "swap") =>
          Content # Torn /\ parse_config_text(Content) = live

RoundRecord ==
    [pc : {"idle", "spawned", "prewarm", "refresh"}, config : Config, todo : SUBSET Names]

\* A round judges upstreams of one configuration, none before it has run.
RoundsInv ==
    /\ round \in [Rounds -> RoundRecord]
    /\ \A w \in Rounds :
          /\ round[w].todo \subseteq DOMAIN round[w].config
          /\ round[w].pc \in {"idle", "spawned"} => round[w].todo = {}
    /\ probed \subseteq Names

DeliveredInv == \A r \in Requests : \A d \in delivered[r] : d.origin \in Origins /\ d.event \in Event

\* A written file is neither empty nor torn, and parses to what was written.
LEMMA TextFacts ==
    ASSUME NEW config
    PROVE  Text(config) # Torn /\ parse_config_text(Text(config)) = config /\ Blank # Torn
  BY DEF Text, Torn, Blank, parse_config_text

\* Start-up and crash: no call is in progress.
LEMMA StartKeepsFiles ==
    ASSUME Validated, ReplaceInv,
           (\E i \in Inodes : SeedOpen(i)) \/ SeedWrite \/ Crash \/ \E w \in Rounds : Load(w)
    PROVE  ReplaceInv'
<1>1. ASSUME NEW i \in Inodes, SeedOpen(i) PROVE ReplaceInv'
  <2>1. /\ up = "down" /\ up' = "seeding" /\ path' = i /\ Opens(path, i)
        /\ UNCHANGED <<tmp, live, admin>>
    BY <1>1 DEF SeedOpen
  <2>2. \A a \in Admins : admin'[a].pc = "idle"
    BY <2>1 DEF ReplaceInv
  <2>3. \A a \in Admins : Progress(a)'
    BY <2>2 DEF Progress
  <2>4. path' # None
    BY <2>1, ConfigAssumption
  <2>5. tmp' # None => tmp' # path'
    BY <2>1 DEF Opens, ReplaceInv
  <2> QED
    BY <2>1, <2>2, <2>3, <2>4, <2>5 DEF ReplaceInv
<1>2. CASE SeedWrite
  <2>1. up = "seeding" /\ up' = "down" /\ UNCHANGED <<path, tmp, live, admin>>
    BY <1>2 DEF SeedWrite
  <2>2. \A a \in Admins : admin'[a].pc = "idle"
    BY <2>1 DEF ReplaceInv
  <2>3. \A a \in Admins : Progress(a)'
    BY ZenonT(30), <2>2 DEF Progress
  <2> QED
    BY <2>1, <2>2, <2>3 DEF ReplaceInv
<1>3. CASE Crash
  <2>1. /\ up' = "down" /\ UNCHANGED <<path, tmp, disk>>
        /\ admin' = [a \in Admins |-> AdminIdle]
    BY <1>3 DEF Crash, files
  <2>2. \A a \in Admins : admin'[a].pc = "idle"
    BY <2>1 DEF AdminIdle
  <2>3. \A a \in Admins : Progress(a)'
    BY <2>2 DEF Progress
  <2> QED
    BY <2>1, <2>2, <2>3 DEF ReplaceInv
<1>4. ASSUME NEW w \in Rounds, Load(w) PROVE ReplaceInv'
  <2>1. /\ up = "down" /\ up' = "up" /\ UNCHANGED <<path, tmp, disk, admin>>
        /\ live' = parse_config_text(Content) /\ Content # Torn
    BY <1>4 DEF Load, files
  <2>2. \A a \in Admins : admin'[a].pc = "idle"
    BY <2>1 DEF ReplaceInv
  <2>3. \A a \in Admins : Progress(a)'
    BY <2>2 DEF Progress
  <2>4. Content' = Content
    BY <2>1 DEF Content
  <2>5. Content' # Torn /\ parse_config_text(Content') = live'
    BY <2>1, <2>4 DEF parse_config_text
  <2> QED
    BY <2>1, <2>2, <2>3, <2>5 DEF ReplaceInv
<1> QED
  BY <1>1, <1>2, <1>3, <1>4

\* A call begins.
LEMMA BeginKeepsFiles ==
    ASSUME OneOperator, Validated, ReplaceInv, NEW a \in Admins,
           \/ \E config \in Submitted : Put(a, config)
           \/ \E n \in Names, enabled \in BOOLEAN : Patch(a, n, enabled)
    PROVE  ReplaceInv'
<1>1. /\ up = "up" /\ admin[a].pc = "idle" /\ UNCHANGED <<path, tmp, disk, up, live>>
  BY ZenonT(30) DEF Put, Patch, files
<1>2. admin'[a].pc = "open" /\ (admin'[a].name # None =>
          /\ admin'[a].name \in DOMAIN live /\ DOMAIN admin'[a].target = DOMAIN live
          /\ \A n \in DOMAIN live \ {admin'[a].name} : admin'[a].target[n] = live[n])
  <2>1. ASSUME NEW config \in Submitted, Put(a, config)
        PROVE  admin'[a].pc = "open" /\ admin'[a].name = None
    BY ZenonT(30), <2>1 DEF Put, AdminIdle, Validated
  <2>2. ASSUME NEW n \in Names, NEW enabled \in BOOLEAN, Patch(a, n, enabled)
        PROVE  /\ admin'[a].pc = "open" /\ admin'[a].name = n /\ n \in DOMAIN live
               /\ admin'[a].target = [live EXCEPT ![n].enabled = enabled]
    BY <2>2 DEF Patch, Validated
  <2> QED
    BY ZenonT(30), <2>1, <2>2
<1>3. \A b \in Admins : b = a
  BY DEF OneOperator
<1>4. Progress(a)'
  BY <1>1, <1>2 DEF Progress
<1>5. Content' = Content
  BY <1>1 DEF Content
<1>6. Content' # Torn /\ parse_config_text(Content') = live'
  <2>1. \A b \in Admins : admin[b].pc # "swap"
    BY <1>1, <1>3
  <2> QED
    BY ZenonT(30), <1>1, <1>5, <2>1 DEF ReplaceInv, parse_config_text
<1> QED
  BY <1>1, <1>2, <1>3, <1>4, <1>6 DEF ReplaceInv

\* The temporary file is opened: another file than the configuration's.
LEMMA OpenKeepsFiles ==
    ASSUME OneOperator, Validated, ReplaceInv, NEW a \in Admins, NEW i \in Inodes, OpenTmp(a, i)
    PROVE  ReplaceInv'
<1>1. /\ admin[a].pc = "open" /\ Opens(tmp, i) /\ tmp' = i
      /\ disk' = [disk EXCEPT ![i] = Blank] /\ UNCHANGED <<path, up, live>>
      /\ admin' = [admin EXCEPT ![a].pc = "body", ![a].fd = i]
  BY DEF OpenTmp
<1>2. /\ admin'[a].pc = "body" /\ admin'[a].fd = i
      /\ admin'[a].name = admin[a].name /\ admin'[a].target = admin[a].target
  BY <1>1 DEF Validated, AdminRecord
<1>3. i # None /\ i # path
  BY <1>1, ConfigAssumption DEF Opens, ReplaceInv
<1>4. disk'[i] = Blank /\ \A j \in Inodes \ {i} : disk'[j] = disk[j]
  BY <1>1 DEF Validated
<1>5. \A b \in Admins : b = a
  BY DEF OneOperator
<1>6. Progress(a)'
  <2>1. Progress(a)
    BY DEF ReplaceInv
  <2> QED
    BY ZenonT(30), <1>1, <1>2, <1>3, <1>4, <2>1 DEF Progress
<1>7. Content' = Content
  BY <1>1, <1>3, <1>4 DEF Content, Validated
<1>8. up = "up" => Content' # Torn /\ parse_config_text(Content') = live'
  <2>1. \A b \in Admins : admin[b].pc # "swap"
    BY <1>1, <1>5
  <2> QED
    BY <1>1, <1>7, <2>1 DEF ReplaceInv, parse_config_text
<1>9. up = "up"
  BY <1>1 DEF ReplaceInv
<1> QED
  BY <1>1, <1>2, <1>3, <1>5, <1>6, <1>8, <1>9 DEF ReplaceInv

\* The body goes into the empty temporary file.
LEMMA WriteKeepsFiles ==
    ASSUME OneOperator, Validated, ReplaceInv, NEW a \in Admins,
           NEW text \in {Text(admin[a].target), Torn}, WriteBody(a, text)
    PROVE  ReplaceInv'
<1>1. Progress(a) /\ admin[a].pc = "body" /\ up = "up"
  BY DEF ReplaceInv, WriteBody
<1>2. admin[a].fd = tmp /\ tmp # None /\ tmp # path /\ disk[tmp] = Blank /\ tmp \in Inodes
  BY ZenonT(30), <1>1 DEF Progress, ReplaceInv, Validated
<1>3. /\ text = Text(admin[a].target) /\ disk' = [disk EXCEPT ![tmp] = text]
      /\ admin' = [admin EXCEPT ![a].pc = "rename", ![a].fd = None]
      /\ UNCHANGED <<path, tmp, up, live>>
  BY <1>2 DEF WriteBody
<1>4. /\ admin'[a].pc = "rename"
      /\ admin'[a].name = admin[a].name /\ admin'[a].target = admin[a].target
  BY <1>3 DEF Validated, AdminRecord
<1>5. disk'[tmp] = Text(admin[a].target) /\ \A j \in Inodes \ {tmp} : disk'[j] = disk[j]
  BY <1>2, <1>3 DEF Validated
<1>6. \A b \in Admins : b = a
  BY DEF OneOperator
<1>7. Progress(a)'
  BY ZenonT(30), <1>1, <1>2, <1>3, <1>4, <1>5 DEF Progress
<1>8. Content' = Content
  BY <1>2, <1>3, <1>5 DEF Content, Validated
<1>9. Content' # Torn /\ parse_config_text(Content') = live'
  <2>1. \A b \in Admins : admin[b].pc # "swap"
    BY <1>1, <1>6
  <2> QED
    BY <1>1, <1>3, <1>8, <2>1 DEF ReplaceInv, parse_config_text
<1> QED
  BY <1>1, <1>2, <1>3, <1>6, <1>7, <1>9 DEF ReplaceInv

\* A failed write leaves the configuration file alone.
LEMMA FailKeepsFiles ==
    ASSUME OneOperator, Validated, ReplaceInv, NEW a \in Admins, WriteFails(a)
    PROVE  ReplaceInv'
<1>1. /\ admin[a].pc \in {"open", "body", "rename"}
      /\ admin' = [admin EXCEPT ![a] = AdminIdle] /\ UNCHANGED <<path, tmp, disk, up, live>>
  BY DEF WriteFails, files
<1>2. admin'[a].pc = "idle"
  BY <1>1 DEF Validated, AdminIdle
<1>3. \A b \in Admins : b = a
  BY DEF OneOperator
<1>4. Progress(a)'
  BY <1>2 DEF Progress
<1>5. Content' = Content
  BY <1>1 DEF Content
<1>6. up = "up" => Content' # Torn /\ parse_config_text(Content') = live'
  <2>1. \A b \in Admins : admin[b].pc # "swap"
    BY <1>1, <1>3
  <2> QED
    BY <1>1, <1>5, <2>1 DEF ReplaceInv, parse_config_text
<1> QED
  BY <1>1, <1>2, <1>3, <1>4, <1>6 DEF ReplaceInv

\* The rename puts the whole body in place, the swap makes it live.
LEMMA RenameKeepsFiles ==
    ASSUME OneOperator, Validated, ReplaceInv, NEW a \in Admins, Rename(a)
    PROVE  ReplaceInv'
<1>1. Progress(a) /\ admin[a].pc = "rename" /\ up = "up"
  BY DEF ReplaceInv, Rename
<1>2. tmp # None /\ tmp # path /\ disk[tmp] = Text(admin[a].target) /\ tmp \in Inodes
  BY ZenonT(30), <1>1 DEF Progress, ReplaceInv, Validated
<1>3. /\ path' = tmp /\ tmp' = None /\ UNCHANGED <<up, live>>
      /\ disk' = [i \in Inodes |->
                  IF i = path /\ \A b \in Admins : admin[b].fd # i THEN Blank ELSE disk[i]]
      /\ admin' = [admin EXCEPT ![a].pc = "swap"]
  BY DEF Rename, Goto
<1>4. /\ admin'[a].pc = "swap"
      /\ admin'[a].name = admin[a].name /\ admin'[a].target = admin[a].target
  BY <1>3 DEF Validated, AdminRecord
<1>5. disk'[tmp] = Text(admin[a].target)
  BY <1>2, <1>3
<1>6. \A b \in Admins : b = a
  BY DEF OneOperator
<1>7. Progress(a)'
  BY <1>1, <1>2, <1>3, <1>4, <1>5 DEF Progress
<1> QED
  BY <1>1, <1>2, <1>3, <1>4, <1>6, <1>7 DEF ReplaceInv

LEMMA SwapKeepsFiles ==
    ASSUME OneOperator, Validated, ReplaceInv, NEW a \in Admins, Swap(a)
    PROVE  ReplaceInv'
<1>1. Progress(a) /\ admin[a].pc = "swap" /\ up = "up"
  BY DEF ReplaceInv, Swap
<1>2. /\ live' = admin[a].target /\ admin' = [admin EXCEPT ![a] = AdminIdle]
      /\ UNCHANGED <<path, tmp, disk, up>>
  BY DEF Swap, files
<1>3. admin'[a].pc = "idle"
  BY <1>2 DEF Validated, AdminIdle
<1>4. \A b \in Admins : b = a
  BY DEF OneOperator
<1>5. Progress(a)'
  BY <1>3 DEF Progress
<1>6. Content' = Text(admin[a].target)
  BY ZenonT(30), <1>1, <1>2 DEF Content, Progress
<1>7. Content' # Torn /\ parse_config_text(Content') = live'
  BY <1>2, <1>6, TextFacts DEF parse_config_text
<1> QED
  BY <1>1, <1>2, <1>3, <1>4, <1>5, <1>7 DEF ReplaceInv

LEMMA ReplaceStep ==
    ASSUME OneOperator, Validated, ReplaceInv, [Next]_vars
    PROVE  ReplaceInv'
<1>1. ASSUME UNCHANGED <<disk, path, tmp, up, live, admin>> PROVE ReplaceInv'
  <2>1. Content' = Content
    BY <1>1 DEF Content
  <2>2. \A a \in Admins : Progress(a)'
    BY ZenonT(30), <1>1 DEF ReplaceInv, Progress
  <2> QED
    BY <1>1, <2>1, <2>2 DEF ReplaceInv, parse_config_text
<1>2. ASSUME NEW r \in Requests,
             \/ \E n \in Names, required \in BOOLEAN : Prepare(r, n, required)
             \/ \E event \in Event : Verify(r, event)
             \/ Forward(r)
      PROVE  ReplaceInv'
  BY <1>1, <1>2, ZenonT(30) DEF Prepare, Verify, Forward, files
<1>3. ASSUME NEW w \in Rounds, Prewarm(w) \/ Refresh(w) \/ \E n \in Names : Probe(w, n)
      PROVE  ReplaceInv'
  BY <1>1, <1>3, ZenonT(30) DEF Prewarm, Refresh, Probe, files
<1>4. CASE UNCHANGED vars
  BY <1>1, <1>4 DEF vars, files
<1> QED
  BY <1>2, <1>3, <1>4, StartKeepsFiles, BeginKeepsFiles, OpenKeepsFiles, WriteKeepsFiles,
     FailKeepsFiles, RenameKeepsFiles, SwapKeepsFiles DEF Next

-----------------------------------------------------------------------------
(* Background verification.                                                *)

\* An upstream is being taken care of: it has been verified, or will be.
Tended(n) ==
    \/ n \in probed
    \/ \E w \in Rounds :
        \/ round[w].pc = "spawned"
        \/ n \in round[w].todo /\ round[w].config[n] = live[n]

AllTended == up = "up" => \A n \in Verifiable(live) : Tended(n)

\* A round's verifier for a target binds the target's origin: it was chosen by
\* that origin, or is the target's own.
LEMMA TargetsBound ==
    ASSUME NEW cfg, NEW n, NEW event \in EventsOf(cfg, n, cfg[n].origin),
           event.result = "verified"
    PROVE  event.binding = cfg[n].origin
<1> DEFINE origin == cfg[n].origin
<1>1. event # FailedEvent(origin)
  BY DEF FailedEvent
<1>2. PICK m \in VerifiersFor(cfg, n, origin) : event = VerifiedEvent(cfg[m], origin)
  BY <1>1 DEF EventsOf
<1>3. cfg[m].origin = origin
  BY <1>2 DEF VerifiersFor
<1> QED
  BY ZenonT(30), <1>2, <1>3 DEF VerifiedEvent

\* So the second half of the property holds in every state.
LEMMA BackgroundFrom ==
    ASSUME AllTended
    PROVE  VerifiedInBackground
<1>1. \A w \in Rounds : \A n \in round[w].todo : \A event \in TargetEvents(w, n) :
          event.result = "verified" => event.binding = round[w].config[n].origin
  BY ZenonT(30), TargetsBound DEF TargetEvents
<1> QED
  BY <1>1, Zenon DEF VerifiedInBackground, AllTended, Tended

LEMMA IdleRound ==
    RoundIdle \in RoundRecord /\ RoundIdle.todo = {} /\ RoundIdle.pc = "idle"
  BY ZenonT(30), EmptyIsConfig DEF RoundIdle, RoundRecord

\* A task that has been spawned.
LEMMA SpawnKeeps ==
    ASSUME RoundsInv, NEW w \in Rounds, Spawn(w), probed' \subseteq Names
    PROVE  RoundsInv' /\ round'[w].pc = "spawned"
<1> DEFINE new == [round[w] EXCEPT !.pc = "spawned"]
<1>1. round \in [Rounds -> RoundRecord] /\ round[w].pc = "idle" /\ round[w].todo = {}
  BY DEF RoundsInv, Spawn
<1>2. new \in RoundRecord /\ new.pc = "spawned" /\ new.todo = {}
  BY <1>1 DEF RoundRecord
<1>3. round' = [round EXCEPT ![w] = new]
  BY DEF Spawn
<1> HIDE DEF new
<1> QED
  BY <1>1, <1>2, <1>3 DEF RoundsInv

\* A round takes its targets from what is live and enabled.
LEMMA TakeKeeps ==
    ASSUME RoundsInv, live \in Config, NEW w \in Rounds, NEW pc \in {"prewarm", "refresh"},
           NEW todo \in SUBSET {n \in DOMAIN live : live[n].enabled}, Take(w, todo, pc),
           UNCHANGED probed
    PROVE  /\ RoundsInv'
           /\ \A v \in Rounds \ {w} : round'[v] = round[v]
           /\ Verifiable(live) # {} => round'[w].todo = todo
           /\ \A n \in round'[w].todo : round'[w].config[n] = live[n]
<1> DEFINE S == {n \in DOMAIN live : live[n].enabled}
           cfg == Restrict(live, S)
           new == [pc |-> pc, todo |-> todo, config |-> cfg]
<1>1. PICK N \in SUBSET Names : live \in [N -> Upstream]
  BY DEF Config
<1>2. cfg \in [S -> Upstream] /\ S \in SUBSET Names /\ \A n \in S : cfg[n] = live[n]
  BY <1>1 DEF Restrict
<1>3. cfg \in Config
  BY ZenonT(30), <1>2 DEF Config
<1>4. DOMAIN cfg = S
  BY <1>2
<1> HIDE DEF cfg
<1>5. new \in RoundRecord
  BY <1>2, <1>3 DEF RoundRecord
<1>6. new.todo = todo /\ new.config = cfg /\ new.pc = pc
  OBVIOUS
<1>7. round' = [round EXCEPT ![w] = IF Verifiable(live) = {} \/ todo = {} THEN RoundIdle ELSE new]
  BY DEF Take, cfg
<1> HIDE DEF new
<1>8. round \in [Rounds -> RoundRecord]
  BY DEF RoundsInv
<1>9. CASE Verifiable(live) = {} \/ todo = {}
  <2>1. round' = [round EXCEPT ![w] = RoundIdle]
    BY ZenonT(30), <1>7, <1>9
  <2>2. round'[w] = RoundIdle /\ \A v \in Rounds \ {w} : round'[v] = round[v]
    BY <1>8, <2>1
  <2>3. RoundsInv'
    BY <1>8, <2>1, <2>2, IdleRound DEF RoundsInv
  <2> QED
    BY ZenonT(30), <1>9, <2>2, <2>3, IdleRound
<1>10. CASE ~(Verifiable(live) = {} \/ todo = {})
  <2>1. round' = [round EXCEPT ![w] = new]
    BY <1>7, <1>10
  <2>2. round'[w] = new /\ \A v \in Rounds \ {w} : round'[v] = round[v]
    BY <1>8, <2>1
  <2>3. RoundsInv'
    BY ZenonT(30), <1>4, <1>5, <1>6, <1>8, <2>1, <2>2 DEF RoundsInv
  <2> QED
    BY <1>2, <1>6, <2>2, <2>3
<1> QED
  BY <1>9, <1>10

BackgroundInv == RoundsInv /\ AllTended

\* Start-up spawns a round.
LEMMA LoadTends ==
    ASSUME BackgroundInv, NEW w \in Rounds, Load(w)
    PROVE  BackgroundInv'
<1>1. Spawn(w) /\ UNCHANGED probed
  BY DEF Load
<1>2. RoundsInv' /\ round'[w].pc = "spawned"
  BY <1>1, SpawnKeeps DEF BackgroundInv, RoundsInv
<1>3. AllTended'
  BY <1>2 DEF AllTended, Tended
<1> QED
  BY <1>2, <1>3 DEF BackgroundInv

LEMMA CrashTends ==
    ASSUME Crash
    PROVE  BackgroundInv'
<1>1. round' = [w \in Rounds |-> RoundIdle] /\ probed' = {} /\ up' = "down"
  BY DEF Crash
<1>2. RoundsInv'
  BY <1>1, IdleRound DEF RoundsInv
<1> QED
  BY <1>1, <1>2 DEF BackgroundInv, AllTended

\* A swap spawns a round, except for a PATCH that disables: what remains in
\* service then is as it was.
LEMMA SwapTends ==
    ASSUME BackgroundInv, Validated, ReplaceInv, NEW a \in Admins, Swap(a)
    PROVE  BackgroundInv'
<1> DEFINE target == admin[a].target
           name == admin[a].name
<1>1. /\ live' = target /\ up' = up /\ admin[a].pc = "swap"
      /\ probed' = {n \in probed : Enabled(target, n) /\ target[n] = live[n]}
  BY DEF Swap
<1>2. probed' \subseteq Names
  BY <1>1 DEF BackgroundInv, RoundsInv
<1>3. CASE Prewarms(a)
  <2>1. PICK w \in Rounds : Spawn(w)
    BY <1>3 DEF Swap
  <2>2. RoundsInv' /\ round'[w].pc = "spawned"
    BY <1>2, <2>1, SpawnKeeps DEF BackgroundInv
  <2>3. AllTended'
    BY <2>2 DEF AllTended, Tended
  <2> QED
    BY <2>2, <2>3 DEF BackgroundInv
<1>4. CASE ~Prewarms(a)
  <2>1. round' = round /\ name # None /\ ~target[name].enabled
    BY ZenonT(30), <1>4 DEF Swap, Prewarms
  <2>2. /\ name \in DOMAIN live /\ DOMAIN target = DOMAIN live
        /\ \A n \in DOMAIN live \ {name} : target[n] = live[n]
    BY ZenonT(30), <1>1, <2>1 DEF ReplaceInv, Progress
  <2> HIDE DEF target, name
  <2>3. \A n \in Verifiable(target) : n \in Verifiable(live) /\ target[n] = live[n] /\ Enabled(target, n)
    BY <2>1, <2>2 DEF Verifiable, Enabled
  <2>4. RoundsInv'
    BY <1>2, <2>1 DEF BackgroundInv, RoundsInv
  <2>5. AllTended'
    <3> SUFFICES ASSUME up = "up", NEW n \in Verifiable(target)
                 PROVE  Tended(n)'
      BY <1>1 DEF AllTended, Verifiable
    <3>1. Tended(n) /\ target[n] = live[n] /\ Enabled(target, n)
      BY <2>3 DEF BackgroundInv, AllTended
    <3> QED
      BY ZenonT(30), <1>1, <2>1, <3>1 DEF Tended
  <2> QED
    BY <2>4, <2>5 DEF BackgroundInv
<1> QED
  BY <1>3, <1>4

\* A prewarm takes every upstream in service; a refresh takes the place of a
\* round that had nothing left to do.
LEMMA TakeTends ==
    ASSUME BackgroundInv, Validated, NEW w \in Rounds, Prewarm(w) \/ Refresh(w)
    PROVE  BackgroundInv'
<1>1. UNCHANGED <<up, live, probed>>
  BY DEF Prewarm, Refresh
<1>2. RoundsInv /\ live \in Config
  BY DEF BackgroundInv, Validated
<1>3. CASE Prewarm(w)
  <2> DEFINE todo == {n \in DOMAIN live : live[n].enabled}
  <2>1. Take(w, todo, "prewarm")
    BY <1>3 DEF Prewarm
  <2>2. /\ RoundsInv' /\ (Verifiable(live) # {} => round'[w].todo = todo)
        /\ \A n \in round'[w].todo : round'[w].config[n] = live[n]
    BY ZenonT(30), <1>1, <1>2, <2>1, TakeKeeps
  <2>3. \A n \in Verifiable(live) : n \in todo
    BY DEF Verifiable
  <2> HIDE DEF todo
  <2>4. ASSUME NEW n \in Verifiable(live) PROVE Tended(n)'
    BY ZenonT(30), <1>1, <2>2, <2>3 DEF Tended
  <2>5. AllTended'
    BY <1>1, <2>4 DEF AllTended, Verifiable
  <2> QED
    BY <2>2, <2>5 DEF BackgroundInv
<1>4. CASE Refresh(w)
  <2> DEFINE todo == {n \in DOMAIN live : live[n].enabled /\ live[n].refresh}
  <2>1. Take(w, todo, "refresh") /\ round[w].pc = "idle"
    BY ZenonT(30), <1>4 DEF Refresh
  <2>2. round[w].todo = {}
    BY <1>2, <2>1 DEF RoundsInv
  <2>3. todo \in SUBSET {n \in DOMAIN live : live[n].enabled}
    OBVIOUS
  <2> HIDE DEF todo
  <2>4. RoundsInv' /\ \A v \in Rounds \ {w} : round'[v] = round[v]
    BY ZenonT(30), <1>1, <1>2, <2>1, <2>3, TakeKeeps
  <2>5. ASSUME NEW n, Tended(n) PROVE Tended(n)'
    BY <1>1, <2>1, <2>2, <2>4, <2>5 DEF Tended
  <2>6. AllTended'
    BY <1>1, <2>5 DEF BackgroundInv, AllTended, Verifiable
  <2> QED
    BY <2>4, <2>6 DEF BackgroundInv
<1> QED
  BY <1>3, <1>4

\* A target judged by the configuration in service has been verified.
LEMMA ProbeTends ==
    ASSUME BackgroundInv, Validated, NEW w \in Rounds, NEW n \in Names, Probe(w, n)
    PROVE  BackgroundInv'
<1> DEFINE new == IF round[w].todo = {n} THEN RoundIdle
                  ELSE [round[w] EXCEPT !.todo = round[w].todo \ {n}]
<1>1. /\ n \in round[w].todo /\ UNCHANGED <<up, live>>
      /\ probed' = probed \cup {m \in {n} : InService(m, round[w].config)}
      /\ round' = [round EXCEPT ![w] = new]
  BY DEF Probe
<1>2. round \in [Rounds -> RoundRecord] /\ round[w].todo \subseteq DOMAIN round[w].config
  BY DEF BackgroundInv, RoundsInv
<1>3. /\ new \in RoundRecord /\ new.todo = round[w].todo \ {n}
      /\ new.todo \subseteq DOMAIN new.config
      /\ new.pc \in {"idle", "spawned"} => new.todo = {}
      /\ \A m \in new.todo : new.config[m] = round[w].config[m]
  <2>1. CASE round[w].todo = {n}
    BY <1>2, <2>1, IdleRound
  <2>2. CASE round[w].todo # {n}
    <3>1. new = [round[w] EXCEPT !.todo = round[w].todo \ {n}]
      BY <2>2
    <3>2. round[w] \in RoundRecord
      BY <1>2
    <3>3. /\ new \in RoundRecord /\ new.todo = round[w].todo \ {n}
          /\ new.config = round[w].config /\ new.pc = round[w].pc
      BY <3>1, <3>2 DEF RoundRecord
    <3>4. round[w].pc \notin {"idle", "spawned"}
      BY DEF Probe
    <3> QED
      BY <1>2, <3>3, <3>4
  <2> QED
    BY <2>1, <2>2
<1> HIDE DEF new
<1>4. round'[w] = new /\ \A v \in Rounds \ {w} : round'[v] = round[v]
  BY <1>1, <1>2
<1>5. probed' \subseteq Names
  BY <1>1 DEF BackgroundInv, RoundsInv
<1>6. RoundsInv'
  BY ZenonT(30), <1>1, <1>2, <1>3, <1>4, <1>5 DEF BackgroundInv, RoundsInv
<1>7. ASSUME NEW m \in Verifiable(live), Tended(m) PROVE Tended(m)'
  <2>1. CASE m \in probed
    BY <1>1, <2>1 DEF Tended
  <2>2. CASE \E v \in Rounds \ {w} : \/ round[v].pc = "spawned"
                                     \/ m \in round[v].todo /\ round[v].config[m] = live[m]
    BY ZenonT(30), <1>1, <1>4, <2>2 DEF Tended
  <2>3. round[w].pc # "spawned"
    BY DEF Probe
  <2>4. CASE m \in round[w].todo /\ round[w].config[m] = live[m] /\ m # n
    <3>1. m \in new.todo /\ new.config[m] = live[m]
      BY ZenonT(30), <1>3, <2>4
    <3> QED
      BY <1>1, <1>4, <3>1 DEF Tended
  <2>5. CASE m \in round[w].todo /\ round[w].config[m] = live[m] /\ m = n
    <3>1. m \in DOMAIN live /\ live[m].enabled /\ m \in DOMAIN round[w].config
      BY <1>2, <2>5 DEF Verifiable
    <3>2. InService(m, round[w].config)
      BY <2>5, <3>1 DEF InService, Enabled
    <3> QED
      BY ZenonT(30), <1>1, <2>5, <3>2 DEF Tended
  <2> QED
    BY ZenonT(30), <1>7, <2>1, <2>2, <2>3, <2>4, <2>5 DEF Tended
<1>8. AllTended'
  BY ZenonT(30), <1>1, <1>7 DEF BackgroundInv, AllTended, Verifiable
<1> QED
  BY <1>6, <1>8 DEF BackgroundInv

LEMMA BackgroundStep ==
    ASSUME BackgroundInv, Validated, ReplaceInv, [Next]_vars
    PROVE  BackgroundInv'
<1>1. ASSUME UNCHANGED <<live, round, probed>>, up' = "up" => up = "up" PROVE BackgroundInv'
  BY ZenonT(30), <1>1 DEF BackgroundInv, RoundsInv, AllTended, Tended, Verifiable
<1>2. CASE (\E i \in Inodes : SeedOpen(i)) \/ SeedWrite
  BY <1>1, <1>2 DEF SeedOpen, SeedWrite, background
<1>3. ASSUME NEW a \in Admins,
             \/ \E config \in Submitted : Put(a, config)
             \/ \E n \in Names, enabled \in BOOLEAN : Patch(a, n, enabled)
             \/ \E i \in Inodes : OpenTmp(a, i)
             \/ \E text \in {Text(admin[a].target), Torn} : WriteBody(a, text)
             \/ WriteFails(a)
             \/ Rename(a)
      PROVE  BackgroundInv'
  <2>1. UNCHANGED <<live, round, probed, up>>
    BY <1>3, ZenonT(30) DEF Put, Patch, OpenTmp, WriteBody, WriteFails, Rename, background
  <2> QED
    BY <1>1, <2>1
<1>4. ASSUME NEW r \in Requests,
             \/ \E n \in Names, required \in BOOLEAN : Prepare(r, n, required)
             \/ \E event \in Event : Verify(r, event)
             \/ Forward(r)
      PROVE  BackgroundInv'
  <2>1. UNCHANGED <<live, round, probed, up>>
    BY <1>4, ZenonT(30) DEF Prepare, Verify, Forward, background
  <2> QED
    BY <1>1, <2>1
<1>5. CASE UNCHANGED vars
  BY <1>1, <1>5 DEF vars, background
<1> QED
  BY <1>2, <1>3, <1>4, <1>5, LoadTends, CrashTends, SwapTends, TakeTends, ProbeTends DEF Next

\* What was delivered went to an origin of the configuration.
LEMMA DeliveredStep ==
    ASSUME BindingInv, DeliveredInv, [Next]_vars
    PROVE  DeliveredInv'
<1>1. ASSUME UNCHANGED delivered PROVE DeliveredInv'
  BY <1>1 DEF DeliveredInv
<1>2. CASE Crash
  BY <1>2 DEF Crash, DeliveredInv
<1>3. ASSUME NEW r \in Requests, NEW n \in Names, NEW required \in BOOLEAN,
             Prepare(r, n, required)
      PROVE  DeliveredInv'
  BY ZenonT(30), <1>3 DEF Prepare, DeliveredInv, BindingInv, Gated
<1>4. ASSUME NEW r \in Requests, Forward(r) PROVE DeliveredInv'
  <2>1. CASE ~Reachable(r)
    BY ZenonT(30), <1>1, <1>4, <2>1 DEF Forward
  <2>2. CASE Reachable(r)
    <3> DEFINE d == [origin |-> live[req[r].name].origin,
                     required |-> req[r].required, event |-> req[r].event]
    <3>1. req[r].name \in DOMAIN live /\ live \in Config
      BY <2>2 DEF Reachable, route_for_id, Enabled, BindingInv, Validated
    <3>2. d.origin \in Origins
      BY ZenonT(30), <3>1, ConfigLookup DEF Upstream
    <3>3. d.event \in Event
      BY ZenonT(30) DEF BindingInv, Gated, RequestRecord
    <3>4. delivered' = [delivered EXCEPT ![r] = {d}] /\ DOMAIN delivered = Requests
      BY ZenonT(30), <1>4, <2>2 DEF Forward, BindingInv, Gated
    <3> HIDE DEF d
    <3> QED
      BY <3>2, <3>3, <3>4 DEF DeliveredInv
  <2> QED
    BY <2>1, <2>2
<1>5. CASE \/ \E i \in Inodes : SeedOpen(i)
           \/ SeedWrite
           \/ \E a \in Admins :
                \/ \E config \in Submitted : Put(a, config)
                \/ \E n \in Names, enabled \in BOOLEAN : Patch(a, n, enabled)
                \/ \E i \in Inodes : OpenTmp(a, i)
                \/ \E text \in {Text(admin[a].target), Torn} : WriteBody(a, text)
                \/ WriteFails(a)
                \/ Rename(a)
                \/ Swap(a)
           \/ \E r \in Requests, event \in Event : Verify(r, event)
           \/ \E w \in Rounds :
                \/ Load(w)
                \/ Prewarm(w)
                \/ Refresh(w)
                \/ \E n \in Names : Probe(w, n)
           \/ UNCHANGED vars
  <2>1. UNCHANGED delivered
    BY ZenonT(30), <1>5 DEF SeedOpen, SeedWrite, Put, Patch, OpenTmp, WriteBody, WriteFails, Rename,
       Swap, Verify, Load, Prewarm, Refresh, Probe, vars
  <2> QED
    BY <1>1, <2>1
<1> QED
  BY <1>2, <1>3, <1>4, <1>5 DEF Next

ConfigInv == BindingInv /\ DeliveredInv /\ ReplaceInv /\ BackgroundInv

\* With one operator at a time, every reachable state satisfies the inductive
\* invariant.
THEOREM ConfigInvariant ==
    ASSUME OneOperator
    PROVE  Spec => []ConfigInv
<1>1. Init => ConfigInv
  <2> SUFFICES ASSUME Init PROVE ConfigInv
    OBVIOUS
  <2>1. DeliveredInv
    BY DEF Init, DeliveredInv
  <2>2. RoundsInv /\ AllTended
    BY ZenonT(30), IdleRound DEF Init, RoundsInv, AllTended
  <2>3. \A a \in Admins : admin[a].pc = "idle"
    BY DEF Init, AdminIdle
  <2>4. ReplaceInv
    BY ZenonT(30), <2>3 DEF Init, ReplaceInv, Progress
  <2> QED
    BY <2>1, <2>2, <2>4, BindingInit DEF ConfigInv, BackgroundInv
<1>2. ConfigInv /\ [Next]_vars => ConfigInv'
  <2> SUFFICES ASSUME ConfigInv, [Next]_vars PROVE ConfigInv'
    OBVIOUS
  <2>1. BindingInv' /\ DeliveredInv'
    BY BindingStep, DeliveredStep DEF ConfigInv
  <2>2. Validated
    BY DEF ConfigInv, BindingInv
  <2> QED
    BY <2>1, <2>2, ReplaceStep, BackgroundStep DEF ConfigInv
<1> QED
  BY <1>1, <1>2, PTL DEF Spec

\* With one operator at a time and whatever the file system refuses: whenever the
\* process dies, the file is a complete configuration, the one that is live or
\* that of a call past its rename (write_config_file, replace).
THEOREM ReplacementsAreAtomic ==
    ASSUME OneOperator
    PROVE  Spec => []ReplacementIsAllOrNothing
<1>1. ConfigInv => ReplacementIsAllOrNothing
  <2> SUFFICES ASSUME ConfigInv PROVE ReplacementIsAllOrNothing
    OBVIOUS
  <2>1. /\ Validated /\ Gated /\ DeliveredInv /\ ReplaceInv /\ RoundsInv
    BY DEF ConfigInv, BindingInv, BackgroundInv
  <2>2. \A i \in Inodes : disk[i] \in {Blank, Torn} \cup {Text(disk[i].config)}
    <3> SUFFICES ASSUME NEW i \in Inodes, disk[i] \notin {Blank, Torn}
                 PROVE  disk[i] = Text(disk[i].config)
      OBVIOUS
    <3>1. PICK config \in Config : disk[i] = Text(config)
      BY <2>1 DEF Validated, FileContent
    <3> QED
      BY SMTT(30), <3>1 DEF Text
  <2>3. DOMAIN disk = Inodes /\ \A i \in Inodes : disk[i].config \in Config
    BY <2>1, Contents DEF Validated
  <2>4. \A r \in Requests : req[r].event \in Event /\ req[r].pc \in {"idle", "verify", "forward"}
    BY <2>1 DEF Gated, RequestRecord
  <2>5. \A w \in Rounds : /\ round[w].config \in Config
                          /\ round[w].todo \subseteq DOMAIN round[w].config
    BY <2>1 DEF RoundsInv, RoundRecord
  <2>6. ConfigTypeOK
    BY ZenonT(30), <2>1, <2>2, <2>3, <2>4, <2>5 DEF ConfigTypeOK, Validated, DeliveredInv, ReplaceInv, RoundsInv
  <2>7. ASSUME up = "up"
        PROVE  /\ Content # Torn
               /\ \/ parse_config_text(Content) = live
                  \/ \E a \in Admins : admin[a].pc = "swap" /\ Content = Text(admin[a].target)
    <3>1. CASE \A a \in Admins : admin[a].pc # "swap"
      BY <2>1, <2>7, <3>1 DEF ReplaceInv
    <3>2. ASSUME NEW a \in Admins, admin[a].pc = "swap"
          PROVE  Content # Torn /\ Content = Text(admin[a].target)
      BY ZenonT(30), <2>1, <3>2, TextFacts DEF ReplaceInv, Progress, Content
    <3> QED
      BY <3>1, <3>2
  <2> QED
    BY ZenonT(30), <2>6, <2>7 DEF ReplacementIsAllOrNothing
<1> QED
  BY <1>1, ConfigInvariant, PTL

\* With one operator at a time: every upstream in service that can be verified
\* has been since it was put in service, or a round that will verify it is
\* pending or running (prewarm_upstream_verification, run_upstream_verification).
THEOREM ServiceIsTended ==
    ASSUME OneOperator
    PROVE  Spec => []VerifiedInBackground
<1>1. ConfigInv => VerifiedInBackground
  BY BackgroundFrom DEF ConfigInv, BackgroundInv
<1> QED
  BY <1>1, ConfigInvariant, PTL

=============================================================================
