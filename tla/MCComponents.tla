---------------------------- MODULE MCComponents ----------------------------
(* The components whose safety is checked on their own.  They share no state, so one
   of them runs in each behaviour and the others stay as they are.

   Session: two scopes, two membership versions and three requests, so that an answer
   to the first request can arrive while the third is open.  Queue: capacity two and
   four samples, so that the positions wrap.  Panel: three numbered events, two of
   them on their way at once.  Core: two callback threads.  Rate: two requests in a
   window of two.  API: two calls in flight, three sessions, two groups; a membership
   may become leaderless, silenced or invalid.  Directory: two clients, a third member
   that exceeds the limit, one revision of history, two changes and two foreign polls. *)
EXTENDS VoiceSession, SampleQueue, VoicePanel, ClientCore, RateLimiter, ServerApi,
        DirectorySync, TLC

VARIABLE part   \* the component that runs

CONSTANTS team, squad   \* VoiceScope values, as model values

MCScopes == {team, squad}
MCSamples == {0, 1, -1}

(* The hierarchy and the role policy of the deployment, and its memberships. *)
MCSpecializationGroup == ("s1" :> "g1") @@ ("s2" :> "g2")
MCTeamSpecialization == ("t1" :> "s1") @@ ("t2" :> "s1") @@ ("t3" :> "s2")
MCTransmitScopes ==
    ("leader" :> {"team", "group"}) @@ ("member" :> {}) @@ ("administrator" :> {"team"})
MCReceiveScopes ==
    ("leader" :> {"team", "group"}) @@ ("member" :> {"team", "group"}) @@ ("administrator" :> {})

Placed(g, s, t, roles) ==
    [group |-> g, specialization |-> s, team |-> t, roles |-> roles, connected |-> TRUE,
     canReceive |-> TRUE, muted |-> FALSE, banned |-> FALSE]

MCInitialMembership ==
    ("user" :> Placed("g1", "s1", "t1", {"leader"})) @@
    ("admin" :> Placed("g1", "s1", "t2", {"administrator", "member"}))

MCReplacements ==
    {Placed("g1", "s1", "t2", {"none"}),
     [Placed("g2", "s2", "t3", {"leader"}) EXCEPT !.muted = TRUE],
     Placed("g2", "s1", "t2", {"leader"})}

Parts ==
    {"session", "queue", "panel", "core", "rate", "api", "sync"}

ComponentsInit ==
    /\ part \in Parts
    /\ Init /\ QueueInit /\ PanelInit /\ CoreInit /\ RateInit
    /\ ApiInit /\ SyncInit
    /\ part # "api" => speaking = {}

(* All components but the one that runs stay as they are. *)
OthersUnchanged(p) ==
    /\ UNCHANGED part
    /\ p # "session" => UNCHANGED vars
    /\ p # "queue" => UNCHANGED queueVars
    /\ p # "panel" => UNCHANGED panelVars
    /\ p # "core" => UNCHANGED coreVars
    /\ p # "rate" => UNCHANGED rateVars
    /\ p # "api" => UNCHANGED apiVars
    /\ p # "sync" => UNCHANGED allSyncVars

ComponentsNext ==
    \/ part = "session" /\ Next /\ OthersUnchanged("session")
    \/ part = "queue" /\ QueueNext /\ OthersUnchanged("queue")
    \/ part = "panel" /\ PanelNext /\ OthersUnchanged("panel")
    \/ part = "core" /\ CoreNext /\ OthersUnchanged("core")
    \/ part = "rate" /\ RateNext /\ OthersUnchanged("rate")
    \/ part = "api" /\ ApiNext /\ OthersUnchanged("api")
    \/ part = "sync" /\ SyncNext /\ OthersUnchanged("sync")

componentsVars ==
    <<part, vars, queueVars, panelVars, coreVars, rateVars, apiVars, allSyncVars>>

ComponentsSpec == ComponentsInit /\ [][ComponentsNext]_componentsVars

\* Every variable of the component that runs keeps its type.
ComponentsTypeOK ==
    /\ part = "session" => TypeOK
    /\ part = "queue" => QueueTypeOK
    /\ part = "panel" => PanelTypeOK
    /\ part = "core" => CoreTypeOK
    /\ part = "rate" => RateTypeOK
    /\ part = "api" => ApiTypeOK
    /\ part = "sync" => SyncTypeOK
=============================================================================
