----------------------------- MODULE VoicePanel -----------------------------
(***************************************************************************)
(* What the window shows of the other participants: VoiceClient numbers    *)
(* its connection and participant events under its lock and reports them   *)
(* after it, from several callback threads, so they reach the user         *)
(* interface in any order.  DesktopModel keeps the number of the last      *)
(* event per participant, facet and scope, and a connection generation.    *)
(***************************************************************************)
EXTENDS Naturals, FiniteSets

CONSTANTS
    Others,        \* participant IDs
    PanelScopes,   \* voice scopes
    MaxNumber,     \* bound on the events of a behaviour
    MaxFlying      \* callback threads: events numbered and not yet reported

ASSUME PanelAssumption ==
    /\ "team" \in PanelScopes /\ "none" \notin PanelScopes
    /\ MaxNumber \in Nat /\ MaxFlying \in Nat \ {0}

VARIABLES
    voiceNow,    \* VoiceClient: state_, connection_generation_, next_event_sequence_
    flying,      \* events that have their number and are not yet handled
    panel,       \* DesktopModel: generation, sequences and participant states
    selected,    \* state_.selected_channel
    heard,       \* history: the events handled since the remote state was cleared
    missed       \* history: participants of whom an event came when they were unlisted

panelVars == <<voiceNow, flying, panel, selected, heard, missed>>

Facets == {"connected", "audio", "speaking"}
Kinds == {"participant_connected", "participant_disconnected", "audio_available",
          "audio_unavailable", "speaker_started", "speaker_stopped"}
VoiceStates == {"disconnected", "connecting", "connected", "reconnecting"}

(* The facets an event of a kind is about, and whether it sets or clears them. *)
Touches(kind) ==
    CASE kind = "participant_connected" -> {"connected"}
      [] kind = "participant_disconnected" -> Facets
      [] kind = "audio_available" -> {"audio"}
      [] kind \in {"audio_unavailable", "speaker_started"} -> {"audio", "speaking"}
      [] kind = "speaker_stopped" -> {"speaking"}
Sets(kind) == kind \in {"participant_connected", "audio_available", "speaker_started"}

NoSequences == [f \in Facets |-> [k \in Others \X PanelScopes |-> 0]]

\* Type invariant.
PanelTypeOK ==
    /\ voiceNow.state \in VoiceStates /\ voiceNow.number \in 0..MaxNumber
    /\ panel.listed \subseteq Others
    /\ panel.connected \subseteq panel.listed \X PanelScopes
    /\ panel.audio \subseteq panel.listed \X PanelScopes
    /\ \A p \in Others : panel.speaking[p] \in PanelScopes \cup {"none"}
    /\ selected \in PanelScopes

PanelInit ==
    /\ voiceNow = [state |-> "connecting", generation |-> 1, number |-> 0]
    /\ flying = {}
    /\ panel = [generation |-> 0, seen |-> NoSequences, lastConnection |-> 0,
                shown |-> "connecting", listed |-> {}, member |-> FALSE, directory |-> FALSE,
                connected |-> {}, audio |-> {}, speaking |-> [p \in Others |-> "none"]]
    /\ selected = "team"
    /\ heard = {}
    /\ missed = {}

-----------------------------------------------------------------------------
(* VoiceClient: events get their number under the lock. *)

Numbered(e) == flying' = flying \cup {e}
MayNumber == voiceNow.number < MaxNumber /\ Cardinality(flying) < MaxFlying

(* onTransportStateChanged *)
OnTransportStateChanged(s) ==
    /\ MayNumber
    /\ s # voiceNow.state
    /\ voiceNow' = [state |-> s, number |-> voiceNow.number + 1,
                    generation |-> IF s = "reconnecting" THEN voiceNow.generation + 1
                                   ELSE voiceNow.generation]
    /\ Numbered([kind |-> "connection", state |-> s,
                 number |-> voiceNow'.number, generation |-> voiceNow'.generation])
    /\ UNCHANGED <<panel, selected, heard, missed>>

(* emitRemoteEvent: nothing is reported of a disconnected client. *)
EmitRemoteEvent(kind, p, scope) ==
    /\ MayNumber
    /\ voiceNow.state # "disconnected"
    /\ voiceNow' = [voiceNow EXCEPT !.number = @ + 1]
    /\ Numbered([kind |-> kind, who |-> p, scope |-> scope,
                 number |-> voiceNow'.number, generation |-> voiceNow.generation])
    /\ UNCHANGED <<panel, selected, heard, missed>>

-----------------------------------------------------------------------------
(* DesktopModel, on the user-interface thread. *)

(* clearRemoteTransportState *)
Cleared(m) == [m EXCEPT !.connected = {}, !.audio = {},
                        !.speaking = [p \in Others |-> "none"]]

(* An event of a newer generation clears what the older ones left. *)
Enter(m, e) ==
    IF e.generation > m.generation
    THEN [Cleared(m) EXCEPT !.generation = e.generation, !.seen = NoSequences,
                            !.lastConnection = 0]
    ELSE m

(* updateVoiceState *)
UpdateVoiceState(e) ==
    /\ e \in flying /\ e.kind = "connection"
    /\ flying' = flying \ {e}
    /\ LET m == Enter(panel, e)
       IN  IF e.generation < panel.generation
           THEN UNCHANGED <<panel, heard, missed>>
           ELSE /\ panel' = IF e.number <= m.lastConnection THEN m
                            ELSE [m EXCEPT !.lastConnection = e.number, !.shown = e.state]
                /\ heard' = {e} \cup IF e.generation > panel.generation THEN {} ELSE heard
                /\ missed' = IF e.generation > panel.generation THEN {} ELSE missed
    /\ UNCHANGED <<voiceNow, selected>>

(* An event that is newer in one facet is applied in all of them. *)
SlipNews(m, e) ==
    IF \E f \in Touches(e.kind) : e.number > m.seen[f][<<e.who, e.scope>>]
    THEN Touches(e.kind) ELSE {}

(* The facets in which the event is newer than what was applied. *)
News(m, e) == {f \in Touches(e.kind) : e.number > m.seen[f][<<e.who, e.scope>>]}

Advanced(m, e) ==
    [m EXCEPT !.seen = [f \in Facets |-> IF f \in News(m, e)
                                         THEN [m.seen[f] EXCEPT ![<<e.who, e.scope>>] = e.number]
                                         ELSE m.seen[f]]]

(* A participant has one speaking scope: another one's end leaves it alone. *)
SpeakingAfter(m, e) ==
    IF Sets(e.kind) THEN e.scope
    ELSE IF m.speaking[e.who] = e.scope THEN "none" ELSE m.speaking[e.who]

Changed(set, e) == IF Sets(e.kind) THEN set \cup {<<e.who, e.scope>>}
                                   ELSE set \ {<<e.who, e.scope>>}

(* Without a directory the participant becomes a placeholder. *)
Shown(m, e) ==
    LET news == News(m, e)
        n == [Advanced(m, e) EXCEPT !.listed = @ \cup {e.who}]
    IN  [n EXCEPT !.connected = IF "connected" \in news THEN Changed(@, e) ELSE @,
                  !.audio = IF "audio" \in news THEN Changed(@, e) ELSE @,
                  !.speaking = IF "speaking" \in news
                               THEN [@ EXCEPT ![e.who] = SpeakingAfter(m, e)] ELSE @]

(* applyVoiceRemoteEvent *)
ApplyVoiceRemoteEvent(e) ==
    /\ e \in flying /\ e.kind # "connection"
    /\ flying' = flying \ {e}
    /\ LET m == Enter(panel, e)
           unlisted == m.directory /\ e.who \notin m.listed
       IN  IF e.generation < panel.generation
           THEN UNCHANGED <<panel, heard, missed>>
           ELSE /\ panel' = CASE News(m, e) = {} -> m
                              [] News(m, e) # {} /\ unlisted -> Advanced(m, e)
                              [] OTHER -> Shown(m, e)
                /\ heard' = {e} \cup IF e.generation > panel.generation THEN {} ELSE heard
                /\ missed' = (IF e.generation > panel.generation THEN {} ELSE missed)
                             \cup (IF unlisted THEN {e.who} ELSE {})
    /\ UNCHANGED <<voiceNow, selected>>

(* applyDirectory: the participants become those of the directory, and keep
   what is known of them.  The first one comes with the membership. *)
ApplyDirectory(listed) ==
    /\ panel' = [panel EXCEPT !.member = TRUE, !.directory = TRUE, !.listed = listed,
                   !.connected = {k \in @ : k[1] \in listed},
                   !.audio = {k \in @ : k[1] \in listed},
                   !.speaking = [p \in Others |-> IF p \in listed THEN @[p] ELSE "none"]]
    /\ missed' = missed \cup {p \in Others \ listed : \E e \in heard : e.kind # "connection" /\ e.who = p}
    /\ UNCHANGED <<voiceNow, flying, selected, heard>>

(* applyMembership, when the group is another one. *)
GroupChanged ==
    /\ panel.member
    /\ panel' = [Cleared(panel) EXCEPT !.directory = FALSE, !.listed = {}, !.seen = NoSequences]
    /\ heard' = {e \in heard : e.kind = "connection"}
    /\ missed' = {}
    /\ selected' = "team"
    /\ UNCHANGED <<voiceNow, flying>>

(* applyMembership, when the group is the same: the team's channel is shown again. *)
MembershipUpdated ==
    /\ panel.member
    /\ selected' = "team"
    /\ UNCHANGED <<voiceNow, flying, panel, heard, missed>>

(* selectScope and selectChannel *)
SelectChannel(scope) ==
    /\ panel.member
    /\ selected' = scope
    /\ UNCHANGED <<voiceNow, flying, panel, heard, missed>>

(* rebuildSpeakers and renderStatus: the rows of the selected channel, their
   number with the user's own, and whether anyone is received. *)
Rows == {p \in panel.listed : panel.speaking[p] = selected}
ParticipantCount == 1 + Cardinality(Rows)
Receiving == \E p \in panel.listed : panel.speaking[p] # "none"

PanelNext ==
    \/ \E s \in VoiceStates : OnTransportStateChanged(s)
    \/ \E kind \in Kinds, p \in Others, scope \in PanelScopes : EmitRemoteEvent(kind, p, scope)
    \/ \E e \in flying : UpdateVoiceState(e) \/ ApplyVoiceRemoteEvent(e)
    \/ \E listed \in SUBSET Others : ApplyDirectory(listed)
    \/ GroupChanged \/ MembershipUpdated
    \/ \E scope \in PanelScopes : SelectChannel(scope)

PanelSpec == PanelInit /\ [][PanelNext]_panelVars

-----------------------------------------------------------------------------
(* Properties. *)

(* The newest event heard that is about a facet of a participant in a scope. *)
About(f, p, scope) == {e \in heard : e.kind # "connection" /\ e.who = p /\ e.scope = scope
                                     /\ f \in Touches(e.kind)}
LastSays(f, p, scope) ==
    \E e \in About(f, p, scope) : /\ Sets(e.kind)
                                  /\ \A d \in About(f, p, scope) : d.number <= e.number

\* In whatever order the events arrive, the window shows what the newest of them
\* says: nobody is shown as connected, heard or speaking whose last event says
\* otherwise, whoever was listed all along is shown, and the connection state is
\* the last one.
ShownIsNewest ==
    /\ \A p \in panel.listed, scope \in PanelScopes :
         /\ <<p, scope>> \in panel.connected => LastSays("connected", p, scope)
         /\ <<p, scope>> \in panel.audio => LastSays("audio", p, scope)
         /\ p \notin missed /\ LastSays("connected", p, scope) => <<p, scope>> \in panel.connected
         /\ p \notin missed /\ LastSays("audio", p, scope) => <<p, scope>> \in panel.audio
    /\ \A p \in Rows : LastSays("speaking", p, selected)
    /\ (ParticipantCount > 1) => Receiving
    /\ LET states == {e \in heard : e.kind = "connection"}
       IN  \A e \in states : (\A d \in states : d.number <= e.number) => panel.shown = e.state
=============================================================================
