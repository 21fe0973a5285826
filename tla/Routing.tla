------------------------------ MODULE Routing -------------------------------
(***************************************************************************)
(* Who may speak to whom: the hierarchy and the membership snapshot        *)
(* (libs/domain/src/model.cpp), the recipients of a transmission           *)
(* (libs/domain/src/routing.cpp), the claims of a voice grant              *)
(* (libs/application/src/control_plane.cpp) and the media rooms that are   *)
(* named from them (libs/livekit/src/livekit_token.cpp).                   *)
(*                                                                         *)
(* The list of recipients decides nothing about the audio: whoever joined  *)
(* a room hears what is published in it.  The two are computed apart, from *)
(* the same snapshot, one by comparing whole paths of the hierarchy and    *)
(* the other by the id of one node; RoomsReach says when they agree.       *)
(***************************************************************************)
EXTENDS Integers, FiniteSets

CONSTANTS
    SpecializationGroup, \* function: the group of each specialization
    TeamSpecialization,  \* function: the specialization of each team
    Groups,              \* groups of the hierarchy
    InactiveGroups,      \* those whose active flag is off
    DefinedScopes,       \* scopes the hierarchy defines
    TransmitScopes,      \* function: the transmit_scopes of each role
    ReceiveScopes        \* function: the receive_scopes of each role

VoiceScopes == {"team", "specialization", "group"}

(* The constructor of Hierarchy: what it does not throw for.  Ids are unique because the nodes are functions. *)
HierarchyValid ==
    /\ \A s \in DOMAIN SpecializationGroup : SpecializationGroup[s] \in Groups
    /\ \A t \in DOMAIN TeamSpecialization : TeamSpecialization[t] \in DOMAIN SpecializationGroup

ASSUME RoutingAssumption ==
    /\ HierarchyValid
    /\ InactiveGroups \subseteq Groups
    /\ DefinedScopes \subseteq VoiceScopes
    /\ DOMAIN TransmitScopes = DOMAIN ReceiveScopes

SlipFormsPath(m) ==
    /\ m.group \in Groups
    /\ m.specialization \in DOMAIN SpecializationGroup
    /\ m.team \in DOMAIN TeamSpecialization

(* A membership: a path of the hierarchy, roles, and the flags of VoiceMembership. *)
FormsPath(m) ==
    /\ m.group \in Groups
    /\ m.specialization \in DOMAIN SpecializationGroup
    /\ m.team \in DOMAIN TeamSpecialization
    /\ SpecializationGroup[m.specialization] = m.group
    /\ TeamSpecialization[m.team] = m.specialization

(* The constructor of MembershipSnapshot: one membership for each player, each a path of the hierarchy. *)
SnapshotValid(snapshot) ==
    /\ snapshot.version # 0
    /\ \A p \in DOMAIN snapshot.members : FormsPath(snapshot.members[p])

(* MembershipSnapshot::find *)
Finds(snapshot, p) == p \in DOMAIN snapshot.members

(* RolePolicy::canTransmit and canReceive: a role the policy does not know grants nothing. *)
CanTransmit(roles, scope) ==
    \E r \in roles \cap DOMAIN TransmitScopes : scope \in TransmitScopes[r]
CanReceive(roles, scope) ==
    \E r \in roles \cap DOMAIN ReceiveScopes : scope \in ReceiveScopes[r]

-----------------------------------------------------------------------------
(* Recipients of a transmission (RecipientResolver::resolve). *)

BelongsToScope(sender, candidate, scope) ==
    /\ candidate.group = sender.group
    /\ scope \in {"team", "specialization"} => candidate.specialization = sender.specialization
    /\ scope = "team" => candidate.team = sender.team

IsRestricted(restrictions, recipient, sender) == <<recipient, sender>> \in restrictions

(* The first rejection that applies, or "none". *)
RoutingError(snapshot, sender, scope, version) ==
    IF version # snapshot.version THEN "voice_membership_stale"
    ELSE IF ~Finds(snapshot, sender) THEN "voice_no_active_membership"
    ELSE LET m == snapshot.members[sender] IN
         IF ~m.connected THEN "voice_not_connected"
         ELSE IF m.group \in InactiveGroups THEN "voice_no_active_membership"
         ELSE IF scope \notin DefinedScopes THEN "voice_scope_not_found"
         ELSE IF m.muted \/ m.banned THEN "voice_transmit_muted"
         ELSE IF ~CanTransmit(m.roles, scope) THEN "voice_scope_not_authorized"
         ELSE "none"

Hears(snapshot, p, scope) ==
    LET m == snapshot.members[p]
    IN m.connected /\ m.canReceive /\ CanReceive(m.roles, scope)

Recipients(snapshot, sender, scope, restrictions) ==
    {p \in DOMAIN snapshot.members :
        /\ Hears(snapshot, p, scope)
        /\ BelongsToScope(snapshot.members[sender], snapshot.members[p], scope)
        /\ ~IsRestricted(restrictions, p, sender)}

-----------------------------------------------------------------------------
(* Voice grants and media rooms. *)

(* scopeNodeId: one id names the node of a scope. *)
ScopeNodeId(m, scope) ==
    CASE scope = "team" -> m.team
      [] scope = "specialization" -> m.specialization
      [] scope = "group" -> m.group

(* sameScopeNode: the speaker limit counts transmissions of one node. *)
SameScopeNode(a, b, scope) == ScopeNodeId(a, scope) = ScopeNodeId(b, scope)

(* VoiceGrantAuthorizationService::derive, its checks of the membership. *)
GrantError(snapshot, p) ==
    IF ~Finds(snapshot, p) THEN "player_not_in_membership"
    ELSE IF ~snapshot.members[p].connected THEN "voice_not_connected"
    ELSE "none"

(* and the claims it derives. *)
DerivedTransmit(m) ==
    {scope \in DefinedScopes : ~m.muted /\ ~m.banned /\ CanTransmit(m.roles, scope)}
DerivedReceive(m) ==
    {scope \in DefinedScopes : m.canReceive /\ CanReceive(m.roles, scope)}

RoomFor(m, scope) == <<scope, ScopeNodeId(m, scope)>>

(* LiveKitTokenAdapter::issue: a token for each room the claims name, none of which may publish yet. *)
Issue(m) ==
    {[scope |-> scope, room |-> RoomFor(m, scope), subscribe |-> scope \in DerivedReceive(m)] :
        scope \in DerivedTransmit(m) \cup DerivedReceive(m)}

(* publicationRoom: the room in which a started transmission may publish. *)
PublicationRoom(snapshot, sender, scope) ==
    <<scope, ScopeNodeId(snapshot.members[sender], scope)>>

(* Those who hold a token that lets them hear the room. *)
Audience(snapshot, room) ==
    {p \in DOMAIN snapshot.members :
        /\ GrantError(snapshot, p) = "none"
        /\ \E g \in Issue(snapshot.members[p]) : g.room = room /\ g.subscribe}

(* The audience of the room a sender publishes in is the list of           *)
(* recipients, the sender holds a token of that room, and two members      *)
(* count against one speaker limit when they belong to one scope.          *)
RoomsReach(snapshot) ==
    \A sender \in DOMAIN snapshot.members, scope \in VoiceScopes :
        RoutingError(snapshot, sender, scope, snapshot.version) = "none" =>
            /\ Recipients(snapshot, sender, scope, {}) =
                 Audience(snapshot, PublicationRoom(snapshot, sender, scope))
            /\ \E g \in Issue(snapshot.members[sender]) :
                   g.room = PublicationRoom(snapshot, sender, scope)
            /\ \A p \in DOMAIN snapshot.members :
                   SameScopeNode(snapshot.members[sender], snapshot.members[p], scope) <=>
                       BelongsToScope(snapshot.members[sender], snapshot.members[p], scope)
=============================================================================
