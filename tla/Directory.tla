----------------------------- MODULE Directory ------------------------------
(***************************************************************************)
(* The directory and presence service of the control plane                 *)
(* (libs/application/src/directory.cpp) and the routes that serve it       *)
(* (libs/network/src/control_plane_http.cpp).  Under one mutex every       *)
(* request computes what its actor may see, compares it with what the      *)
(* actor's group was served last, and raises a version number if it        *)
(* differs.  Presence keeps a bounded history of revisions from which a    *)
(* delta is put together.                                                  *)
(*                                                                         *)
(* Each actor has a membership context of its own, with a snapshot of the  *)
(* members of its group; the contexts of two actors of one group need not  *)
(* agree, because a membership is replaced in one context at a time.       *)
(***************************************************************************)
EXTENDS Integers, Sequences, FiniteSets, FiniteSetsExt

CONSTANTS
    Actors,          \* players that call the service
    Members,         \* players of the snapshots; Actors is a part of it
    VoiceGroups,     \* groups of the hierarchy, numbers
    MaxParticipants, \* maximum_directory_participants
    MaxRevisions     \* maximum_presence_revisions

ASSUME DirectoryAssumption ==
    /\ Actors \subseteq Members
    /\ VoiceGroups \subseteq Nat \ {0} /\ VoiceGroups # {}
    /\ MaxParticipants \in Nat \ {0}
    /\ MaxRevisions \in Nat \ {0}

VARIABLES
    contexts,       \* membership contexts: [version, group, members] or NoMembershipContext
    inactiveGroups, \* groups whose active flag is off
    online,         \* players connected to at least one scope
    profileVersions,       \* profiles_: version of each player's profile, 0 for none
    catalog,        \* public_role_catalog_version_
    directories,    \* directory_versions_: [version, fingerprint], by group
    presences       \* presence_versions_: [version, states, revisions], by group

directoryVars == <<contexts, inactiveGroups, online, profileVersions, catalog, directories, presences>>
sourceData == <<contexts, inactiveGroups, online, profileVersions, catalog>>

NoMembershipContext == [version |-> 0]
NoDirectory == [version |-> 0, fingerprint |-> <<>>]
NoPresence == [version |-> 0, states |-> <<>>, revisions |-> <<>>]
DirectoryUnavailable == [status |-> 404]

DirectoryInit ==
    /\ contexts = [a \in Actors |->
                     [version |-> 1, group |-> Min(VoiceGroups),
                      members |-> Actors]]
    /\ inactiveGroups = {}
    /\ online = {}
    /\ profileVersions = [p \in Members |-> 0]
    /\ catalog = 0
    /\ directories = [g \in VoiceGroups |-> NoDirectory]
    /\ presences = [g \in VoiceGroups |-> NoPresence]

-----------------------------------------------------------------------------
(* What the service is told. *)

(* A stale profile or catalog is not taken. *)
UpsertProfile(p, version) ==
    /\ version > profileVersions[p]
    /\ profileVersions' = [profileVersions EXCEPT ![p] = version]
    /\ UNCHANGED <<contexts, inactiveGroups, online, catalog, directories, presences>>

ReplacePublicRoles(version) ==
    /\ version > catalog
    /\ catalog' = version
    /\ UNCHANGED <<contexts, inactiveGroups, online, profileVersions, directories, presences>>

(* PUT on a membership: one actor's context gets the next version. *)
ReplaceContext(a, group, members) ==
    /\ contexts' = [contexts EXCEPT ![a] =
                      [version |-> @.version + 1, group |-> group, members |-> members]]
    /\ UNCHANGED <<inactiveGroups, online, profileVersions, catalog, directories, presences>>

ConnectedScopesChange(p) ==
    /\ online' = IF p \in online THEN online \ {p} ELSE online \cup {p}
    /\ UNCHANGED <<contexts, inactiveGroups, profileVersions, catalog, directories, presences>>

GroupActivityChanges(g) ==
    /\ inactiveGroups' = IF g \in inactiveGroups THEN inactiveGroups \ {g}
                                                 ELSE inactiveGroups \cup {g}
    /\ UNCHANGED <<contexts, online, profileVersions, catalog, directories, presences>>

-----------------------------------------------------------------------------
(* currentContextFor. *)
Visible(a) == contexts[a] # NoMembershipContext /\ contexts[a].group \notin inactiveGroups

WithinLimit(a) == Cardinality(contexts[a].members) <= MaxParticipants

(* What makeDirectory puts into a directory: the members with the names of their
   profiles, and the public roles. *)
Fingerprint(a) ==
    [group |-> contexts[a].group, roles |-> catalog,
     names |-> [p \in contexts[a].members |-> profileVersions[p]]]

SourceVersion(a) ==
    Max({contexts[a].version, catalog} \cup {profileVersions[p] : p \in contexts[a].members})

NextDirectory(a) ==
    LET last == directories[contexts[a].group]
    IN CASE last.version = 0 ->
              [version |-> Max({1, SourceVersion(a)}), fingerprint |-> Fingerprint(a)]
         [] last.version # 0 /\ last.fingerprint # Fingerprint(a) ->
              [version |-> Max({last.version + 1, SourceVersion(a)}),
               fingerprint |-> Fingerprint(a)]
         [] OTHER -> last

Served(a) == Visible(a) /\ WithinLimit(a)

(* GET /directory with If-None-Match: known, or 0 for none. *)
DirectoryAnswer(a, known) ==
    CASE ~Visible(a) -> DirectoryUnavailable
      [] Visible(a) /\ ~WithinLimit(a) -> [status |-> 413]
      [] Served(a) /\ known = NextDirectory(a).version -> [status |-> 304]
      [] OTHER -> [status |-> 200, version |-> NextDirectory(a).version,
                   content |-> NextDirectory(a).fingerprint]

DirectoryFor(a) ==
    directories' = IF Served(a)
                   THEN [directories EXCEPT ![contexts[a].group] = NextDirectory(a)]
                   ELSE directories

-----------------------------------------------------------------------------
CurrentStates(a) == [p \in contexts[a].members |-> p \in online]

(* The players that are new or changed; a player that is gone leaves no entry. *)
RevisionEntries(old, new) ==
    [p \in {q \in DOMAIN new : q \notin DOMAIN old \/ new[q] # old[q]} |-> new[p]]

KeptRevisions(revisions) ==
    IF Len(revisions) > MaxRevisions THEN Tail(revisions) ELSE revisions

NextPresence(a) ==
    LET last == presences[contexts[a].group]
        states == CurrentStates(a)
    IN CASE last.version = 0 -> [version |-> 1, states |-> states, revisions |-> <<>>]
         [] last.version # 0 /\ last.states # states ->
              [version |-> last.version + 1, states |-> states,
               revisions |-> KeptRevisions(Append(last.revisions,
                   [version |-> last.version + 1,
                    entries |-> RevisionEntries(last.states, states)]))]
         [] OTHER -> last

SlipSnapshotRequired(presence, after) == after > presence.version

(* after is 0 when the request names no version. *)
SnapshotRequired(presence, after) ==
    \/ after > presence.version
    \/ /\ presence.revisions # <<>>
       /\ after < presence.revisions[1].version - 1

(* The last entry of each player that is still there, of the revisions after
   the given version. *)
LatestChanges(presence, after) ==
    LET newer == {i \in DOMAIN presence.revisions : presence.revisions[i].version > after}
        listed(p) == {i \in newer : p \in DOMAIN presence.revisions[i].entries}
        last(p) == CHOOSE i \in listed(p) : \A j \in listed(p) : j <= i
    IN [p \in {q \in DOMAIN presence.states : listed(q) # {}} |->
            presence.revisions[last(p)].entries[p]]

(* GET /directory/presence, with after_version unless after is 0. *)
PresenceAnswer(a, after) ==
    LET v == NextPresence(a)
    IN CASE ~Served(a) -> DirectoryUnavailable
         [] Served(a) /\ after # 0 /\ SnapshotRequired(v, after) -> [status |-> 409]
         [] Served(a) /\ after # 0 /\ ~SnapshotRequired(v, after) ->
              [status |-> 200, version |-> v.version, mode |-> "delta",
               entries |-> LatestChanges(v, after)]
         [] OTHER -> [status |-> 200, version |-> v.version, mode |-> "snapshot",
                      entries |-> v.states]

PresenceFor(a) ==
    presences' = IF Served(a)
                 THEN [presences EXCEPT ![contexts[a].group] = NextPresence(a)]
                 ELSE presences
=============================================================================
