--------------------------- MODULE DirectorySync ----------------------------
(***************************************************************************)
(* How the desktop client follows the directory and the presence of its    *)
(* group: the refresh thread of ClientSession                              *)
(* (apps/windows-client/src/client_session.cpp) polls with the versions it *)
(* knows, ControlPlaneClient checks the answers, MainWindow brings each    *)
(* event to the user-interface thread, and DesktopModel                    *)
(* (libs/presentation/src/desktop_model.cpp) decides by its own versions   *)
(* whether to apply it.  Every HTTP call is a step, so that the server's   *)
(* state can change between any two of them, and a call may fail.          *)
(***************************************************************************)
EXTENDS Directory

CONSTANTS
    Me,            \* the player of this client
    MaxChanges,    \* bound on changes of the server's state
    MaxPolls,      \* bound on polls of other clients
    MaxErrors,     \* bound on failed calls
    MaxQueued      \* bound on the events that wait for the window

ASSUME SyncAssumption ==
    /\ Me \in Actors
    /\ {MaxChanges, MaxPolls, MaxErrors, MaxQueued} \subseteq Nat

VARIABLES
    syncPc,        \* the refresh thread: "connect", "sleep", "directory", "presence"
    knownMember,   \* known_version
    knownGroup,    \* known_group_id
    knownDir,      \* known_directory_version
    knownPres,     \* known_presence_version
    syncEvents,    \* events on their way to the user-interface thread
    viewMember,    \* DesktopModel: membership, [version, group]
    viewDir,       \* DesktopModel: directory, [version, content]; version 0 for none
    viewPresVer,   \* DesktopModel: presence_version, 0 for none
    viewPres,      \* DesktopModel: server_presence_
    changes, polls, errors

clientView == <<viewMember, viewDir, viewPresVer, viewPres>>
knownVars == <<knownMember, knownGroup, knownDir, knownPres>>
countVars == <<changes, polls, errors>>
syncVars == <<syncPc, knownVars, syncEvents, clientView, countVars>>
allSyncVars == <<directoryVars, syncVars>>

NoView == [version |-> 0, content |-> <<>>]
NoStates == [p \in {} |-> TRUE]

SyncInit ==
    /\ DirectoryInit
    /\ syncPc = "connect"
    /\ knownMember = 0 /\ knownGroup = 0 /\ knownDir = 0 /\ knownPres = 0
    /\ syncEvents = <<>>
    /\ viewMember = [version |-> 0, group |-> 0]
    /\ viewDir = NoView
    /\ viewPresVer = 0
    /\ viewPres = NoStates
    /\ changes = 0 /\ polls = 0 /\ errors = 0

SyncTypeOK ==
    /\ syncPc \in {"connect", "sleep", "directory", "presence"}
    /\ {knownMember, knownGroup, knownDir, knownPres, viewPresVer} \subseteq Nat
    /\ Len(syncEvents) <= MaxQueued
    /\ DOMAIN viewPres \subseteq Members
    /\ changes \in 0..MaxChanges /\ polls \in 0..MaxPolls /\ errors \in 0..MaxErrors

Tell(event) == syncEvents' = Append(syncEvents, event)

MembershipOf(a) == [version |-> contexts[a].version, group |-> contexts[a].group]

-----------------------------------------------------------------------------
(* connect: the membership, a directory and a presence snapshot, all of which
   MainWindow applies when it is told that the connection succeeded.  The calls
   happen one after the other; what a change in between does to them is the same
   as in the refresh loop, and the login fails if the directory is not of the
   membership's group, so connect is one step here. *)
SyncConnect ==
    /\ syncPc = "connect"
    /\ Served(Me)
    /\ LET d == DirectoryAnswer(Me, 0)
           p == PresenceAnswer(Me, 0)
       IN /\ knownDir' = d.version
          /\ knownPres' = p.version
          /\ viewDir' = [version |-> d.version, content |-> d.content]
          /\ viewPresVer' = p.version
          /\ viewPres' = p.entries
    /\ knownMember' = contexts[Me].version
    /\ knownGroup' = contexts[Me].group
    /\ viewMember' = MembershipOf(Me)
    /\ DirectoryFor(Me)
    /\ PresenceFor(Me)
    /\ syncPc' = "sleep"
    /\ UNCHANGED <<sourceData, syncEvents, countVars>>

(* A call fails: the error is reported and the round ends. *)
CallFails ==
    /\ syncPc \in {"sleep", "directory", "presence"}
    /\ errors < MaxErrors
    /\ errors' = errors + 1
    /\ syncPc' = IF syncPc = "directory" THEN "presence" ELSE "sleep"
    /\ UNCHANGED <<directoryVars, knownVars, syncEvents, clientView, changes, polls>>

(* refreshAuthorization, and what a newer membership means for the versions. *)
RefreshMembership ==
    LET m == MembershipOf(Me)
    IN /\ syncPc = "sleep"
       /\ IF m.version > knownMember
          THEN /\ knownMember' = m.version
               /\ knownGroup' = m.group
               /\ knownDir' = IF m.group = knownGroup THEN knownDir ELSE 0
               /\ knownPres' = IF m.group = knownGroup THEN knownPres ELSE 0
               /\ Tell([type |-> "membership", membership |-> m])
          ELSE UNCHANGED <<knownVars, syncEvents>>
       /\ syncPc' = "directory"
       /\ UNCHANGED <<directoryVars, clientView, countVars>>

SlipDirectoryFetched(d) ==
    IF d.status = 200
    THEN /\ knownDir' = d.version
         /\ Tell([type |-> "directory", version |-> d.version, content |-> d.content])
         /\ UNCHANGED knownPres
    ELSE UNCHANGED <<knownDir, knownPres, syncEvents>>

DirectoryFetched(d) ==
    IF d.status = 200
    THEN /\ knownDir' = d.version
         /\ knownPres' = 0
         /\ Tell([type |-> "directory", version |-> d.version, content |-> d.content])
    ELSE UNCHANGED <<knownDir, knownPres, syncEvents>>

(* ControlPlaneClient::directory with If-None-Match; the round goes on to the
   presence if the directory is new or the next poll is due. *)
FetchDirectory(due) ==
    /\ syncPc = "directory"
    /\ DirectoryFor(Me)
    /\ DirectoryFetched(DirectoryAnswer(Me, knownDir))
    /\ syncPc' = IF due \/ DirectoryAnswer(Me, knownDir).status = 200
                 THEN "presence" ELSE "sleep"
    /\ UNCHANGED <<sourceData, presences, knownMember, knownGroup, clientView, countVars>>

(* ControlPlaneClient::directoryPresence; 409 sets the known version back, and a
   whole snapshot is asked for at once. *)
FetchPresence ==
    LET answer == PresenceAnswer(Me, knownPres)
    IN /\ syncPc = "presence"
       /\ PresenceFor(Me)
       /\ \/ /\ answer.status = 200
             /\ knownPres' = answer.version
             /\ Tell([type |-> "presence", answer |-> answer])
             /\ syncPc' = "sleep"
          \/ answer.status = 409 /\ knownPres' = 0 /\ UNCHANGED <<syncEvents, syncPc>>
          \/ answer.status = 404 /\ syncPc' = "sleep" /\ UNCHANGED <<knownPres, syncEvents>>
       /\ UNCHANGED <<sourceData, directories, knownMember, knownGroup, knownDir, clientView,
                      countVars>>

-----------------------------------------------------------------------------
(* The user-interface thread: DesktopModel. *)

NextEvent(type) == syncEvents # <<>> /\ Head(syncEvents).type = type
TakeEvent == syncEvents' = Tail(syncEvents)

(* updateMembership and applyMembership. *)
ViewMembership ==
    /\ NextEvent("membership")
    /\ TakeEvent
    /\ LET m == Head(syncEvents).membership
       IN IF m.version <= viewMember.version THEN UNCHANGED clientView
          ELSE /\ viewMember' = m
               /\ IF m.group = viewMember.group THEN UNCHANGED <<viewDir, viewPresVer, viewPres>>
                  ELSE viewDir' = NoView /\ viewPresVer' = 0 /\ viewPres' = NoStates
    /\ UNCHANGED <<directoryVars, syncPc, knownVars, countVars>>

DirectoryAccepted(e) == e.content.group = viewMember.group /\ e.version > viewDir.version

ViewDirectory ==
    /\ NextEvent("directory")
    /\ TakeEvent
    /\ LET e == Head(syncEvents)
       IN IF DirectoryAccepted(e)
          THEN /\ viewDir' = [version |-> e.version, content |-> e.content]
               /\ viewPresVer' = 0
               /\ viewPres' = NoStates
          ELSE UNCHANGED <<viewDir, viewPresVer, viewPres>>
    /\ UNCHANGED <<directoryVars, syncPc, knownVars, viewMember, countVars>>

PresenceAccepted(a) ==
    /\ viewDir # NoView
    /\ a.version > viewPresVer
    /\ a.mode = "delta" => viewPresVer # 0

(* Entries of participants that the directory does not list are dropped. *)
Merged(a) ==
    LET base == IF a.mode = "snapshot" THEN NoStates ELSE viewPres
        listed == DOMAIN a.entries \cap DOMAIN viewDir.content.names
    IN [p \in DOMAIN base \cup listed |-> IF p \in listed THEN a.entries[p] ELSE base[p]]

ViewPresence ==
    /\ NextEvent("presence")
    /\ TakeEvent
    /\ LET a == Head(syncEvents).answer
       IN IF PresenceAccepted(a)
          THEN viewPresVer' = a.version /\ viewPres' = Merged(a)
          ELSE UNCHANGED <<viewPresVer, viewPres>>
    /\ UNCHANGED <<directoryVars, syncPc, knownVars, viewMember, viewDir, countVars>>

-----------------------------------------------------------------------------
(* Versions are counted per group but compared without naming it, so a player who
   is moved to another group and back between two polls can get the presence of
   one as the base of the other.  The group numbers rule that out: a player is not
   moved back to a group it left. *)
MovesOn(a, g) == g >= contexts[a].group

ServerChanged == changes < MaxChanges /\ changes' = changes + 1

(* Another client of the same group asks for the directory or for the presence,
   with its own snapshot. *)
OthersPoll ==
    /\ polls < MaxPolls
    /\ polls' = polls + 1
    /\ \E a \in Actors \ {Me} :
         \/ DirectoryFor(a) /\ UNCHANGED presences
         \/ PresenceFor(a) /\ UNCHANGED directories
    /\ UNCHANGED <<sourceData, syncPc, knownVars, syncEvents, clientView, changes, errors>>

ServerChanges ==
    /\ ServerChanged
    /\ \/ \E p \in Members : UpsertProfile(p, profileVersions[p] + 1)
       \/ ReplacePublicRoles(catalog + 1)
       \/ \E a \in Actors, g \in VoiceGroups, m \in SUBSET Members :
            a \in m /\ MovesOn(a, g) /\ ReplaceContext(a, g, m)
       \/ \E p \in Members : ConnectedScopesChange(p)
       \/ \E g \in VoiceGroups : GroupActivityChanges(g)
    /\ UNCHANGED <<syncPc, knownVars, syncEvents, clientView, polls, errors>>

RefreshStep ==
    \/ SyncConnect
    \/ RefreshMembership
    \/ \E due \in BOOLEAN : FetchDirectory(due)
    \/ FetchPresence

ViewStep == ViewMembership \/ ViewDirectory \/ ViewPresence

(* Events wait while the window is busy; the bound keeps the queue finite. *)
SyncNext ==
    \/ Len(syncEvents) < MaxQueued /\ (RefreshStep \/ CallFails)
    \/ ViewStep
    \/ ServerChanges
    \/ OthersPoll

SyncSpec == SyncInit /\ [][SyncNext]_allSyncVars

(* The refresh thread keeps polling, the time of the next presence poll comes,
   and the window keeps handling messages. *)
SyncFairness ==
    /\ WF_allSyncVars(Len(syncEvents) < MaxQueued /\ RefreshStep)
    /\ SF_allSyncVars(Len(syncEvents) < MaxQueued /\ FetchDirectory(TRUE))
    /\ WF_allSyncVars(ViewStep)

-----------------------------------------------------------------------------
(* The client believes that it is up to date: nothing is on its way, and its
   versions are those of the server. *)
UpToDate ==
    /\ syncPc = "sleep"
    /\ syncEvents = <<>>
    /\ Served(Me)
    /\ knownMember = contexts[Me].version
    /\ knownDir = NextDirectory(Me).version
    /\ knownPres = NextPresence(Me).version

\* A client whose versions are those of the server shows what the server has: the
\* versions stand for the contents, deltas are never applied to another base than the
\* one they were computed for, and no answer that overtook a change survives.
ViewMatchesServer ==
    UpToDate => /\ viewDir.content = Fingerprint(Me)
                /\ viewPres = CurrentStates(Me)

\* When the server's state comes to rest, the client's view becomes the server's, through
\* errors, group changes and answers of which each was out of date when it arrived.
ViewConverges == <>[](Served(Me) => viewDir.content = Fingerprint(Me) /\ viewPres = CurrentStates(Me))
=============================================================================
