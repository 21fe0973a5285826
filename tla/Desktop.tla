------------------------------- MODULE Desktop -------------------------------
(***************************************************************************)
(* The window and its sessions.  Every command of the user runs on the     *)
(* user-interface thread, leaves it at a co_await for a background thread  *)
(* that calls the ClientSession, and comes back through the dispatcher's   *)
(* queue, where it may find another session, or a window that is closing.  *)
(* session_generation_ is what tells a late continuation or event apart.   *)
(***************************************************************************)
EXTENDS Naturals, Sequences, FiniteSets

CONSTANTS
    MaxGenerations, \* bound on the logins and logouts of a behaviour
    MaxInputs      \* bound on the events sessions report and on changes of the mute and
                   \* the audio policy, together, and on the dialogs opened

ASSUME DesktopAssumption ==
    MaxGenerations \in Nat \ {0} /\ MaxInputs \in Nat

VARIABLES
    phase,        \* DesktopModel: state_.connection
    hasMember,    \* state_.membership
    sending,      \* state_.active_transmission_scope
    hasDirectory, \* state_.directory
    inList,       \* one participant is in state_.participants
    shownPolicy,  \* what the model shows: the mute of that participant, FALSE when it is
                  \* not listed, and the audio settings
    forgotten,    \* history: the list dropped the participant with its mute, or it was not
                  \* listed when the answer to its mute came
    sessionGen,   \* MainWindow: session_generation_
    current,      \* session_, 0 when there is none
    closing,      \* closing_
    timerOn,      \* participant_update_timer_ is started
    running,      \* participant_updates_running_
    unsent,       \* pending_participant_updates_: the mute asked for, or "none"
    dialog,       \* settings_window_: which of the dialogs opened so far, 0 when closed
    dialogs,      \* dialogs opened so far
    applying,     \* the buttons of the dialog are disabled
    lives,        \* ClientSession: per session, new, opening, up or down
    policies,     \* per session, the mute and the audio settings in use
    ui,           \* the dispatcher's queue
    work,         \* continuations on background threads
    reports, commands,   \* bounded counters
    excused,      \* history: a failure was shown, or the dialog closed while applying
    stranded      \* history: a batch of an older session returned to a newer one

listVars == <<hasDirectory, inList, shownPolicy, forgotten>>
modelVars == <<phase, hasMember, sending, listVars>>
updateVars == <<timerOn, running, unsent>>
dialogVars == <<dialog, dialogs, applying>>
sessionVars == <<lives, policies>>
historyVars == <<excused, stranded>>
desktopVars == <<modelVars, sessionGen, current, closing, updateVars, dialogVars, sessionVars,
                 ui, work, reports, commands, historyVars>>

Sessions == 1..(MaxGenerations + 1)   \* generations: logins and what ends them
Phases == {"signed_out", "connecting", "ready", "reconnecting", "disconnecting"}
Default == [mute |-> FALSE, audio |-> 0]

\* Type invariant.
DesktopTypeOK ==
    /\ phase \in Phases /\ hasMember \in BOOLEAN /\ sending \in BOOLEAN
    /\ sessionGen \in 0..(MaxGenerations + 1)
    /\ current \in {0} \cup Sessions /\ dialog \in 0..dialogs
    /\ lives \in [Sessions -> {"new", "opening", "up", "down"}]
    /\ unsent \in {"none", "mute", "unmute"}
    /\ timerOn \in BOOLEAN /\ running \in BOOLEAN /\ applying \in BOOLEAN
    /\ hasDirectory \in BOOLEAN /\ inList \in BOOLEAN /\ forgotten \in BOOLEAN

DesktopInit ==
    /\ phase = "signed_out" /\ hasMember = FALSE /\ sending = FALSE
    /\ hasDirectory = FALSE /\ inList = FALSE
    /\ shownPolicy = Default /\ forgotten = FALSE
    /\ sessionGen = 0 /\ current = 0 /\ closing = FALSE
    /\ timerOn = FALSE /\ running = FALSE /\ unsent = "none"
    /\ dialog = 0 /\ dialogs = 0 /\ applying = FALSE
    /\ lives = [s \in Sessions |-> "new"]
    /\ policies = [s \in Sessions |-> Default]
    /\ ui = <<>> /\ work = {}
    /\ reports = 0 /\ commands = 0
    /\ excused = FALSE /\ stranded = FALSE

IsSessionAvailable == phase \in {"ready", "reconnecting"}

(* clearAuthenticatedState *)
ClearAuthenticated ==
    /\ hasMember' = FALSE
    /\ sending' = FALSE
    /\ hasDirectory' = FALSE /\ inList' = FALSE
    /\ shownPolicy' = [shownPolicy EXCEPT !.mute = FALSE]
    /\ forgotten' = FALSE

(* validate: what a command needs of the phase and of the list; its other
   arguments are valid. *)
Valid(command) ==
    CASE command = "connect" -> phase = "signed_out"
      [] command = "set_participant_muted" -> IsSessionAvailable /\ inList
      [] OTHER -> IsSessionAvailable

(* The list loses its participants, and the mutes shown with them: a directory
   that does not name the participant, or a membership of another group, after
   which there is no directory.  A participant that comes back is not muted. *)
Drop(directory) ==
    /\ hasDirectory' = directory
    /\ inList' = FALSE
    /\ shownPolicy' = [shownPolicy EXCEPT !.mute = FALSE]
    /\ forgotten' = (forgotten \/ shownPolicy.mute)

ModelBeginConnect == Valid("connect") /\ phase' = "connecting" /\ ClearAuthenticated

ModelConnected ==
    /\ phase = "connecting"
    /\ phase' = "ready"
    /\ hasMember' = TRUE
    /\ hasDirectory' = TRUE /\ inList' \in BOOLEAN
    /\ UNCHANGED <<sending, forgotten>>

(* connectionFailed, and disconnected *)
SignOut == phase' = "signed_out" /\ ClearAuthenticated

-----------------------------------------------------------------------------
(* Logging in. *)

(* connectAsync up to its first co_await *)
ConnectAsync ==
    /\ ~closing
    /\ sessionGen < MaxGenerations
    /\ ModelBeginConnect
    /\ sessionGen' = sessionGen + 1
    /\ lives' = [lives EXCEPT ![sessionGen'] = "opening"]
    /\ work' = work \cup {[do |-> "connect", id |-> sessionGen']}
    /\ UNCHANGED <<current, closing, updateVars, dialogVars, policies, ui, reports, commands,
                   historyVars>>

(* ClientSession::connect on the background thread; a failure resets the
   services it had built. *)
Connect(t, ok) ==
    /\ t \in work /\ t.do = "connect"
    /\ work' = work \ {t}
    /\ lives' = [lives EXCEPT ![t.id] = IF ok THEN "up" ELSE "down"]
    /\ ui' = Append(ui, [do |-> "connected", id |-> t.id, ok |-> ok])
    /\ UNCHANGED <<modelVars, sessionGen, current, closing, updateVars, dialogVars, policies,
                   reports, commands, historyVars>>

Next2(t) == ui # <<>> /\ Head(ui).do = t /\ ui' = Tail(ui)

(* The continuation of an abandoned login is taken for the current one. *)
SlipIsCurrent(id) == ~closing

(* Whether a continuation or an event belongs to the session of the window. *)
IsCurrent(id) == ~closing /\ id = sessionGen

Disconnecting(id, after) == [do |-> "disconnect", id |-> id, after |-> after]

(* connectAsync back on the user-interface thread.  A membership, directory or
   presence that does not fit the others ends the session again. *)
Connected(fits) ==
    /\ Next2("connected")
    /\ LET t == Head(ui)
       IN  CASE ~IsCurrent(t.id) ->
                  /\ work' = work \cup {Disconnecting(t.id, "nothing")}
                  /\ UNCHANGED <<modelVars, current>>
             [] IsCurrent(t.id) /\ ~t.ok ->
                  /\ SignOut
                  /\ UNCHANGED <<current, work>>
             [] IsCurrent(t.id) /\ t.ok /\ phase = "connecting" /\ fits ->
                  /\ ModelConnected
                  /\ shownPolicy' = [shownPolicy EXCEPT !.audio = policies[t.id].audio]
                  /\ current' = t.id
                  /\ UNCHANGED work
             [] OTHER ->
                  /\ SignOut
                  /\ work' = work \cup {Disconnecting(t.id, "nothing")}
                  /\ UNCHANGED current
    /\ UNCHANGED <<sessionGen, closing, updateVars, dialogVars, sessionVars, reports, commands,
                   historyVars>>

(* ClientSession::disconnect: the refresh thread is joined, the input stopped,
   the observers taken off, the rooms left. *)
DesktopDisconnect(t) ==
    /\ t \in work /\ t.do = "disconnect"
    /\ work' = work \ {t}
    /\ lives' = IF t.id = 0 THEN lives ELSE [lives EXCEPT ![t.id] = "down"]
    /\ ui' = IF t.after = "nothing" THEN ui ELSE Append(ui, [do |-> "disconnected"])
    /\ UNCHANGED <<modelVars, sessionGen, current, closing, updateVars, dialogVars, policies,
                   reports, commands, historyVars>>

-----------------------------------------------------------------------------
(* Logging out and closing. *)

CloseDialog == dialog' = 0 /\ applying' = FALSE /\ UNCHANGED dialogs

(* disconnectAsync up to its first co_await *)
DisconnectAsync ==
    /\ ~closing
    /\ Valid("disconnect")
    /\ sessionGen < MaxGenerations
    /\ phase' = "disconnecting"
    /\ sending' = FALSE
    /\ sessionGen' = sessionGen + 1
    /\ timerOn' = FALSE
    /\ unsent' = "none"
    /\ CloseDialog
    /\ current' = 0
    /\ work' = work \cup {Disconnecting(current, "signed_out")}
    /\ UNCHANGED <<hasMember, listVars, closing, running, sessionVars, ui, reports, commands,
                   historyVars>>

(* disconnectAsync back on the user-interface thread. *)
Disconnected ==
    /\ Next2("disconnected")
    /\ IF closing THEN UNCHANGED modelVars ELSE SignOut
    /\ UNCHANGED <<sessionGen, current, closing, updateVars, dialogVars, sessionVars, work,
                   reports, commands, historyVars>>

(* The window closes: the session goes to shutdownSessionAsync. *)
Closed ==
    /\ ~closing
    /\ closing' = TRUE
    /\ sessionGen' = sessionGen + 1
    /\ timerOn' = FALSE
    /\ CloseDialog
    /\ current' = 0
    /\ work' = IF current = 0 THEN work ELSE work \cup {Disconnecting(current, "nothing")}
    /\ UNCHANGED <<modelVars, running, unsent, sessionVars, ui, reports, commands, historyVars>>

-----------------------------------------------------------------------------
(* What sessions report. *)

VoiceEvents == {"connecting", "connected", "reconnecting", "disconnected", "started", "stopped"}
ListEvents == {"named", "not_named", "other_group", "heard"}

(* onVoiceStateChanged, onPushToTalkInputResult, onRemoteVoiceEvent, and the
   refresh thread's directories and memberships: queued for the window; after
   the observers are taken off there are no more. *)
Report(s, what) ==
    /\ lives[s] \in {"opening", "up"}
    /\ reports + commands < MaxInputs
    /\ reports' = reports + 1
    /\ ui' = Append(ui, [do |-> "event", id |-> s, what |-> what])
    /\ UNCHANGED <<modelVars, sessionGen, current, closing, updateVars, dialogVars, sessionVars,
                   work, commands, historyVars>>

(* The phase after updateVoiceState. *)
PhaseAfter(state) ==
    CASE state = "disconnected" /\ phase \notin {"signed_out", "disconnecting"} -> "reconnecting"
      [] state = "connecting" /\ phase # "signed_out" -> "connecting"
      [] state = "connected" /\ hasMember -> "ready"
      [] state = "reconnecting" /\ phase # "signed_out" -> "reconnecting"
      [] OTHER -> phase

(* applyDirectory, updateMembership and applyVoiceRemoteEvent, of what moves
   the participant in or out of the list.  Without a membership the first two
   are refused, and so are stale versions, which are left out; the third adds a
   placeholder as long as there is no directory. *)
ListChanges(what) ==
    CASE what = "named" /\ hasMember ->
           /\ hasDirectory' = TRUE /\ inList' = TRUE
           /\ UNCHANGED <<shownPolicy, forgotten>>
      [] what = "not_named" /\ hasMember -> Drop(TRUE)
      [] what = "other_group" /\ hasMember -> Drop(FALSE)
      [] what = "heard" /\ ~hasDirectory ->
           inList' = TRUE /\ UNCHANGED <<hasDirectory, shownPolicy, forgotten>>
      [] OTHER -> UNCHANGED listVars

(* handleSessionEvent *)
HandleSessionEvent ==
    /\ Next2("event")
    /\ LET t == Head(ui)
       IN  IF ~IsCurrent(t.id) THEN UNCHANGED <<phase, sending, listVars>>
           ELSE CASE t.what \in {"started", "stopped"} ->
                       sending' = (t.what = "started") /\ UNCHANGED <<phase, listVars>>
                  [] t.what \in ListEvents -> ListChanges(t.what) /\ UNCHANGED <<phase, sending>>
                  [] OTHER -> /\ phase' = PhaseAfter(t.what)
                              /\ sending' = (sending /\ t.what \in {"connecting", "connected"})
                              /\ UNCHANGED listVars
    /\ UNCHANGED <<hasMember, sessionGen, current, closing, updateVars, dialogVars, sessionVars,
                   work, reports, commands, historyVars>>

-----------------------------------------------------------------------------
(* Mutes: collected, sent in batches by a timer, shown once they are applied. *)

(* startParticipantUpdateTimer *)
StartTimer == timerOn' = (timerOn \/ ~running)

(* queueParticipantMuted, from a row of rebuildSpeakers *)
QueueParticipantMuted(on) ==
    /\ ~closing /\ hasMember /\ inList /\ phase # "disconnecting"
    /\ reports + commands < MaxInputs
    /\ commands' = commands + 1
    /\ unsent' = IF on THEN "mute" ELSE "unmute"
    /\ StartTimer
    /\ UNCHANGED <<modelVars, sessionGen, current, closing, running, dialogVars, sessionVars, ui,
                   work, reports, historyVars>>

(* The timer fires: applyParticipantUpdatesAsync up to its first co_await. *)
ApplyParticipantUpdates ==
    /\ timerOn
    /\ timerOn' = FALSE
    /\ IF running \/ current = 0 \/ unsent = "none"
       THEN UNCHANGED <<running, unsent, work>>
       ELSE /\ running' = TRUE
            /\ unsent' = "none"
            /\ work' = work \cup {[do |-> "mute", id |-> current, on |-> unsent = "mute"]}
    /\ UNCHANGED <<modelVars, sessionGen, current, closing, dialogVars, sessionVars, ui, reports,
                   commands, historyVars>>

(* setParticipantMuted in the background: refused without a connection; a
   transport that fails leaves the participant muted all the same. *)
ApplyMute(t, ok) ==
    /\ t \in work /\ t.do = "mute"
    /\ lives[t.id] = "down" => ~ok
    /\ work' = work \ {t}
    /\ policies' = IF lives[t.id] = "down" THEN policies
                   ELSE [policies EXCEPT ![t.id].mute = t.on]
    /\ ui' = Append(ui, [do |-> "muted", id |-> t.id, on |-> t.on, ok |-> ok])
    /\ UNCHANGED <<modelVars, sessionGen, current, closing, updateVars, dialogVars, lives, reports,
                   commands, historyVars>>

(* What was asked for meanwhile is not sent. *)
SlipRestart == timerOn' = timerOn

(* What was asked for meanwhile gets a batch of its own. *)
Restart == timerOn' = (timerOn \/ unsent # "none")

(* applyParticipantUpdatesAsync back on the user-interface thread; that the
   participant is not listed any more is passed over in silence. *)
ParticipantUpdatesApplied ==
    /\ Next2("muted")
    /\ running' = FALSE
    /\ LET t == Head(ui)
       IN  CASE ~IsCurrent(t.id) ->
                  /\ stranded' = TRUE
                  /\ UNCHANGED <<shownPolicy, forgotten, timerOn, excused>>
             [] IsCurrent(t.id) /\ t.ok /\ IsSessionAvailable ->
                  /\ shownPolicy' = IF Valid("set_participant_muted")
                                    THEN [shownPolicy EXCEPT !.mute = t.on] ELSE shownPolicy
                  /\ forgotten' = (t.on /\ ~inList)
                  /\ Restart
                  /\ UNCHANGED <<excused, stranded>>
             [] OTHER ->
                  /\ excused' = TRUE
                  /\ Restart
                  /\ UNCHANGED <<shownPolicy, forgotten, stranded>>
    /\ UNCHANGED <<phase, hasMember, sending, hasDirectory, inList, sessionGen, current, closing,
                   unsent, dialogVars, sessionVars, work, reports, commands>>

-----------------------------------------------------------------------------
(* The settings dialog. *)

(* openSettings *)
OpenSettings ==
    /\ ~closing
    /\ Valid("open_settings") /\ current # 0 /\ dialog = 0
    /\ dialogs < MaxInputs
    /\ dialogs' = dialogs + 1
    /\ dialog' = dialogs'
    /\ UNCHANGED <<modelVars, sessionGen, current, closing, updateVars, applying, sessionVars, ui,
                   work, reports, commands, historyVars>>

(* The user closes the dialog. *)
DialogClosed ==
    /\ dialog # 0
    /\ CloseDialog
    /\ UNCHANGED <<modelVars, sessionGen, current, closing, updateVars, sessionVars, ui, work,
                   reports, commands, historyVars>>

(* applyAudioAsync up to its first co_await *)
ApplyAudio ==
    /\ dialog # 0 /\ ~applying
    /\ reports + commands < MaxInputs
    /\ commands' = commands + 1
    /\ applying' = TRUE
    /\ work' = work \cup {[do |-> "audio", id |-> current, in |-> dialog, audio |-> commands']}
    /\ UNCHANGED <<modelVars, sessionGen, current, closing, updateVars, dialog, dialogs, sessionVars,
                   ui, reports, historyVars>>

(* setAudioEngineConfig and the device selections in the background; a device
   can be refused after the policy was taken. *)
SetAudio(t, ok) ==
    /\ t \in work /\ t.do = "audio"
    /\ lives[t.id] = "down" => ~ok
    /\ work' = work \ {t}
    /\ policies' = IF lives[t.id] = "down" THEN policies
                   ELSE [policies EXCEPT ![t.id].audio = t.audio]
    /\ ui' = Append(ui, [do |-> "audio", in |-> t.in, audio |-> t.audio, ok |-> ok])
    /\ UNCHANGED <<modelVars, sessionGen, current, closing, updateVars, dialogVars, lives, reports,
                   commands, historyVars>>

(* applyAudioAsync back on the user-interface thread, then settingsChanged; a
   dialog that was closed meanwhile is left alone. *)
AudioApplied ==
    /\ Next2("audio")
    /\ LET t == Head(ui)
           taken == dialog = t.in /\ t.ok /\ Valid("apply_settings")
       IN  /\ shownPolicy' = IF taken THEN [shownPolicy EXCEPT !.audio = t.audio] ELSE shownPolicy
           /\ excused' = (excused \/ ~taken)
    /\ applying' = (applying /\ dialog # Head(ui).in)
    /\ UNCHANGED <<phase, hasMember, sending, hasDirectory, inList, forgotten, sessionGen, current,
                   closing, updateVars, dialog, dialogs, sessionVars, work, reports, commands,
                   stranded>>

DesktopNext ==
    \/ ConnectAsync \/ DisconnectAsync \/ Closed
    \/ \E t \in work : \/ \E ok \in BOOLEAN : Connect(t, ok) \/ ApplyMute(t, ok) \/ SetAudio(t, ok)
                       \/ DesktopDisconnect(t)
    \/ \E fits \in BOOLEAN : Connected(fits)
    \/ Disconnected \/ HandleSessionEvent
    \/ \E s \in Sessions, what \in VoiceEvents \cup ListEvents : Report(s, what)
    \/ \E on \in BOOLEAN : QueueParticipantMuted(on)
    \/ ApplyParticipantUpdates \/ ParticipantUpdatesApplied
    \/ OpenSettings \/ DialogClosed \/ ApplyAudio \/ AudioApplied

DesktopSpec == DesktopInit /\ [][DesktopNext]_desktopVars

-----------------------------------------------------------------------------
(* Properties. *)

(* The continuations that still hold a session and will end it or hand it over. *)
Held(s) ==
    \/ \E t \in work : t.do \in {"connect", "disconnect"} /\ t.id = s
    \/ \E i \in DOMAIN ui : ui[i].do = "connected" /\ ui[i].id = s

\* No session is left behind: one that is open is the window's own, or a
\* continuation still holds it, however logins, logouts and the closing of the
\* window overlap; and a window that says ready has the open session it shows.
SessionsAreOwned ==
    /\ \A s \in Sessions : lives[s] \in {"opening", "up"} => s = current \/ Held(s)
    /\ phase = "ready" /\ ~closing => hasMember /\ current # 0
    /\ current # 0 => lives[current] = "up" /\ current = sessionGen /\ ~closing

AtRest == ui = <<>> /\ work = {} /\ unsent = "none"

\* A mute that was asked for is on its way to the session, or the batch of an
\* older session came back in between.  When nothing is on its way, the audio
\* settings shown are those in use, a participant shown as muted is muted, and
\* one that is muted is shown so, unless the list dropped it with its mute.  All
\* this unless an error was shown, or the dialog was closed, or the connection
\* lost, before the answer.
ShownIsInUse ==
    /\ current # 0 /\ unsent # "none" /\ ~stranded => timerOn \/ running
    /\ current # 0 /\ AtRest /\ ~excused =>
          LET inUse == policies[current]
          IN  /\ shownPolicy.audio = inUse.audio
              /\ shownPolicy.mute => inUse.mute
              /\ inUse.mute => shownPolicy.mute \/ forgotten
=============================================================================
