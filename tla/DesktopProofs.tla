---------------------------- MODULE DesktopProofs ----------------------------
(***************************************************************************)
(* What holds of the window and its sessions for every number of logins,   *)
(* logouts, events and commands, and of the panel of the other             *)
(* participants for every set of participants and scopes and every number  *)
(* of events, in whatever order they arrive.                               *)
(***************************************************************************)
EXTENDS Desktop, VoicePanel, FiniteSetTheorems, TLAPS

(* What waits on background threads and in the dispatcher's queue. *)
Works ==
    [do : {"connect"}, id : Sessions]
    \cup [do : {"disconnect"}, id : {0} \cup Sessions, after : {"nothing", "signed_out"}]
    \cup [do : {"mute"}, id : Sessions, on : BOOLEAN]
    \cup [do : {"audio"}, id : Sessions, in : Nat, audio : Nat]

EventKinds == VoiceEvents \cup ListEvents

Messages ==
    [do : {"connected"}, id : Sessions, ok : BOOLEAN]
    \cup [do : {"disconnected"}]
    \cup [do : {"event"}, id : Sessions, what : EventKinds]
    \cup [do : {"muted"}, id : Sessions, on : BOOLEAN, ok : BOOLEAN]
    \cup [do : {"audio"}, in : Nat, audio : Nat, ok : BOOLEAN]

QueuesOK ==
    /\ work \subseteq Works
    /\ ui \in Seq(Messages)
    /\ commands \in Nat /\ dialogs \in Nat
    /\ dialog # 0 => current # 0

(* Whoever holds a session holds it alone: the login that opens it, the answer
   of the login, the window, or the thread that ends it. *)
Answer(i) == ui[i].do = "connected"

HandOK ==
    /\ ~closing => sessionGen <= MaxGenerations
    /\ \A s \in Sessions : s > sessionGen => lives[s] = "new"
    /\ \A t \in work : t.do = "connect" => lives[t.id] = "opening"
    /\ \A t \in work : t.do = "disconnect" /\ t.id # 0 =>
            /\ lives[t.id] \in {"up", "down"}
            /\ t.id # current
            /\ \A i \in DOMAIN ui : Answer(i) => ui[i].id # t.id
    /\ \A i \in DOMAIN ui : Answer(i) =>
            /\ lives[ui[i].id] = IF ui[i].ok THEN "up" ELSE "down"
            /\ ui[i].id # current
    /\ \A i, j \in DOMAIN ui : Answer(i) /\ Answer(j) /\ ui[i].id = ui[j].id => i = j
    /\ \A i \in DOMAIN ui : ui[i].do = "event" => lives[ui[i].id] # "new"

(* An open window that signs out has one logout on its way and no session, and
   the generation it is in has none either, so no event moves its phase. *)
SigningOut(t) == t.do = "disconnect" /\ t.after = "signed_out"
SignedOut(i) == ui[i].do = "disconnected"

PhaseOK ==
    ~closing =>
        /\ phase \in {"signed_out", "disconnecting"} => current = 0
        /\ phase = "disconnecting" => sessionGen \in Sessions /\ lives[sessionGen] = "new"
        /\ hasMember => current # 0 \/ phase = "disconnecting"
        /\ phase = "ready" => hasMember
        /\ \A t \in work : SigningOut(t) =>
                phase = "disconnecting" /\ \A i \in DOMAIN ui : ~SignedOut(i)
        /\ \A i \in DOMAIN ui : SignedOut(i) => phase = "disconnecting"
        /\ \A t, u \in work : SigningOut(t) /\ SigningOut(u) => t = u
        /\ \A i, j \in DOMAIN ui : SignedOut(i) /\ SignedOut(j) => i = j

(* The open sessions, and the session of the window. *)
OwnedOK ==
    /\ \A s \in Sessions : lives[s] \in {"opening", "up"} => s = current \/ Held(s)
    /\ current # 0 => lives[current] = "up" /\ current = sessionGen /\ ~closing

WindowInv == DesktopTypeOK /\ QueuesOK /\ HandOK /\ PhaseOK /\ OwnedOK

-----------------------------------------------------------------------------
\* What the fields of a piece of background work are.
LEMMA WorkFields ==
    ASSUME NEW t \in Works
    PROVE  /\ t.do \in {"connect", "disconnect", "mute", "audio"}
           /\ t.do = "connect" => t.id \in Sessions
           /\ t.do = "disconnect" => t.id \in {0} \cup Sessions
                                     /\ t.after \in {"nothing", "signed_out"}
           /\ t.do = "mute" => t.id \in Sessions /\ t.on \in BOOLEAN
           /\ t.do = "audio" => t.id \in Sessions /\ t.in \in Nat /\ t.audio \in Nat
  BY DEF Works

\* What the fields of a message to the user-interface thread are.
LEMMA MessageFields ==
    ASSUME NEW m \in Messages
    PROVE  /\ m.do \in {"connected", "disconnected", "event", "muted", "audio"}
           /\ m.do = "connected" => m.id \in Sessions /\ m.ok \in BOOLEAN
           /\ m.do = "event" => m.id \in Sessions /\ m.what \in EventKinds
           /\ m.do = "muted" => m.id \in Sessions
  BY DEF Messages

\* A message that is queued comes last, the others keep their places.
LEMMA Queued ==
    ASSUME NEW S, NEW q \in Seq(S), NEW m \in S, NEW r, r = Append(q, m)
    PROVE  /\ r \in Seq(S)
           /\ DOMAIN r = DOMAIN q \cup {Len(q) + 1}
           /\ Len(q) + 1 \notin DOMAIN q
           /\ r[Len(q) + 1] = m
           /\ \A i \in DOMAIN q : r[i] = q[i]
  OBVIOUS

\* A message that is taken is the first, the others move up.
LEMMA Taken ==
    ASSUME NEW S, NEW q \in Seq(S), q # <<>>, NEW r, r = Tail(q)
    PROVE  /\ r \in Seq(S)
           /\ 1 \in DOMAIN q /\ Head(q) = q[1] /\ Head(q) \in S
           /\ \A i \in DOMAIN r : i \in Nat /\ i + 1 \in DOMAIN q /\ i + 1 # 1 /\ r[i] = q[i + 1]
           /\ \A i \in DOMAIN q : i # 1 => i - 1 \in DOMAIN r /\ r[i - 1] = q[i]
  OBVIOUS

(* Messages that say nothing of a login or logout. *)
Passing(m) == m.do \in {"event", "muted", "audio"}

(* What a step does to the two queues that leaves the sessions as they are. *)
KeepsWork ==
    /\ \A t \in work' : t.do \in {"connect", "disconnect"} => t \in work
    /\ \A t \in work : t.do \in {"connect", "disconnect"} => t \in work'

KeepsMessages ==
    \/ ui' = ui
    \/ \E m \in Messages :
            /\ ui' = Append(ui, m) /\ Passing(m)
            /\ m.do = "event" => lives[m.id] # "new"
    \/ ui # <<>> /\ ui' = Tail(ui) /\ Passing(Head(ui))

(* The messages of logins and logouts keep their order: d of them, none or one,
   were taken before them. *)
Shifted(d) ==
    /\ \A i \in DOMAIN ui' : i + d \in DOMAIN ui \/ Passing(ui'[i])
    /\ \A i \in DOMAIN ui' : i + d \in DOMAIN ui => ui'[i] = ui[i + d]
    /\ \A i \in DOMAIN ui : i - d \in DOMAIN ui' \/ Passing(ui[i])
    /\ \A i \in DOMAIN ui : i - d \in DOMAIN ui' => ui'[i - d] = ui[i]
    /\ DOMAIN ui' \subseteq Nat /\ DOMAIN ui \subseteq Nat
    /\ \A i \in DOMAIN ui' : ui'[i].do = "event" =>
            (i + d \in DOMAIN ui /\ ui'[i] = ui[i + d]) \/ lives[ui'[i].id] # "new"

\* A step that queues or takes a message of the third kind only shifts the others.
LEMMA MessagesShift ==
    ASSUME ui \in Seq(Messages), KeepsMessages
    PROVE  \E d \in {0, 1} : Shifted(d)
<1>1. CASE ui' = ui
  <2>1. Shifted(0)
    BY <1>1 DEF Shifted
  <2> QED
    BY <2>1
<1>2. ASSUME NEW m \in Messages, ui' = Append(ui, m), Passing(m),
             m.do = "event" => lives[m.id] # "new"
      PROVE  Shifted(0)
  <2>1. /\ DOMAIN ui' = DOMAIN ui \cup {Len(ui) + 1}
        /\ Len(ui) + 1 \notin DOMAIN ui
        /\ ui'[Len(ui) + 1] = m
        /\ \A i \in DOMAIN ui : ui'[i] = ui[i]
    BY <1>2, Queued
  <2>2. DOMAIN ui \subseteq Nat /\ Len(ui) \in Nat
    OBVIOUS
  <2> QED
    BY <1>2, <2>1, <2>2 DEF Shifted
<1>3. ASSUME ui # <<>>, ui' = Tail(ui), Passing(Head(ui)) PROVE Shifted(1)
  <2>1. /\ Head(ui) = ui[1]
        /\ \A i \in DOMAIN ui' : i \in Nat /\ i + 1 \in DOMAIN ui /\ ui'[i] = ui[i + 1]
        /\ \A i \in DOMAIN ui : i # 1 => i - 1 \in DOMAIN ui' /\ ui'[i - 1] = ui[i]
    BY <1>3, Taken
  <2>2. DOMAIN ui \subseteq Nat
    OBVIOUS
  <2> QED
    BY <1>3, <2>1, <2>2 DEF Shifted
<1> QED
  BY <1>1, <1>2, <1>3 DEF KeepsMessages

\* A step that keeps work and messages of logins and logouts keeps who holds what.
LEMMA SessionsUntouched ==
    ASSUME QueuesOK, HandOK, OwnedOK, KeepsWork, KeepsMessages,
           UNCHANGED <<lives, current, sessionGen, closing>>
    PROVE  HandOK' /\ OwnedOK'
<1>1. PICK d \in {0, 1} : Shifted(d)
  BY MessagesShift DEF QueuesOK
<1>2. HandOK'
  BY <1>1 DEF HandOK, KeepsWork, Shifted, Passing, Answer
<1>3. ASSUME NEW s \in Sessions, Held(s) PROVE Held(s)'
  BY <1>1, <1>3 DEF Held, KeepsWork, Shifted, Passing
<1>4. OwnedOK'
  BY <1>3 DEF OwnedOK
<1> QED
  BY <1>2, <1>4

\* If it keeps the phase and the membership too, it keeps what the phase says.
LEMMA PhaseUntouched ==
    ASSUME QueuesOK, PhaseOK, KeepsWork, KeepsMessages,
           UNCHANGED <<lives, current, sessionGen, closing, phase, hasMember>>
    PROVE  PhaseOK'
<1>1. PICK d \in {0, 1} : Shifted(d)
  BY MessagesShift DEF QueuesOK
<1> QED
  BY <1>1 DEF PhaseOK, KeepsWork, Shifted, Passing, SigningOut, SignedOut

-----------------------------------------------------------------------------
(* The commands and events of a session that is there. *)
InSession ==
    \/ \E s \in Sessions, what \in EventKinds : Report(s, what)
    \/ HandleSessionEvent
    \/ \E on \in BOOLEAN : QueueParticipantMuted(on)
    \/ ApplyParticipantUpdates \/ ParticipantUpdatesApplied
    \/ \E t \in work, ok \in BOOLEAN : ApplyMute(t, ok) \/ SetAudio(t, ok)
    \/ OpenSettings \/ DialogClosed \/ ApplyAudio \/ AudioApplied

ListTypes == hasDirectory \in BOOLEAN /\ inList \in BOOLEAN /\ forgotten \in BOOLEAN

\* The types of the list of participants.
LEMMA StepListTypes ==
    ASSUME ListTypes, [DesktopNext]_desktopVars
    PROVE  ListTypes'
<1> USE DEF ListTypes, modelVars, listVars
<1>1. CASE ConnectAsync \/ Disconnected
  BY <1>1 DEF ConnectAsync, Disconnected, ModelBeginConnect, SignOut, ClearAuthenticated
<1>2. ASSUME NEW fits \in BOOLEAN, Connected(fits) PROVE ListTypes'
  BY <1>2 DEF Connected, SignOut, ClearAuthenticated, ModelConnected
<1>3. CASE HandleSessionEvent
  <2>1. ASSUME NEW what, ListChanges(what) PROVE ListTypes'
    <3>1. \/ /\ hasDirectory' \in {TRUE, FALSE, hasDirectory} /\ inList' \in {TRUE, FALSE, inList}
             /\ forgotten' = forgotten \/ forgotten' = (forgotten \/ shownPolicy.mute)
      BY <2>1 DEF ListChanges, Drop
    <3> QED
      BY <3>1
  <2> QED
    BY <1>3, <2>1 DEF HandleSessionEvent
<1>4. CASE ParticipantUpdatesApplied
  <2>1. /\ UNCHANGED <<hasDirectory, inList>>
        /\ forgotten' = forgotten \/ \E m : forgotten' = (m.on /\ ~inList)
    BY <1>4 DEF ParticipantUpdatesApplied
  <2> QED
    BY <2>1
<1>5. ASSUME NEW t \in work,
             DesktopDisconnect(t) \/ \E ok \in BOOLEAN : Connect(t, ok) \/ ApplyMute(t, ok) \/ SetAudio(t, ok)
      PROVE  ListTypes'
  BY <1>5 DEF Connect, ApplyMute, SetAudio, DesktopDisconnect
<1>7. CASE \/ DisconnectAsync \/ Closed
           \/ \E s \in Sessions, what \in VoiceEvents \cup ListEvents : Report(s, what)
           \/ \E on \in BOOLEAN : QueueParticipantMuted(on)
           \/ ApplyParticipantUpdates \/ OpenSettings \/ DialogClosed \/ ApplyAudio \/ AudioApplied
  BY <1>7 DEF DisconnectAsync, Closed, Report, QueueParticipantMuted, ApplyParticipantUpdates,
              OpenSettings, DialogClosed, ApplyAudio, AudioApplied
<1>6. CASE UNCHANGED desktopVars
  BY <1>6 DEF desktopVars
<1> QED
  BY <1>1, <1>2, <1>3, <1>4, <1>5, <1>6, <1>7 DEF DesktopNext

\* The types of the window, of the work and of the messages.
LEMMA StepTypes ==
    ASSUME DesktopTypeOK, QueuesOK, HandOK, [DesktopNext]_desktopVars
    PROVE  DesktopTypeOK' /\ QueuesOK'
<1> USE DesktopAssumption DEF DesktopTypeOK, QueuesOK, sessionVars, modelVars, listVars, updateVars,
                              dialogVars, historyVars, Sessions, Phases
<1>0. hasDirectory' \in BOOLEAN /\ inList' \in BOOLEAN /\ forgotten' \in BOOLEAN
  BY StepListTypes DEF ListTypes
<1>1. CASE ConnectAsync
  <2>1. [do |-> "connect", id |-> sessionGen'] \in Works
    BY <1>1 DEF ConnectAsync, Works
  <2>2. hasMember' \in BOOLEAN /\ sending' \in BOOLEAN /\ phase' \in Phases
    BY <1>1 DEF ConnectAsync, ModelBeginConnect, ClearAuthenticated
  <2> QED
    BY <1>0, <1>1, <2>1, <2>2 DEF ConnectAsync
<1>2. ASSUME NEW t \in work, NEW ok \in BOOLEAN, Connect(t, ok)
      PROVE  DesktopTypeOK' /\ QueuesOK'
  <2>1. t.id \in Sessions
    BY <1>2, WorkFields DEF Connect
  <2>2. [do |-> "connected", id |-> t.id, ok |-> ok] \in Messages
    BY <2>1 DEF Messages
  <2> QED
    BY <1>2, <2>1, <2>2, Queued DEF Connect
<1>3. ASSUME NEW fits \in BOOLEAN, Connected(fits) PROVE DesktopTypeOK' /\ QueuesOK'
  <2>1. /\ Head(ui) \in Messages /\ Head(ui).do = "connected" /\ ui' \in Seq(Messages)
        /\ UNCHANGED <<sessionGen, closing, timerOn, running, unsent, dialog, dialogs, applying,
                       lives, policies, reports, commands>>
    BY <1>3, Taken DEF Connected, Next2
  <2>2. Head(ui).id \in Sessions
    BY <2>1, MessageFields
  <2>3. Disconnecting(Head(ui).id, "nothing") \in Works
    BY <2>2 DEF Disconnecting, Works
  <2>4. work' \subseteq work \cup {Disconnecting(Head(ui).id, "nothing")}
    BY <1>3 DEF Connected
  <2>5. current' \in {current, Head(ui).id}
    BY <1>3 DEF Connected
  <2>6. phase' \in Phases /\ hasMember' \in BOOLEAN /\ sending' \in BOOLEAN
    BY <1>3 DEF Connected, SignOut, ClearAuthenticated, ModelConnected
  <2> QED
    BY <1>0, <2>1, <2>2, <2>3, <2>4, <2>5, <2>6
<1>4. ASSUME NEW t \in work, DesktopDisconnect(t) PROVE DesktopTypeOK' /\ QueuesOK'
  <2>1. t.id \in {0} \cup Sessions
    BY <1>4, WorkFields DEF DesktopDisconnect
  <2>2. [do |-> "disconnected"] \in Messages
    BY DEF Messages
  <2>3. ui' \in Seq(Messages)
    BY <1>4, <2>2, Queued DEF DesktopDisconnect
  <2> QED
    BY <1>4, <2>1, <2>3 DEF DesktopDisconnect
<1>5. CASE DisconnectAsync
  <2>1. Disconnecting(current, "signed_out") \in Works
    BY DEF Disconnecting, Works
  <2>2. sending' \in BOOLEAN /\ timerOn' \in BOOLEAN /\ applying' \in BOOLEAN
    BY <1>5 DEF DisconnectAsync, CloseDialog
  <2>3. dialog' = 0 /\ dialogs' = dialogs
    BY <1>5 DEF DisconnectAsync, CloseDialog
  <2> QED
    BY <1>5, <2>1, <2>2, <2>3 DEF DisconnectAsync
<1>6. CASE Disconnected
  <2>1. ui' \in Seq(Messages)
    BY <1>6, Taken DEF Disconnected, Next2
  <2> QED
    BY <1>0, <1>6, <2>1 DEF Disconnected, SignOut, ClearAuthenticated
<1>7. CASE Closed
  <2>1. Disconnecting(current, "nothing") \in Works
    BY DEF Disconnecting, Works
  <2>2. timerOn' \in BOOLEAN /\ applying' \in BOOLEAN
    BY <1>7 DEF Closed, CloseDialog
  <2>3. dialog' = 0 /\ dialogs' = dialogs
    BY <1>7 DEF Closed, CloseDialog
  <2>4. sessionGen' \in 0..(MaxGenerations + 1)
    BY <1>7 DEF Closed, HandOK
  <2> QED
    BY <1>7, <2>1, <2>2, <2>3, <2>4 DEF Closed
<1>8. ASSUME NEW s \in Sessions, NEW what \in EventKinds, Report(s, what)
      PROVE  DesktopTypeOK' /\ QueuesOK'
  <2>1. [do |-> "event", id |-> s, what |-> what] \in Messages
    BY DEF Messages
  <2> QED
    BY <1>8, <2>1, Queued DEF Report
<1>9. CASE HandleSessionEvent
  <2>1. ui' \in Seq(Messages)
    BY <1>9, Taken DEF HandleSessionEvent, Next2
  <2>2. phase' \in Phases /\ sending' \in BOOLEAN
    BY <1>9 DEF HandleSessionEvent, PhaseAfter
  <2> QED
    BY <1>0, <1>9, <2>1, <2>2 DEF HandleSessionEvent
<1>10. ASSUME NEW on \in BOOLEAN, QueueParticipantMuted(on) PROVE DesktopTypeOK' /\ QueuesOK'
  BY <1>10 DEF QueueParticipantMuted, StartTimer
<1>11. CASE ApplyParticipantUpdates
  <2>1. current # 0 => [do |-> "mute", id |-> current, on |-> unsent = "mute"] \in Works
    BY DEF Works
  <2> QED
    BY <1>0, <1>11, <2>1 DEF ApplyParticipantUpdates
<1>12. ASSUME NEW t \in work, NEW ok \in BOOLEAN, ApplyMute(t, ok)
       PROVE  DesktopTypeOK' /\ QueuesOK'
  <2>1. [do |-> "muted", id |-> t.id, on |-> t.on, ok |-> ok] \in Messages
    BY <1>12, WorkFields DEF ApplyMute, Messages
  <2> QED
    BY <1>12, <2>1, Queued DEF ApplyMute
<1>13. CASE ParticipantUpdatesApplied
  <2>1. ui' \in Seq(Messages)
    BY <1>13, Taken DEF ParticipantUpdatesApplied, Next2
  <2> QED
    BY <1>0, <1>13, <2>1 DEF ParticipantUpdatesApplied, Restart
<1>14. CASE OpenSettings
  BY <1>14 DEF OpenSettings
<1>15. CASE DialogClosed
  <2>1. applying' \in BOOLEAN
    BY <1>15 DEF DialogClosed, CloseDialog
  <2>2. dialog' = 0 /\ dialogs' = dialogs
    BY <1>15 DEF DialogClosed, CloseDialog
  <2> QED
    BY <1>15, <2>1, <2>2 DEF DialogClosed
<1>16. CASE ApplyAudio
  <2>1. [do |-> "audio", id |-> current, in |-> dialog, audio |-> commands'] \in Works
    BY <1>16 DEF ApplyAudio, Works
  <2> QED
    BY <1>16, <2>1 DEF ApplyAudio
<1>17. ASSUME NEW t \in work, NEW ok \in BOOLEAN, SetAudio(t, ok)
       PROVE  DesktopTypeOK' /\ QueuesOK'
  <2>1. [do |-> "audio", in |-> t.in, audio |-> t.audio, ok |-> ok] \in Messages
    BY <1>17, WorkFields DEF SetAudio, Messages
  <2> QED
    BY <1>17, <2>1, Queued DEF SetAudio
<1>18. CASE AudioApplied
  <2>1. ui' \in Seq(Messages)
    BY <1>18, Taken DEF AudioApplied, Next2
  <2> QED
    BY <1>18, <2>1 DEF AudioApplied
<1>19. CASE UNCHANGED desktopVars
  BY <1>19 DEF desktopVars
<1> QED
  BY <1>1, <1>2, <1>3, <1>4, <1>5, <1>6, <1>7, <1>8, <1>9, <1>10, <1>11, <1>12, <1>13, <1>14,
     <1>15, <1>16, <1>17, <1>18, <1>19 DEF DesktopNext, EventKinds

\* What a session that is there does leaves every session in the hands it is in.
LEMMA InSessionKeeps ==
    ASSUME QueuesOK, InSession
    PROVE  /\ KeepsWork /\ KeepsMessages
           /\ UNCHANGED <<lives, current, sessionGen, closing, hasMember>>
           /\ HandleSessionEvent \/ UNCHANGED phase
<1> USE DEF QueuesOK, modelVars, listVars, updateVars, dialogVars, sessionVars, historyVars
<1>1. ASSUME NEW s \in Sessions, NEW what \in EventKinds, Report(s, what)
      PROVE  /\ KeepsWork /\ KeepsMessages
             /\ UNCHANGED <<lives, current, sessionGen, closing, hasMember, phase>>
  <2> DEFINE m == [do |-> "event", id |-> s, what |-> what]
  <2>1. m \in Messages /\ Passing(m) /\ lives[m.id] # "new"
    BY <1>1 DEF Report, Messages, Passing
  <2>2. ui' = Append(ui, m) /\ work' = work
    BY <1>1 DEF Report
  <2>3. KeepsWork /\ KeepsMessages
    BY <2>1, <2>2 DEF KeepsWork, KeepsMessages
  <2> QED
    BY <1>1, <2>3 DEF Report
<1>2. CASE HandleSessionEvent \/ ParticipantUpdatesApplied \/ AudioApplied
  <2>1. ui # <<>> /\ ui' = Tail(ui) /\ Passing(Head(ui)) /\ work' = work
    BY <1>2 DEF HandleSessionEvent, ParticipantUpdatesApplied, AudioApplied, Next2, Passing
  <2>2. KeepsWork /\ KeepsMessages
    BY <2>1 DEF KeepsWork, KeepsMessages
  <2> QED
    BY <1>2, <2>2 DEF HandleSessionEvent, ParticipantUpdatesApplied, AudioApplied
<1>3. CASE \/ \E on \in BOOLEAN : QueueParticipantMuted(on)
           \/ ApplyParticipantUpdates \/ OpenSettings \/ DialogClosed \/ ApplyAudio
  <2>1. ui' = ui /\ UNCHANGED <<lives, current, sessionGen, closing, hasMember, phase>>
    BY <1>3 DEF QueueParticipantMuted, ApplyParticipantUpdates, OpenSettings, DialogClosed,
                ApplyAudio
  <2>2. /\ work \subseteq work'
        /\ \A t \in work' \ work : t.do \in {"mute", "audio"}
    BY <1>3 DEF QueueParticipantMuted, ApplyParticipantUpdates, OpenSettings, DialogClosed,
                ApplyAudio
  <2> QED
    BY <2>1, <2>2 DEF KeepsWork, KeepsMessages
<1>4. ASSUME NEW t \in work, NEW ok \in BOOLEAN, ApplyMute(t, ok)
      PROVE  /\ KeepsWork /\ KeepsMessages
             /\ UNCHANGED <<lives, current, sessionGen, closing, hasMember, phase>>
  <2> DEFINE m == [do |-> "muted", id |-> t.id, on |-> t.on, ok |-> ok]
  <2>1. m \in Messages /\ Passing(m) /\ m.do # "event"
    BY <1>4, WorkFields DEF ApplyMute, Messages, Passing
  <2>2. ui' = Append(ui, m) /\ work' = work \ {t} /\ t.do = "mute"
    BY <1>4 DEF ApplyMute
  <2>3. KeepsWork /\ KeepsMessages
    BY <2>1, <2>2 DEF KeepsWork, KeepsMessages
  <2> QED
    BY <1>4, <2>3 DEF ApplyMute
<1>5. ASSUME NEW t \in work, NEW ok \in BOOLEAN, SetAudio(t, ok)
      PROVE  /\ KeepsWork /\ KeepsMessages
             /\ UNCHANGED <<lives, current, sessionGen, closing, hasMember, phase>>
  <2> DEFINE m == [do |-> "audio", in |-> t.in, audio |-> t.audio, ok |-> ok]
  <2>1. m \in Messages /\ Passing(m) /\ m.do # "event"
    BY <1>5, WorkFields DEF SetAudio, Messages, Passing
  <2>2. ui' = Append(ui, m) /\ work' = work \ {t} /\ t.do = "audio"
    BY <1>5 DEF SetAudio
  <2>3. KeepsWork /\ KeepsMessages
    BY <2>1, <2>2 DEF KeepsWork, KeepsMessages
  <2> QED
    BY <1>5, <2>3 DEF SetAudio
<1> QED
  BY <1>1, <1>2, <1>3, <1>4, <1>5 DEF InSession

\* Every step leaves each session in one pair of hands.
LEMMA StepSessions ==
    ASSUME WindowInv, [DesktopNext]_desktopVars
    PROVE  HandOK' /\ OwnedOK' /\ PhaseOK'
<1> USE DEF WindowInv
<1>0. /\ work \subseteq Works /\ ui \in Seq(Messages) /\ DOMAIN ui \subseteq Nat
      /\ lives \in [Sessions -> {"new", "opening", "up", "down"}]
      /\ sessionGen \in 0..(MaxGenerations + 1) /\ current \in {0} \cup Sessions
      /\ Sessions = 1..(MaxGenerations + 1) /\ MaxGenerations \in Nat
  BY DesktopAssumption DEF QueuesOK, DesktopTypeOK, Sessions
<1>1. CASE ConnectAsync
  <2>0. PICK n \in Nat : n = sessionGen + 1
    BY <1>0
  <2> DEFINE t == [do |-> "connect", id |-> n]
  <2>1. /\ ~closing /\ phase = "signed_out" /\ phase' = "connecting" /\ hasMember' = FALSE
        /\ sessionGen' = n /\ sessionGen < MaxGenerations
        /\ lives' = [lives EXCEPT ![n] = "opening"]
        /\ work' = work \cup {t} /\ UNCHANGED <<current, closing, ui>>
    BY <1>1, <2>0 DEF ConnectAsync, ModelBeginConnect, Valid, ClearAuthenticated
  <2>2. n \in Sessions /\ lives[n] = "new" /\ current = 0
    BY <1>0, <2>0, <2>1 DEF HandOK, PhaseOK
  <2>3. /\ \A u \in work : u.do = "connect" => u.id \in Sessions /\ u.id # n
        /\ \A u \in work : u.do = "disconnect" => u.id # n /\ ~SigningOut(u)
        /\ \A i \in DOMAIN ui : Answer(i) => ui[i].id # n
        /\ \A i \in DOMAIN ui : ~SignedOut(i)
    BY <1>0, <2>0, <2>1, <2>2, WorkFields, SMTT(30) DEF HandOK, PhaseOK, Answer
  <2>4. HandOK'
    BY <1>0, <2>0, <2>1, <2>2, <2>3 DEF HandOK, Answer
  <2>5. \A s \in Sessions : Held(s) => Held(s)'
    BY <2>1 DEF Held
  <2>6. Held(n)'
    <3>1. t \in work' /\ t.do = "connect" /\ t.id = n
      BY <2>1
    <3>2. \E u \in work' : u.do \in {"connect", "disconnect"} /\ u.id = n
      BY <3>1
    <3> QED
      BY <3>2 DEF Held
  <2>7. OwnedOK'
    BY <1>0, <2>1, <2>2, <2>5, <2>6 DEF OwnedOK
  <2>8. PhaseOK'
    BY <2>1, <2>3 DEF PhaseOK, SigningOut, SignedOut
  <2> QED
    BY <2>4, <2>7, <2>8
<1>2. ASSUME NEW t \in work, NEW ok \in BOOLEAN, Connect(t, ok)
      PROVE  HandOK' /\ OwnedOK' /\ PhaseOK'
  <2> DEFINE m == [do |-> "connected", id |-> t.id, ok |-> ok]
  <2>1. /\ t.do = "connect" /\ work' = work \ {t}
        /\ lives' = [lives EXCEPT ![t.id] = IF ok THEN "up" ELSE "down"]
        /\ ui' = Append(ui, m)
        /\ UNCHANGED <<phase, hasMember, sessionGen, current, closing>>
    BY <1>2 DEF Connect, modelVars
  <2>2. t.id \in Sessions /\ lives[t.id] = "opening" /\ m \in Messages
    BY <1>0, <2>1, WorkFields DEF HandOK, Messages
  <2>3. /\ DOMAIN ui' = DOMAIN ui \cup {Len(ui) + 1} /\ Len(ui) + 1 \notin DOMAIN ui
        /\ ui'[Len(ui) + 1] = m /\ \A i \in DOMAIN ui : ui'[i] = ui[i]
    BY <1>0, <2>1, <2>2, Queued
  <2>4. /\ \A i \in DOMAIN ui : Answer(i) => ui[i].id # t.id
        /\ \A u \in work : u.do = "disconnect" => u.id # t.id
        /\ t.id # current
    BY <1>0, <2>2 DEF HandOK, OwnedOK
  <2>5. \A u \in work' : u.do = "connect" => u.id # t.id
    <3>1. \A u \in work : u.do = "connect" /\ u.id = t.id => u = t
      BY <1>0, <2>1 DEF Works
    <3> QED
      BY <2>1, <3>1
  <2>6. HandOK'
    <3>1. lives'[t.id] = IF ok THEN "up" ELSE "down"
      BY <1>0, <2>1, <2>2
    <3>2. \A s \in Sessions \ {t.id} : lives'[s] = lives[s]
      BY <1>0, <2>1
    <3>3. /\ \A u \in work : u.do \in {"connect", "disconnect"} => u.id \in {0} \cup Sessions
          /\ \A i \in DOMAIN ui : Answer(i) \/ ui[i].do = "event" => ui[i].id \in Sessions
      BY <1>0, WorkFields, MessageFields DEF Answer
    <3>4. /\ (~closing => sessionGen <= MaxGenerations)'
          /\ (\A s \in Sessions : s > sessionGen => lives[s] = "new")'
      BY <1>0, <2>1, <2>2, <3>2 DEF HandOK
    <3>5. (\A u \in work : u.do = "connect" => lives[u.id] = "opening")'
      BY <1>0, <2>1, <2>5, <3>2, WorkFields DEF HandOK
    <3>6. (\A u \in work : u.do = "disconnect" /\ u.id # 0 =>
            /\ lives[u.id] \in {"up", "down"}
            /\ u.id # current
            /\ \A i \in DOMAIN ui : Answer(i) => ui[i].id # u.id)'
      BY <2>1, <2>3, <2>4, <3>2, <3>3 DEF HandOK, Answer
    <3>7. (\A i \in DOMAIN ui : Answer(i) =>
            /\ lives[ui[i].id] = IF ui[i].ok THEN "up" ELSE "down"
            /\ ui[i].id # current)'
      BY <2>1, <2>3, <2>4, <3>1, <3>2, <3>3 DEF HandOK, Answer
    <3>8. (\A i, j \in DOMAIN ui : Answer(i) /\ Answer(j) /\ ui[i].id = ui[j].id => i = j)'
      BY <2>3, <2>4 DEF HandOK, Answer
    <3>9. (\A i \in DOMAIN ui : ui[i].do = "event" => lives[ui[i].id] # "new")'
      BY <2>3, <3>1, <3>2, <3>3 DEF HandOK
    <3> QED
      BY <3>4, <3>5, <3>6, <3>7, <3>8, <3>9 DEF HandOK
  <2>7. \A s \in Sessions \ {t.id} : Held(s) => Held(s)'
    BY <2>1, <2>3 DEF Held
  <2>8. Held(t.id)'
    BY <2>3 DEF Held
  <2>9. OwnedOK'
    BY <1>0, <2>1, <2>2, <2>4, <2>7, <2>8 DEF OwnedOK
  <2>10. PhaseOK'
    BY <1>0, <2>1, <2>2, <2>3 DEF PhaseOK, SigningOut, SignedOut
  <2> QED
    BY <2>6, <2>9, <2>10
<1>3. ASSUME NEW fits \in BOOLEAN, Connected(fits) PROVE HandOK' /\ OwnedOK' /\ PhaseOK'
  <2>0. PICK h : h = Head(ui)
    OBVIOUS
  <2> DEFINE d == Disconnecting(h.id, "nothing")
  <2>1. /\ h \in Messages /\ h.do = "connected" /\ 1 \in DOMAIN ui /\ h = ui[1]
        /\ \A i \in DOMAIN ui' : i \in Nat /\ i + 1 \in DOMAIN ui /\ i + 1 # 1 /\ ui'[i] = ui[i + 1]
        /\ \A i \in DOMAIN ui : i # 1 => i - 1 \in DOMAIN ui' /\ ui'[i - 1] = ui[i]
    <3>1. ui # <<>> /\ ui' = Tail(ui) /\ h.do = "connected"
      BY <1>3, <2>0 DEF Connected, Next2
    <3>2. ui \in Seq(Messages)
      BY <1>0
    <3>3. /\ 1 \in DOMAIN ui /\ Head(ui) = ui[1] /\ Head(ui) \in Messages
          /\ \A i \in DOMAIN ui' : i \in Nat /\ i + 1 \in DOMAIN ui /\ i + 1 # 1 /\ ui'[i] = ui[i + 1]
          /\ \A i \in DOMAIN ui : i # 1 => i - 1 \in DOMAIN ui' /\ ui'[i - 1] = ui[i]
      BY <3>1, <3>2, Taken
    <3> QED
      BY <2>0, <3>1, <3>3
  <2>2. UNCHANGED <<sessionGen, closing, lives>>
    BY <1>3 DEF Connected, sessionVars
  <2>3. /\ h.id \in Sessions /\ h.id # current
        /\ lives[h.id] = IF h.ok THEN "up" ELSE "down"
        /\ \A i \in DOMAIN ui' : ui'[i].do = "connected" => ui'[i].id # h.id
        /\ \A u \in work : u.do \in {"connect", "disconnect"} => u.id # h.id
    <3>1. h.id \in Sessions
      BY <2>1, MessageFields
    <3>2. h.id # current /\ lives[h.id] = IF h.ok THEN "up" ELSE "down"
      BY <2>1 DEF HandOK, Answer
    <3>3. \A i \in DOMAIN ui' : ui'[i].do = "connected" => ui'[i].id # h.id
      BY <2>1 DEF HandOK, Answer
    <3>4. \A u \in work : u.do \in {"connect", "disconnect"} => u.id # h.id
      BY <1>0, <2>1, <3>1, <3>2 DEF HandOK, Answer, Sessions
    <3> QED
      BY <3>1, <3>2, <3>3, <3>4
  <2>4. IsCurrent(h.id) => current = 0 /\ phase # "disconnecting" /\ ~closing
    BY <2>3 DEF IsCurrent, OwnedOK, PhaseOK
  <2>5. \/ /\ work' = work \cup {d} /\ UNCHANGED <<phase, hasMember, current>>
        \/ /\ IsCurrent(h.id) /\ ~h.ok /\ phase' = "signed_out" /\ hasMember' = FALSE
           /\ UNCHANGED <<current, work>>
        \/ /\ IsCurrent(h.id) /\ h.ok /\ phase' = "ready" /\ hasMember' = TRUE
           /\ current' = h.id /\ UNCHANGED work
        \/ /\ IsCurrent(h.id) /\ phase' = "signed_out" /\ hasMember' = FALSE
           /\ work' = work \cup {d} /\ UNCHANGED current
    BY <1>3, <2>0 DEF Connected, SignOut, ClearAuthenticated, ModelConnected, modelVars, listVars
  <2>6. /\ d.do = "disconnect" /\ d.id = h.id /\ d.after = "nothing"
        /\ ~SigningOut(d)
    BY DEF Disconnecting, SigningOut
  <2>7. HandOK'
    <3>1. /\ (~closing => sessionGen <= MaxGenerations)'
          /\ (\A s \in Sessions : s > sessionGen => lives[s] = "new")'
          /\ (\A i \in DOMAIN ui : ui[i].do = "event" => lives[ui[i].id] # "new")'
      BY <1>0, <2>1, <2>2, SMTT(30) DEF HandOK
    <3>2. (\A u \in work : u.do = "connect" => lives[u.id] = "opening")'
      BY <2>2, <2>5, <2>6 DEF HandOK
    <3>3. (\A u \in work : u.do = "disconnect" /\ u.id # 0 =>
            /\ lives[u.id] \in {"up", "down"}
            /\ u.id # current
            /\ \A i \in DOMAIN ui : Answer(i) => ui[i].id # u.id)'
      BY <2>1, <2>2, <2>3, <2>5, <2>6 DEF HandOK, Answer
    <3>4. (\A i \in DOMAIN ui : Answer(i) =>
            /\ lives[ui[i].id] = IF ui[i].ok THEN "up" ELSE "down"
            /\ ui[i].id # current)'
      BY <2>1, <2>2, <2>3, <2>5 DEF HandOK, Answer
    <3>5. (\A i, j \in DOMAIN ui : Answer(i) /\ Answer(j) /\ ui[i].id = ui[j].id => i = j)'
      BY <2>1 DEF HandOK, Answer
    <3> QED
      BY <3>1, <3>2, <3>3, <3>4, <3>5 DEF HandOK
  <2>8. \A s \in Sessions \ {h.id} : Held(s) => Held(s)'
    BY <2>1, <2>5 DEF Held
  <2>9. d \in work' => Held(h.id)'
    BY <2>6 DEF Held
  <2>10. OwnedOK'
    BY <1>0, <2>2, <2>3, <2>4, <2>5, <2>8, <2>9 DEF OwnedOK, IsCurrent, Sessions
  <2>11. /\ \A u \in work' : SigningOut(u) => u \in work
         /\ \A i \in DOMAIN ui' : SignedOut(i)' => SignedOut(i + 1)
    BY <2>1, <2>5, <2>6 DEF SignedOut
  <2>12. PhaseOK'
    <3>1. CASE closing
      BY <3>1, <2>2 DEF PhaseOK
    <3>2. CASE ~closing /\ UNCHANGED <<phase, hasMember, current>>
      BY <3>2, <2>1, <2>2, <2>11 DEF PhaseOK, SigningOut
    <3>3. CASE ~closing /\ IsCurrent(h.id)
      <4>1. (\A u \in work' : ~SigningOut(u)) /\ (\A i \in DOMAIN ui' : ~SignedOut(i)')
        BY <2>1, <2>4, <2>11, <3>3 DEF PhaseOK
      <4>2. \/ phase' = "signed_out" /\ hasMember' = FALSE /\ current' = 0
            \/ phase' = "ready" /\ hasMember' = TRUE /\ current' # 0
            \/ UNCHANGED <<phase, hasMember, current>>
        BY <1>0, <2>3, <2>4, <2>5, <3>3 DEF Sessions
      <4> QED
        BY <3>2, <3>3, <4>1, <4>2 DEF PhaseOK, SigningOut
    <3> QED
      BY <2>5, <3>1, <3>2, <3>3
  <2> QED
    BY <2>7, <2>10, <2>12
<1>4. ASSUME NEW t \in work, DesktopDisconnect(t) PROVE HandOK' /\ OwnedOK' /\ PhaseOK'
  <2> DEFINE m == [do |-> "disconnected"]
  <2>1. /\ t.do = "disconnect" /\ work' = work \ {t}
        /\ UNCHANGED <<phase, hasMember, sessionGen, current, closing>>
    BY <1>4 DEF DesktopDisconnect, modelVars
  <2>2. t.id \in {0} \cup Sessions /\ t.after \in {"nothing", "signed_out"}
    BY <1>0, <2>1, WorkFields
  <2>3. t.id # 0 => lives[t.id] \in {"up", "down"} /\ t.id # current
                    /\ \A i \in DOMAIN ui : Answer(i) => ui[i].id # t.id
    BY <2>1 DEF HandOK
  <2>4. /\ \A s \in Sessions : s # t.id => lives'[s] = lives[s]
        /\ t.id \in Sessions => lives'[t.id] = "down"
    BY <1>0, <1>4 DEF DesktopDisconnect
  <2>5. /\ \A i \in DOMAIN ui : i \in DOMAIN ui' /\ ui'[i] = ui[i]
        /\ \A i \in DOMAIN ui' : i \in DOMAIN ui \/ (t.after = "signed_out" /\ ui'[i] = m)
        /\ \A i, j \in DOMAIN ui' : i \notin DOMAIN ui /\ j \notin DOMAIN ui => i = j
    <3>1. CASE t.after = "nothing"
      BY <1>4, <3>1 DEF DesktopDisconnect
    <3>2. CASE t.after = "signed_out"
      <4>1. ui' = Append(ui, m) /\ m \in Messages
        BY <1>4, <3>2 DEF DesktopDisconnect, Messages
      <4> QED
        BY <1>0, <3>2, <4>1, Queued
    <3> QED
      BY <2>2, <3>1, <3>2
  <2>6. /\ \A u \in work : u.do \in {"connect", "disconnect"} => u.id \in {0} \cup Sessions
        /\ \A u \in work : u.do = "connect" => u.id \in Sessions
        /\ \A i \in DOMAIN ui : Answer(i) \/ ui[i].do = "event" => ui[i].id \in Sessions
    BY <1>0, WorkFields, MessageFields DEF Answer
  <2>7. HandOK'
    <3>1. /\ (~closing => sessionGen <= MaxGenerations)'
          /\ (\A s \in Sessions : s > sessionGen => lives[s] = "new")'
      BY <1>0, <2>1, <2>2, <2>3, <2>4 DEF HandOK
    <3>2. (\A i \in DOMAIN ui : ui[i].do = "event" => lives[ui[i].id] # "new")'
      BY <2>4, <2>5, <2>6 DEF HandOK
    <3>3. (\A u \in work : u.do = "connect" => lives[u.id] = "opening")'
      BY <1>0, <2>1, <2>3, <2>4, <2>6 DEF HandOK, Sessions
    <3>4. (\A u \in work : u.do = "disconnect" /\ u.id # 0 =>
            /\ lives[u.id] \in {"up", "down"}
            /\ u.id # current
            /\ \A i \in DOMAIN ui : Answer(i) => ui[i].id # u.id)'
      BY <2>1, <2>4, <2>5, <2>6 DEF HandOK, Answer
    <3>5. (\A i \in DOMAIN ui : Answer(i) =>
            /\ lives[ui[i].id] = IF ui[i].ok THEN "up" ELSE "down"
            /\ ui[i].id # current)'
      BY <1>0, <2>1, <2>3, <2>4, <2>5, <2>6 DEF HandOK, Answer, Sessions
    <3>6. (\A i, j \in DOMAIN ui : Answer(i) /\ Answer(j) /\ ui[i].id = ui[j].id => i = j)'
      BY <2>5 DEF HandOK, Answer
    <3> QED
      BY <3>1, <3>2, <3>3, <3>4, <3>5, <3>6 DEF HandOK
  <2>8. \A s \in Sessions \ {t.id} : Held(s) => Held(s)'
    BY <2>1, <2>5 DEF Held
  <2>9. OwnedOK'
    BY <1>0, <2>1, <2>2, <2>3, <2>4, <2>8 DEF OwnedOK
  <2>10. PhaseOK'
    <3>1. closing \/ ~(\E i \in DOMAIN ui' : i \notin DOMAIN ui)
          \/ /\ SigningOut(t) /\ phase = "disconnecting"
             /\ \A i \in DOMAIN ui : ~SignedOut(i)
             /\ \A u \in work' : ~SigningOut(u)
      BY <2>1, <2>5 DEF PhaseOK, SigningOut
    <3>2. ~closing /\ phase = "disconnecting" => sessionGen # t.id
      BY <1>0, <2>3 DEF PhaseOK, Sessions
    <3> QED
      BY <2>1, <2>4, <2>5, <3>1, <3>2 DEF PhaseOK, SigningOut, SignedOut
  <2> QED
    BY <2>7, <2>9, <2>10
<1>5. CASE DisconnectAsync
  <2>0. PICK d : d = Disconnecting(current, "signed_out")
    OBVIOUS
  <2>1. /\ ~closing /\ phase \in {"ready", "reconnecting"} /\ phase' = "disconnecting"
        /\ sessionGen < MaxGenerations /\ sessionGen' = sessionGen + 1
        /\ current' = 0 /\ work' = work \cup {d}
        /\ UNCHANGED <<hasMember, closing, lives, ui>>
    BY <1>5, <2>0 DEF DisconnectAsync, Valid, IsSessionAvailable, sessionVars
  <2>2. d.do = "disconnect" /\ d.id = current /\ SigningOut(d)
    BY <2>0 DEF Disconnecting, SigningOut
  <2>3. /\ current # 0 => lives[current] = "up"
        /\ \A i \in DOMAIN ui : Answer(i) => ui[i].id # current /\ ui[i].id # 0
        /\ \A u \in work : u.do = "connect" => u.id # current
    BY <1>0, MessageFields, WorkFields DEF OwnedOK, HandOK, Answer, Sessions
  <2>4. HandOK'
    BY <1>0, <2>1, <2>2, <2>3 DEF HandOK, Answer, Sessions
  <2>5. /\ \A s \in Sessions : Held(s) => Held(s)'
        /\ current \in Sessions => (\E u \in work' : u.do = "disconnect" /\ u.id = current)
    BY <2>1, <2>2 DEF Held
  <2>6. OwnedOK'
    BY <1>0, <2>1, <2>5 DEF OwnedOK, Held
  <2>7. /\ \A u \in work : ~SigningOut(u)
        /\ \A i \in DOMAIN ui : ~SignedOut(i)
    BY <2>1 DEF PhaseOK
  <2>8. sessionGen' \in Sessions /\ lives'[sessionGen'] = "new"
    BY <1>0, <2>1 DEF HandOK
  <2>9. PhaseOK'
    BY <2>1, <2>7, <2>8 DEF PhaseOK, SigningOut, SignedOut
  <2> QED
    BY <2>4, <2>6, <2>9
<1>6. CASE Disconnected
  <2>1. /\ ui[1].do = "disconnected" /\ 1 \in DOMAIN ui
        /\ \A i \in DOMAIN ui' : i \in Nat /\ i + 1 \in DOMAIN ui /\ i + 1 # 1 /\ ui'[i] = ui[i + 1]
        /\ \A i \in DOMAIN ui : i # 1 => i - 1 \in DOMAIN ui' /\ ui'[i - 1] = ui[i]
    <3>1. ui # <<>> /\ ui' = Tail(ui) /\ Head(ui).do = "disconnected"
      BY <1>6 DEF Disconnected, Next2
    <3>2. ui \in Seq(Messages)
      BY <1>0
    <3>3. /\ 1 \in DOMAIN ui /\ Head(ui) = ui[1] /\ Head(ui) \in Messages
          /\ \A i \in DOMAIN ui' : i \in Nat /\ i + 1 \in DOMAIN ui /\ i + 1 # 1 /\ ui'[i] = ui[i + 1]
          /\ \A i \in DOMAIN ui : i # 1 => i - 1 \in DOMAIN ui' /\ ui'[i - 1] = ui[i]
      BY <3>1, <3>2, Taken
    <3> QED
      BY <3>1, <3>3
  <2>2. /\ UNCHANGED <<sessionGen, closing, lives, current, work>>
        /\ ~closing => phase' = "signed_out" /\ hasMember' = FALSE
    BY <1>6 DEF Disconnected, sessionVars, SignOut, ClearAuthenticated
  <2>3. HandOK'
    <3>1. /\ (~closing => sessionGen <= MaxGenerations)'
          /\ (\A s \in Sessions : s > sessionGen => lives[s] = "new")'
          /\ (\A u \in work : u.do = "connect" => lives[u.id] = "opening")'
          /\ (\A i \in DOMAIN ui : ui[i].do = "event" => lives[ui[i].id] # "new")'
      BY <1>0, <2>1, <2>2 DEF HandOK
    <3>2. (\A u \in work : u.do = "disconnect" /\ u.id # 0 =>
            /\ lives[u.id] \in {"up", "down"}
            /\ u.id # current
            /\ \A i \in DOMAIN ui : Answer(i) => ui[i].id # u.id)'
      BY <2>1, <2>2 DEF HandOK, Answer
    <3>3. (\A i \in DOMAIN ui : Answer(i) =>
            /\ lives[ui[i].id] = IF ui[i].ok THEN "up" ELSE "down"
            /\ ui[i].id # current)'
      BY <2>1, <2>2 DEF HandOK, Answer
    <3>4. (\A i, j \in DOMAIN ui : Answer(i) /\ Answer(j) /\ ui[i].id = ui[j].id => i = j)'
      BY <2>1 DEF HandOK, Answer
    <3> QED
      BY <3>1, <3>2, <3>3, <3>4 DEF HandOK
  <2>4. \A s \in Sessions : Held(s) => Held(s)'
    BY <2>1, <2>2 DEF Held
  <2>5. OwnedOK'
    BY <2>2, <2>4 DEF OwnedOK
  <2>6. ~closing => /\ phase = "disconnecting" /\ current = 0
                    /\ \A u \in work : ~SigningOut(u)
                    /\ \A i \in DOMAIN ui : SignedOut(i) => i = 1
    BY <2>1 DEF PhaseOK, SignedOut
  <2>7. PhaseOK'
    BY <2>1, <2>2, <2>6 DEF PhaseOK, SigningOut, SignedOut
  <2> QED
    BY <2>3, <2>5, <2>7
<1>7. CASE Closed
  <2>0. PICK d : d = Disconnecting(current, "nothing")
    OBVIOUS
  <2>1. /\ ~closing /\ closing' = TRUE /\ sessionGen' = sessionGen + 1 /\ current' = 0
        /\ work' = IF current = 0 THEN work ELSE work \cup {d}
        /\ UNCHANGED <<lives, ui>>
    BY <1>7, <2>0 DEF Closed, sessionVars
  <2>2. d.do = "disconnect" /\ d.id = current
    BY <2>0 DEF Disconnecting
  <2>3. /\ current # 0 => lives[current] = "up"
        /\ \A i \in DOMAIN ui : Answer(i) => ui[i].id # current /\ ui[i].id # 0
    BY <1>0, MessageFields DEF OwnedOK, HandOK, Answer, Sessions
  <2>4. HandOK'
    BY <1>0, <2>1, <2>2, <2>3 DEF HandOK, Answer, Sessions
  <2>5. /\ \A s \in Sessions : Held(s) => Held(s)'
        /\ current \in Sessions => (\E u \in work' : u.do = "disconnect" /\ u.id = current)
    BY <1>0, <2>1, <2>2 DEF Held, Sessions
  <2>6. OwnedOK'
    BY <1>0, <2>1, <2>5 DEF OwnedOK, Held
  <2>7. PhaseOK'
    BY <2>1 DEF PhaseOK
  <2> QED
    BY <2>4, <2>6, <2>7
<1>8. CASE InSession
  <2>1. /\ KeepsWork /\ KeepsMessages
        /\ UNCHANGED <<lives, current, sessionGen, closing, hasMember>>
        /\ HandleSessionEvent \/ UNCHANGED phase
    BY <1>8, InSessionKeeps
  <2>2. HandOK' /\ OwnedOK'
    BY <2>1, SessionsUntouched
  <2>3. CASE UNCHANGED phase
    BY <2>1, <2>2, <2>3, PhaseUntouched
  <2>4. CASE HandleSessionEvent /\ ~closing /\ ~UNCHANGED phase
    <3>1. /\ 1 \in DOMAIN ui /\ Head(ui) = ui[1] /\ ui[1].do = "event"
          /\ \A i \in DOMAIN ui' : i \in Nat /\ i + 1 \in DOMAIN ui /\ ui'[i] = ui[i + 1]
      BY <1>0, <2>4, Taken DEF HandleSessionEvent, Next2
    <3>2. phase # "disconnecting"
      BY <2>4, <3>1 DEF HandleSessionEvent, IsCurrent, HandOK, PhaseOK
    <3>3. /\ phase' \in {"reconnecting", "connecting"} \/ (phase' = "ready" /\ hasMember)
          /\ work' = work
      BY <2>4 DEF HandleSessionEvent, PhaseAfter
    <3>4. (\A u \in work : ~SigningOut(u)) /\ (\A i \in DOMAIN ui : ~SignedOut(i))
      BY <2>4, <3>2 DEF PhaseOK
    <3>5. /\ \A u \in work' : ~SigningOut(u)
          /\ \A i \in DOMAIN ui' : ~SignedOut(i)'
      BY <3>1, <3>3, <3>4 DEF SignedOut
    <3>6. hasMember => current # 0
      BY <2>4, <3>2 DEF PhaseOK
    <3> QED
      BY <2>1, <2>2, <2>4, <3>3, <3>5, <3>6 DEF PhaseOK, SigningOut
  <2>5. CASE closing
    BY <2>1, <2>2, <2>5 DEF PhaseOK
  <2> QED
    BY <2>1, <2>3, <2>4, <2>5
<1>9. CASE UNCHANGED desktopVars
  <2>1. UNCHANGED <<lives, current, sessionGen, closing, phase, hasMember, work, ui>>
    BY <1>9 DEF desktopVars, modelVars, sessionVars
  <2>2. KeepsWork /\ KeepsMessages
    BY <2>1 DEF KeepsWork, KeepsMessages
  <2> QED
    BY <2>1, <2>2, SessionsUntouched, PhaseUntouched
<1> QED
  BY <1>1, <1>2, <1>3, <1>4, <1>5, <1>6, <1>7, <1>8, <1>9 DEF DesktopNext, InSession, EventKinds

-----------------------------------------------------------------------------
\* The window starts signed out, without sessions.
LEMMA InitWindow == DesktopInit => WindowInv
<1> SUFFICES ASSUME DesktopInit PROVE WindowInv
  OBVIOUS
<1> USE DesktopAssumption DEF DesktopInit
<1>1. DesktopTypeOK
  <2>1. /\ hasMember \in BOOLEAN /\ sending \in BOOLEAN
        /\ timerOn \in BOOLEAN /\ running \in BOOLEAN /\ applying \in BOOLEAN
        /\ hasDirectory \in BOOLEAN /\ inList \in BOOLEAN /\ forgotten \in BOOLEAN
    OBVIOUS
  <2>2. sessionGen \in 0..(MaxGenerations + 1) /\ dialog \in 0..dialogs
    OBVIOUS
  <2>3. lives \in [Sessions -> {"new", "opening", "up", "down"}]
    OBVIOUS
  <2> QED
    BY <2>1, <2>2, <2>3 DEF DesktopTypeOK, Phases
<1>2. QueuesOK
  BY DEF QueuesOK
<1>3. HandOK /\ PhaseOK /\ OwnedOK
  BY DEF HandOK, PhaseOK, OwnedOK, Answer, SignedOut, SigningOut, Sessions
<1> QED
  BY <1>1, <1>2, <1>3 DEF WindowInv

LEMMA WindowInvariance == DesktopSpec => []WindowInv
<1>1. WindowInv /\ [DesktopNext]_desktopVars => WindowInv'
  BY StepTypes, StepSessions DEF WindowInv
<1> QED
  BY InitWindow, <1>1, PTL DEF DesktopSpec

\* The window's variables have their types.
THEOREM DesktopTypeCorrect == DesktopSpec => []DesktopTypeOK
<1>1. WindowInv => DesktopTypeOK
  BY DEF WindowInv
<1> QED
  BY WindowInvariance, <1>1, PTL

\* No session is left behind, however logins, logouts, their answers and the
\* closing of the window overlap: an open one is the window's own or is held by a
\* continuation of connectAsync, disconnectAsync or shutdownSessionAsync; and a
\* window that says ready has the open session of its generation.
THEOREM SessionsAlwaysOwned == DesktopSpec => []SessionsAreOwned
<1>1. WindowInv => SessionsAreOwned
  BY DEF WindowInv, PhaseOK, OwnedOK, SessionsAreOwned
<1> QED
  BY WindowInvariance, <1>1, PTL

-----------------------------------------------------------------------------
(* What the window shows of a session's settings. *)

(* Mutes and audio settings on their way to a session and back. *)
MuteWork == {t \in work : t.do = "mute"}
MuteMessages == {i \in DOMAIN ui : ui[i].do = "muted"}
AudioWork == {t \in work : t.do = "audio"}
AudioMessages == {i \in DOMAIN ui : ui[i].do = "audio"}

(* At most one batch is on its way, and the flag says so; one of the session of
   this generation is of the session the window has. *)
BatchCount ==
    /\ \A t, u \in MuteWork : t = u
    /\ \A i, j \in MuteMessages : i = j
    /\ MuteWork = {} \/ MuteMessages = {}
    /\ MuteWork # {} \/ MuteMessages # {} => running

BatchSession ==
    /\ \A t \in MuteWork : t.id = sessionGen /\ ~closing => t.id = current
    /\ \A i \in MuteMessages : ui[i].id = sessionGen /\ ~closing => ui[i].id = current

BatchOK == BatchCount /\ BatchSession

(* What the dialog that is open has asked for: once, and of the session the
   window has; a number is never used for another dialog. *)
DialogOK ==
    /\ \A t \in AudioWork : t.in \in 1..dialogs
    /\ \A i \in AudioMessages : ui[i].in \in 1..dialogs
    /\ \A t \in AudioWork : t.in = dialog => t.id = current /\ applying
    /\ \A i \in AudioMessages : ui[i].in = dialog => applying
    /\ \A t, u \in AudioWork : t.in = dialog /\ u.in = dialog => t = u
    /\ \A i, j \in AudioMessages : ui[i].in = dialog /\ ui[j].in = dialog => i = j
    /\ \A t \in AudioWork, i \in AudioMessages : ~(t.in = dialog /\ ui[i].in = dialog)

(* A session that was never the window's has the settings it started with. *)
Fresh(s) ==
    lives[s] \in {"new", "opening"} \/ \E i \in DOMAIN ui : Answer(i) /\ ui[i].id = s

FreshOK ==
    \A s \in Sessions : Fresh(s) =>
        /\ policies[s] = Default
        /\ \A t \in MuteWork : t.id # s
        /\ \A t \in AudioWork : t.id # s
        /\ \A i \in MuteMessages : ui[i].id # s

UnsentOK ==
    /\ current = 0 /\ ~closing => unsent = "none"
    /\ current # 0 /\ unsent # "none" /\ ~stranded => timerOn \/ running

(* A mute that is shown is in use, and one in use is shown unless it is forgotten;
   a participant that is not listed is not shown as muted. *)
MuteTold(inUse) ==
    /\ shownPolicy.mute => inUse.mute
    /\ inUse.mute => shownPolicy.mute \/ forgotten

UnlistedOK == inList \/ shownPolicy.mute = FALSE

MuteShown ==
    /\ current = 0 /\ ~closing /\ phase # "disconnecting" => shownPolicy.mute = FALSE
    /\ current # 0 /\ ~excused =>
        /\ \A i \in MuteMessages : ui[i].id = current => policies[current].mute = ui[i].on
        /\ \/ \E t \in MuteWork : t.id = current
           \/ \E i \in MuteMessages : ui[i].id = current
           \/ MuteTold(policies[current])

(* The answer to a dialog that is closed will be passed over, and excuses. *)
Doomed ==
    \/ \E t \in AudioWork : t.in # dialog
    \/ \E i \in AudioMessages : ui[i].in # dialog

AudioShown ==
    current # 0 /\ ~excused /\ ~Doomed =>
        /\ \A i \in AudioMessages : policies[current].audio = ui[i].audio
        /\ AudioWork # {} \/ AudioMessages # {} \/ shownPolicy.audio = policies[current].audio

PoliciesOK ==
    /\ shownPolicy \in [mute : BOOLEAN, audio : Nat]
    /\ policies \in [Sessions -> [mute : BOOLEAN, audio : Nat]]

ShownInv ==
    PoliciesOK /\ BatchOK /\ DialogOK /\ FreshOK /\ UnsentOK /\ UnlistedOK /\ MuteShown /\ AudioShown

(* The messages of a kind keep their order: d messages were taken before them. *)
Follows(d, kind) ==
    /\ \A i \in DOMAIN ui' : ui'[i].do = kind => i + d \in DOMAIN ui /\ ui'[i] = ui[i + d]
    /\ \A i \in DOMAIN ui : ui[i].do = kind => i - d \in DOMAIN ui' /\ ui'[i - d] = ui[i]
    /\ DOMAIN ui' \subseteq Nat /\ DOMAIN ui \subseteq Nat

Passes(kind) ==
    \/ ui' = ui
    \/ \E m \in Messages : ui' = Append(ui, m) /\ m.do # kind
    \/ ui # <<>> /\ ui' = Tail(ui) /\ Head(ui).do # kind

\* A step that queues or takes a message of another kind only shifts those of this one.
LEMMA KindFollows ==
    ASSUME NEW kind, ui \in Seq(Messages), Passes(kind)
    PROVE  \E d \in {0, 1} : Follows(d, kind)
<1>1. CASE ui' = ui
  <2>1. Follows(0, kind)
    BY <1>1 DEF Follows
  <2> QED
    BY <2>1
<1>2. ASSUME NEW m \in Messages, ui' = Append(ui, m), m.do # kind PROVE Follows(0, kind)
  <2>1. /\ DOMAIN ui' = DOMAIN ui \cup {Len(ui) + 1}
        /\ Len(ui) + 1 \notin DOMAIN ui
        /\ ui'[Len(ui) + 1] = m
        /\ \A i \in DOMAIN ui : ui'[i] = ui[i]
    BY <1>2, Queued
  <2>2. DOMAIN ui \subseteq Nat /\ Len(ui) \in Nat
    OBVIOUS
  <2> QED
    BY <1>2, <2>1, <2>2 DEF Follows
<1>3. ASSUME ui # <<>>, ui' = Tail(ui), Head(ui).do # kind PROVE Follows(1, kind)
  <2>1. /\ Head(ui) = ui[1]
        /\ \A i \in DOMAIN ui' : i \in Nat /\ i + 1 \in DOMAIN ui /\ ui'[i] = ui[i + 1]
        /\ \A i \in DOMAIN ui : i # 1 => i - 1 \in DOMAIN ui' /\ ui'[i - 1] = ui[i]
    BY <1>3, Taken
  <2>2. DOMAIN ui \subseteq Nat
    OBVIOUS
  <2> QED
    BY <1>3, <2>1, <2>2 DEF Follows
<1> QED
  BY <1>1, <1>2, <1>3 DEF Passes

MutesKept == MuteWork' = MuteWork /\ (\E d \in {0, 1} : Follows(d, "muted"))
AudiosKept == AudioWork' = AudioWork /\ (\E d \in {0, 1} : Follows(d, "audio"))

(* The steps that open and end sessions, and what the sessions report. *)
Logins ==
    \/ ConnectAsync \/ DisconnectAsync \/ Closed \/ Disconnected \/ HandleSessionEvent
    \/ \E t \in work : DesktopDisconnect(t) \/ \E ok \in BOOLEAN : Connect(t, ok)
    \/ \E fits \in BOOLEAN : Connected(fits)
    \/ \E s \in Sessions, what \in EventKinds : Report(s, what)

Muting ==
    \/ ApplyParticipantUpdates \/ ParticipantUpdatesApplied
    \/ \E t \in work, ok \in BOOLEAN : ApplyMute(t, ok)

Setting == ApplyAudio \/ AudioApplied \/ \E t \in work, ok \in BOOLEAN : SetAudio(t, ok)

Asking ==
    \/ OpenSettings \/ DialogClosed
    \/ \E on \in BOOLEAN : QueueParticipantMuted(on)

\* Every step is of one of these kinds.
LEMMA StepKinds ==
    ASSUME [DesktopNext]_desktopVars
    PROVE  Logins \/ Muting \/ Setting \/ Asking \/ UNCHANGED desktopVars
  BY DEF DesktopNext, Logins, Muting, Setting, Asking, EventKinds

\* Logins and logouts leave the batches and the audio settings on their way alone.
LEMMA LoginsKeep ==
    ASSUME QueuesOK, Logins
    PROVE  MutesKept /\ AudiosKept /\ UNCHANGED <<policies, running, excused, stranded>>
<1> USE DEF QueuesOK, modelVars, listVars, updateVars, dialogVars, sessionVars, historyVars
<1>1. /\ UNCHANGED <<policies, running, excused, stranded>>
      /\ MuteWork' = MuteWork /\ AudioWork' = AudioWork
  <2>1. UNCHANGED <<policies, running, excused, stranded>>
    BY DEF Logins, ConnectAsync, DisconnectAsync, Closed, Disconnected, HandleSessionEvent,
           DesktopDisconnect, Connect, Connected, Report
  <2>2. \/ UNCHANGED work
        \/ \E t : t.do \in {"connect", "disconnect"} /\ work' \in {work \cup {t}, work \ {t}}
    <3>1. CASE ConnectAsync
      BY <3>1 DEF ConnectAsync
    <3>2. CASE DisconnectAsync \/ Closed
      <4>1. PICK after : work' \in {work, work \cup {Disconnecting(current, after)}}
        BY <3>2 DEF DisconnectAsync, Closed
      <4>2. Disconnecting(current, after).do = "disconnect"
        BY DEF Disconnecting
      <4> QED
        BY <4>1, <4>2
    <3>3. ASSUME NEW fits \in BOOLEAN, Connected(fits)
          PROVE  UNCHANGED work \/ work' = work \cup {Disconnecting(Head(ui).id, "nothing")}
      BY <3>3 DEF Connected
    <3>6. Disconnecting(Head(ui).id, "nothing").do = "disconnect"
      BY DEF Disconnecting
    <3>4. CASE \E t \in work : DesktopDisconnect(t) \/ \E ok \in BOOLEAN : Connect(t, ok)
      <4>1. PICK t \in work : DesktopDisconnect(t) \/ \E ok \in BOOLEAN : Connect(t, ok)
        BY <3>4
      <4>2. t.do \in {"connect", "disconnect"} /\ work' = work \ {t}
        BY <4>1 DEF DesktopDisconnect, Connect
      <4> QED
        BY <4>2
    <3>5. CASE \/ Disconnected \/ HandleSessionEvent
               \/ \E s \in Sessions, what \in EventKinds : Report(s, what)
      BY <3>5 DEF Disconnected, HandleSessionEvent, Report
    <3> QED
      BY <3>1, <3>2, <3>3, <3>4, <3>5, <3>6 DEF Logins
  <2>3. MuteWork' = MuteWork /\ AudioWork' = AudioWork
    BY <2>2 DEF MuteWork, AudioWork
  <2> QED
    BY <2>1, <2>3
<1>2. Passes("muted") /\ Passes("audio")
  <2>1. CASE ConnectAsync \/ DisconnectAsync \/ Closed
    BY <2>1 DEF ConnectAsync, DisconnectAsync, Closed, Passes
  <2>2. CASE Disconnected \/ HandleSessionEvent \/ \E fits \in BOOLEAN : Connected(fits)
    BY <2>2 DEF Disconnected, HandleSessionEvent, Connected, Next2, Passes
  <2>3. ASSUME NEW t \in work, NEW ok \in BOOLEAN, Connect(t, ok)
        PROVE  Passes("muted") /\ Passes("audio")
    <3>1. [do |-> "connected", id |-> t.id, ok |-> ok] \in Messages
      BY <2>3, WorkFields DEF Connect, Messages
    <3> QED
      BY <2>3, <3>1 DEF Connect, Passes
  <2>4. ASSUME NEW t \in work, DesktopDisconnect(t) PROVE Passes("muted") /\ Passes("audio")
    <3>1. [do |-> "disconnected"] \in Messages
      BY DEF Messages
    <3> QED
      BY <2>4, <3>1 DEF DesktopDisconnect, Passes
  <2>5. ASSUME NEW s \in Sessions, NEW what \in EventKinds, Report(s, what)
        PROVE  Passes("muted") /\ Passes("audio")
    <3>1. [do |-> "event", id |-> s, what |-> what] \in Messages
      BY DEF Messages
    <3> QED
      BY <2>5, <3>1 DEF Report, Passes
  <2> QED
    BY <2>1, <2>2, <2>3, <2>4, <2>5 DEF Logins
<1> QED
  BY <1>1, <1>2, KindFollows DEF MutesKept, AudiosKept

\* Nor do the commands of the user that wait for nothing.
LEMMA AskingKeeps ==
    ASSUME QueuesOK, Asking
    PROVE  /\ MutesKept /\ AudiosKept
           /\ UNCHANGED <<lives, current, sessionGen, closing, phase, ui, work, policies, listVars,
                          running, excused, stranded>>
<1> USE DEF QueuesOK, modelVars, listVars, updateVars, dialogVars, sessionVars, historyVars
<1>1. UNCHANGED <<lives, current, sessionGen, closing, phase, ui, work, policies, listVars,
                  running, excused, stranded>>
  BY DEF Asking, OpenSettings, DialogClosed, QueueParticipantMuted
<1>2. Passes("muted") /\ Passes("audio")
  BY <1>1 DEF Passes
<1> QED
  BY <1>1, <1>2, KindFollows DEF MutesKept, AudiosKept, MuteWork, AudioWork

\* Mutes leave the audio settings on their way alone, and the settings the mutes.
LEMMA MutingKeeps ==
    ASSUME QueuesOK, Muting
    PROVE  /\ AudiosKept
           /\ UNCHANGED <<lives, current, sessionGen, closing, phase, dialog, dialogs, applying>>
<1> USE DEF QueuesOK, modelVars, listVars, updateVars, dialogVars, sessionVars, historyVars
<1>1. UNCHANGED <<lives, current, sessionGen, closing, phase, dialog, dialogs, applying>>
  BY DEF Muting, ApplyParticipantUpdates, ParticipantUpdatesApplied, ApplyMute
<1>2. AudioWork' = AudioWork
  <2>1. CASE ApplyParticipantUpdates
    BY <2>1 DEF ApplyParticipantUpdates, AudioWork
  <2>2. CASE ParticipantUpdatesApplied \/ \E t \in work, ok \in BOOLEAN : ApplyMute(t, ok)
    BY <2>2 DEF ParticipantUpdatesApplied, ApplyMute, AudioWork
  <2> QED
    BY <2>1, <2>2 DEF Muting
<1>3. Passes("audio")
  <2>1. CASE ApplyParticipantUpdates
    BY <2>1 DEF ApplyParticipantUpdates, Passes
  <2>2. CASE ParticipantUpdatesApplied
    BY <2>2 DEF ParticipantUpdatesApplied, Next2, Passes
  <2>3. ASSUME NEW t \in work, NEW ok \in BOOLEAN, ApplyMute(t, ok) PROVE Passes("audio")
    <3>1. [do |-> "muted", id |-> t.id, on |-> t.on, ok |-> ok] \in Messages
      BY <2>3, WorkFields DEF ApplyMute, Messages
    <3> QED
      BY <2>3, <3>1 DEF ApplyMute, Passes
  <2> QED
    BY <2>1, <2>2, <2>3 DEF Muting
<1> QED
  BY <1>1, <1>2, <1>3, KindFollows DEF AudiosKept

LEMMA SettingKeeps ==
    ASSUME QueuesOK, Setting
    PROVE  /\ MutesKept
           /\ UNCHANGED <<lives, current, sessionGen, closing, phase, dialog, dialogs, timerOn,
                          running, unsent, stranded>>
<1> USE DEF QueuesOK, modelVars, listVars, updateVars, dialogVars, sessionVars, historyVars
<1>1. UNCHANGED <<lives, current, sessionGen, closing, phase, dialog, dialogs, timerOn, running,
                  unsent, stranded>>
  BY DEF Setting, ApplyAudio, AudioApplied, SetAudio
<1>2. MuteWork' = MuteWork
  <2>1. CASE ApplyAudio
    BY <2>1 DEF ApplyAudio, MuteWork
  <2>2. CASE AudioApplied \/ \E t \in work, ok \in BOOLEAN : SetAudio(t, ok)
    BY <2>2 DEF AudioApplied, SetAudio, MuteWork
  <2> QED
    BY <2>1, <2>2 DEF Setting
<1>3. Passes("muted")
  <2>1. CASE ApplyAudio
    BY <2>1 DEF ApplyAudio, Passes
  <2>2. CASE AudioApplied
    BY <2>2 DEF AudioApplied, Next2, Passes
  <2>3. ASSUME NEW t \in work, NEW ok \in BOOLEAN, SetAudio(t, ok) PROVE Passes("muted")
    <3>1. [do |-> "audio", in |-> t.in, audio |-> t.audio, ok |-> ok] \in Messages
      BY <2>3, WorkFields DEF SetAudio, Messages
    <3> QED
      BY <2>3, <3>1 DEF SetAudio, Passes
  <2> QED
    BY <2>1, <2>2, <2>3 DEF Setting
<1> QED
  BY <1>1, <1>2, <1>3, KindFollows DEF MutesKept

\* A session that is fresh was fresh before.
LEMMA FreshBefore ==
    ASSUME WindowInv, [DesktopNext]_desktopVars, NEW s \in Sessions, Fresh(s)'
    PROVE  Fresh(s)
<1> USE DEF WindowInv, QueuesOK, modelVars, listVars, updateVars, dialogVars, sessionVars, historyVars
<1>0. lives \in [Sessions -> {"new", "opening", "up", "down"}]
  BY DEF DesktopTypeOK
<1>1. ASSUME UNCHANGED lives, Passes("connected") PROVE Fresh(s)
  BY <1>1, KindFollows DEF Fresh, Follows, Answer
<1>2. CASE InSession
  <2>1. KeepsMessages /\ UNCHANGED lives
    BY <1>2, InSessionKeeps
  <2>2. Passes("connected")
    BY <2>1 DEF KeepsMessages, Passes, Passing
  <2> QED
    BY <1>1, <2>1, <2>2
<1>3. CASE DisconnectAsync \/ Closed \/ Disconnected \/ UNCHANGED desktopVars
  BY <1>1, <1>3 DEF DisconnectAsync, Closed, Disconnected, Next2, Passes, desktopVars
<1>4. CASE ConnectAsync
  <2>1. UNCHANGED ui /\ lives' = [lives EXCEPT ![sessionGen + 1] = "opening"]
    BY <1>4 DEF ConnectAsync
  <2>2. sessionGen + 1 \in Sessions /\ lives[sessionGen + 1] = "new"
    BY <1>4, DesktopAssumption DEF ConnectAsync, HandOK, DesktopTypeOK, Sessions
  <2> QED
    BY <1>0, <2>1, <2>2 DEF Fresh, Answer
<1>5. ASSUME NEW t \in work, DesktopDisconnect(t) PROVE Fresh(s)
  <2>1. [do |-> "disconnected"] \in Messages
    BY DEF Messages
  <2>2. Passes("connected")
    BY <1>5, <2>1 DEF DesktopDisconnect, Passes
  <2>3. lives'[s] \in {"new", "opening"} => lives'[s] = lives[s]
    BY <1>0, <1>5 DEF DesktopDisconnect
  <2> QED
    BY <2>2, <2>3, KindFollows DEF Fresh, Follows, Answer
<1>6. ASSUME NEW t \in work, NEW ok \in BOOLEAN, Connect(t, ok) PROVE Fresh(s)
  <2> DEFINE m == [do |-> "connected", id |-> t.id, ok |-> ok]
  <2>1. t.id \in Sessions /\ m \in Messages /\ lives[t.id] = "opening"
    BY <1>6, WorkFields DEF Connect, Messages, HandOK
  <2>2. /\ DOMAIN ui' = DOMAIN ui \cup {Len(ui) + 1}
        /\ ui'[Len(ui) + 1] = m /\ \A i \in DOMAIN ui : ui'[i] = ui[i]
    BY <1>6, <2>1, Queued DEF Connect
  <2>3. s # t.id => lives'[s] = lives[s]
    BY <1>0, <1>6 DEF Connect
  <2> QED
    BY <2>1, <2>2, <2>3 DEF Fresh, Answer
<1>7. ASSUME NEW fits \in BOOLEAN, Connected(fits) PROVE Fresh(s)
  <2>1. ui # <<>> /\ ui' = Tail(ui) /\ UNCHANGED lives
    BY <1>7 DEF Connected, Next2
  <2>2. \A i \in DOMAIN ui' : i + 1 \in DOMAIN ui /\ ui'[i] = ui[i + 1]
    BY <2>1, Taken
  <2> QED
    BY <2>1, <2>2 DEF Fresh, Answer
<1> QED
  BY <1>2, <1>3, <1>4, <1>5, <1>6, <1>7 DEF DesktopNext, InSession, EventKinds

\* A session that was never the window's keeps its settings.
LEMMA StepFresh ==
    ASSUME WindowInv, FreshOK, PoliciesOK, [DesktopNext]_desktopVars
    PROVE  FreshOK'
<1> SUFFICES ASSUME NEW s \in Sessions, Fresh(s)'
             PROVE  /\ policies'[s] = Default
                    /\ \A t \in MuteWork' : t.id # s
                    /\ \A t \in AudioWork' : t.id # s
                    /\ \A i \in MuteMessages' : ui'[i].id # s
  BY DEF FreshOK
<1> USE DEF WindowInv, QueuesOK, modelVars, listVars, updateVars, dialogVars, sessionVars, historyVars
<1>1. Fresh(s)
  BY FreshBefore
<1>2. /\ policies[s] = Default
      /\ \A t \in MuteWork : t.id # s
      /\ \A t \in AudioWork : t.id # s
      /\ \A i \in MuteMessages : ui[i].id # s
  BY <1>1 DEF FreshOK
<1>3. s # current
  BY <1>1 DEF Fresh, HandOK, OwnedOK, Sessions, Answer
<1>4. ASSUME MutesKept
      PROVE  /\ \A t \in MuteWork' : t.id # s
             /\ \A i \in MuteMessages' : ui'[i].id # s
  BY <1>2, <1>4 DEF MutesKept, Follows, MuteMessages
<1>5. ASSUME AudiosKept PROVE \A t \in AudioWork' : t.id # s
  BY <1>2, <1>5 DEF AudiosKept
<1>6. CASE Logins \/ Asking
  BY <1>2, <1>4, <1>5, <1>6, LoginsKeep, AskingKeeps
<1>7. CASE Muting
  <2>1. AudiosKept
    BY <1>7, MutingKeeps
  <2>2. CASE ApplyParticipantUpdates
    BY <1>2, <1>3, <1>5, <2>1, <2>2 DEF ApplyParticipantUpdates, MuteWork, MuteMessages
  <2>3. CASE ParticipantUpdatesApplied
    <3>1. ui # <<>> /\ ui' = Tail(ui) /\ UNCHANGED <<policies, work>>
      BY <2>3 DEF ParticipantUpdatesApplied, Next2
    <3>2. \A i \in DOMAIN ui' : i + 1 \in DOMAIN ui /\ ui'[i] = ui[i + 1]
      BY <3>1, Taken
    <3> QED
      BY <1>2, <1>5, <2>1, <3>1, <3>2 DEF MuteWork, MuteMessages
  <2>4. ASSUME NEW t \in work, NEW ok \in BOOLEAN, ApplyMute(t, ok)
        PROVE  /\ policies'[s] = Default
               /\ \A u \in MuteWork' : u.id # s
               /\ \A i \in MuteMessages' : ui'[i].id # s
    <3> DEFINE m == [do |-> "muted", id |-> t.id, on |-> t.on, ok |-> ok]
    <3>1. m \in Messages /\ t \in MuteWork
      BY <2>4, WorkFields DEF ApplyMute, Messages, MuteWork
    <3>2. /\ DOMAIN ui' = DOMAIN ui \cup {Len(ui) + 1}
          /\ ui'[Len(ui) + 1] = m /\ \A i \in DOMAIN ui : ui'[i] = ui[i]
      BY <2>4, <3>1, Queued DEF ApplyMute
    <3>3. policies'[s] = policies[s]
      BY <1>2, <2>4, <3>1 DEF ApplyMute, PoliciesOK
    <3> QED
      BY <1>2, <2>4, <3>1, <3>2, <3>3 DEF ApplyMute, MuteWork, MuteMessages
  <2> QED
    BY <1>5, <1>7, <2>1, <2>2, <2>3, <2>4 DEF Muting
<1>8. CASE Setting
  <2>1. MutesKept
    BY <1>8, SettingKeeps
  <2>2. CASE ApplyAudio \/ AudioApplied
    BY <1>2, <1>3, <1>4, <2>1, <2>2 DEF ApplyAudio, AudioApplied, AudioWork
  <2>3. ASSUME NEW t \in work, NEW ok \in BOOLEAN, SetAudio(t, ok)
        PROVE  policies'[s] = Default /\ \A u \in AudioWork' : u.id # s
    <3>1. t \in AudioWork
      BY <2>3 DEF SetAudio, AudioWork
    <3>2. policies'[s] = policies[s]
      BY <1>2, <2>3, <3>1 DEF SetAudio, PoliciesOK
    <3> QED
      BY <1>2, <2>3, <3>2 DEF SetAudio, AudioWork
  <2> QED
    BY <1>4, <1>8, <2>1, <2>2, <2>3 DEF Setting
<1>9. CASE UNCHANGED desktopVars
  BY <1>2, <1>9 DEF desktopVars, MuteWork, AudioWork, MuteMessages
<1> QED
  BY <1>6, <1>7, <1>8, <1>9, StepKinds

\* A mute that was asked for is on its way or will be sent.
LEMMA StepUnsent ==
    ASSUME WindowInv, BatchOK, UnsentOK, [DesktopNext]_desktopVars
    PROVE  UnsentOK'
<1> USE DEF WindowInv, UnsentOK, modelVars, listVars, updateVars, dialogVars, sessionVars, historyVars
<1>1. CASE Logins
  <2>1. CASE ConnectAsync
    BY <2>1 DEF ConnectAsync
  <2>2. CASE DisconnectAsync \/ Closed
    BY <2>2 DEF DisconnectAsync, Closed
  <2>3. CASE \/ Disconnected \/ HandleSessionEvent
             \/ \E s \in Sessions, what \in EventKinds : Report(s, what)
             \/ \E t \in work : DesktopDisconnect(t) \/ \E ok \in BOOLEAN : Connect(t, ok)
    BY <2>3 DEF Disconnected, HandleSessionEvent, Report, DesktopDisconnect, Connect
  <2>4. ASSUME NEW fits \in BOOLEAN, Connected(fits) PROVE UnsentOK'
    <3>1. UNCHANGED <<closing, unsent, timerOn, running, stranded>>
      BY <2>4 DEF Connected
    <3>2. current' = current \/ (IsCurrent(Head(ui).id) /\ Head(ui).do = "connected" /\ ui # <<>>)
      BY <2>4 DEF Connected, Next2
    <3>3. CASE current' # current
      <4>1. ui[1] = Head(ui) /\ 1 \in DOMAIN ui
        BY <3>2, <3>3, Taken DEF QueuesOK
      <4>2. Head(ui).id # current /\ ~closing /\ Head(ui).id = sessionGen
        BY <3>2, <3>3, <4>1 DEF HandOK, Answer, IsCurrent
      <4>3. unsent = "none"
        BY <4>2 DEF OwnedOK
      <4> QED
        BY <3>1, <4>3
    <3> QED
      BY <3>1, <3>3
  <2> QED
    BY <1>1, <2>1, <2>2, <2>3, <2>4 DEF Logins
<1>2. CASE Muting
  <2>1. CASE ApplyParticipantUpdates
    BY <2>1 DEF ApplyParticipantUpdates
  <2>2. CASE ParticipantUpdatesApplied
    BY <2>2 DEF ParticipantUpdatesApplied, Restart
  <2>3. ASSUME NEW t \in work, NEW ok \in BOOLEAN, ApplyMute(t, ok) PROVE UnsentOK'
    BY <2>3 DEF ApplyMute
  <2> QED
    BY <1>2, <2>1, <2>2, <2>3 DEF Muting
<1>3. CASE Setting
  BY <1>3, SettingKeeps
<1>4. CASE Asking
  <2>1. CASE OpenSettings \/ DialogClosed
    BY <2>1 DEF OpenSettings, DialogClosed
  <2>2. ASSUME NEW on \in BOOLEAN, QueueParticipantMuted(on) PROVE UnsentOK'
    <3>1. current # 0 /\ current' = current
      BY <2>2 DEF QueueParticipantMuted, PhaseOK
    <3> QED
      BY <2>2, <3>1 DEF QueueParticipantMuted, StartTimer
  <2> QED
    BY <1>4, <2>1, <2>2 DEF Asking
<1>5. CASE UNCHANGED desktopVars
  BY <1>5 DEF desktopVars
<1> QED
  BY <1>1, <1>2, <1>3, <1>4, <1>5, StepKinds

(* What a step does to the mute that is shown: nothing, or the list drops it. *)
KeepsMute ==
    \/ shownPolicy'.mute = shownPolicy.mute /\ UNCHANGED forgotten
    \/ shownPolicy'.mute = FALSE /\ forgotten' = (forgotten \/ shownPolicy.mute)

(* What a step of a login or logout does to the session of the window: nothing, or
   the window closes, or it begins a new generation without one, or it gets the
   session that has just logged in. *)
KeepsSession ==
    /\ UNCHANGED <<current, sessionGen, closing, dialog, dialogs, applying>>
    /\ \/ KeepsMute /\ shownPolicy'.audio = shownPolicy.audio
       \/ current = 0 /\ shownPolicy'.mute = FALSE
    /\ \/ closing \/ phase' = "disconnecting" \/ phase # "disconnecting"
       \/ shownPolicy'.mute = FALSE

Closes == closing' /\ current' = 0 /\ dialog' = 0 /\ UNCHANGED dialogs

NewGeneration ==
    /\ current' = 0 /\ dialog' = 0 /\ UNCHANGED dialogs
    /\ sessionGen' = sessionGen + 1
    /\ sessionGen + 1 \in Sessions /\ lives[sessionGen + 1] = "new"
    /\ phase' = "disconnecting" \/ shownPolicy'.mute = FALSE

LoggedIn ==
    /\ current = 0 /\ current' = sessionGen /\ current' \in Sessions /\ Fresh(sessionGen)
    /\ ~closing /\ phase # "disconnecting"
    /\ UNCHANGED <<sessionGen, closing, dialog, dialogs, applying>>
    /\ shownPolicy' = [shownPolicy EXCEPT !.audio = policies[sessionGen].audio]

LEMMA LoginChanges ==
    ASSUME WindowInv, PoliciesOK, Logins
    PROVE  KeepsSession \/ Closes \/ NewGeneration \/ LoggedIn
<1> USE DesktopAssumption DEF WindowInv, PoliciesOK, modelVars, listVars, updateVars, dialogVars, sessionVars,
                              historyVars
<1>1. CASE ConnectAsync
  <2>1. shownPolicy'.mute = FALSE
    BY <1>1 DEF ConnectAsync, ModelBeginConnect, ClearAuthenticated
  <2>2. /\ ~closing /\ phase = "signed_out" /\ sessionGen < MaxGenerations
        /\ sessionGen' = sessionGen + 1 /\ UNCHANGED <<current, dialog, dialogs>>
    BY <1>1 DEF ConnectAsync, ModelBeginConnect, Valid
  <2>3. current = 0 /\ dialog = 0
    BY <2>2 DEF PhaseOK, QueuesOK
  <2>4. sessionGen + 1 \in Sessions /\ lives[sessionGen + 1] = "new"
    BY <2>2 DEF HandOK, DesktopTypeOK, Sessions
  <2> QED
    BY <2>1, <2>2, <2>3, <2>4 DEF NewGeneration
<1>2. CASE DisconnectAsync
  <2>1. /\ sessionGen < MaxGenerations /\ sessionGen' = sessionGen + 1
        /\ current' = 0 /\ dialog' = 0 /\ UNCHANGED dialogs /\ phase' = "disconnecting"
    BY <1>2 DEF DisconnectAsync, CloseDialog
  <2>2. sessionGen + 1 \in Sessions /\ lives[sessionGen + 1] = "new"
    BY <2>1 DEF HandOK, DesktopTypeOK, Sessions
  <2> QED
    BY <2>1, <2>2 DEF NewGeneration
<1>3. CASE Closed
  BY <1>3 DEF Closed, CloseDialog, Closes
<1>4. CASE Disconnected
  <2>1. UNCHANGED <<current, sessionGen, closing, dialog, dialogs, applying>>
    BY <1>4 DEF Disconnected
  <2>2. CASE closing
    BY <1>4, <2>1, <2>2 DEF Disconnected, KeepsSession, KeepsMute
  <2>3. CASE ~closing
    <3>1. shownPolicy'.mute = FALSE
      BY <1>4, <2>3 DEF Disconnected, SignOut, ClearAuthenticated
    <3>2. ui[1].do = "disconnected" /\ 1 \in DOMAIN ui
      BY <1>4, Taken DEF Disconnected, Next2, QueuesOK
    <3>3. current = 0
      BY <2>3, <3>2 DEF PhaseOK, SignedOut
    <3> QED
      BY <2>1, <3>1, <3>3 DEF KeepsSession
  <2> QED
    BY <2>2, <2>3
<1>5. CASE HandleSessionEvent
  <2>1. UNCHANGED <<current, sessionGen, closing, dialog, dialogs, applying>>
    BY <1>5 DEF HandleSessionEvent
  <2>4. \/ UNCHANGED <<shownPolicy, forgotten>>
        \/ /\ shownPolicy' = [shownPolicy EXCEPT !.mute = FALSE]
           /\ forgotten' = (forgotten \/ shownPolicy.mute)
    BY <1>5 DEF HandleSessionEvent, ListChanges, Drop
  <2>5. KeepsMute /\ shownPolicy'.audio = shownPolicy.audio
    BY <2>4 DEF KeepsMute
  <2>2. ui[1] = Head(ui) /\ ui[1].do = "event" /\ 1 \in DOMAIN ui
    BY <1>5, Taken DEF HandleSessionEvent, Next2, QueuesOK
  <2>3. ~closing /\ phase = "disconnecting" => phase' = phase
    BY <1>5, <2>2 DEF HandleSessionEvent, IsCurrent, HandOK, PhaseOK
  <2> QED
    BY <2>1, <2>3, <2>5 DEF KeepsSession
<1>6. CASE \/ \E t \in work : DesktopDisconnect(t) \/ \E ok \in BOOLEAN : Connect(t, ok)
           \/ \E s \in Sessions, what \in EventKinds : Report(s, what)
  BY <1>6 DEF DesktopDisconnect, Connect, Report, KeepsSession, KeepsMute
<1>7. ASSUME NEW fits \in BOOLEAN, Connected(fits)
      PROVE  KeepsSession \/ LoggedIn
  <2>1. PICK h : h = Head(ui)
    OBVIOUS
  <2>2. h = ui[1] /\ h.do = "connected" /\ 1 \in DOMAIN ui /\ h \in Messages
    BY <1>7, <2>1, Taken DEF Connected, Next2, QueuesOK
  <2>3. h.id \in Sessions /\ h.id # current /\ Fresh(h.id) /\ lives[h.id] # "new"
    BY <2>2, MessageFields DEF HandOK, Answer, Fresh
  <2>4. IsCurrent(h.id) => current = 0 /\ phase # "disconnecting" /\ ~closing /\ h.id = sessionGen
    BY <2>3 DEF IsCurrent, OwnedOK, PhaseOK
  <2>5. UNCHANGED <<sessionGen, closing, dialog, dialogs, applying>>
    BY <1>7 DEF Connected
  <2>6. \/ UNCHANGED <<phase, shownPolicy, forgotten, current>>
        \/ /\ IsCurrent(h.id) /\ UNCHANGED current
           /\ shownPolicy' = [shownPolicy EXCEPT !.mute = FALSE]
        \/ /\ IsCurrent(h.id) /\ current' = h.id
           /\ shownPolicy' = [shownPolicy EXCEPT !.audio = policies[h.id].audio]
    BY <1>7, <2>1 DEF Connected, SignOut, ClearAuthenticated, ModelConnected
  <2>7. CASE UNCHANGED <<phase, shownPolicy, forgotten, current>>
    BY <2>5, <2>7 DEF KeepsSession, KeepsMute
  <2>8. CASE /\ IsCurrent(h.id) /\ UNCHANGED current
             /\ shownPolicy' = [shownPolicy EXCEPT !.mute = FALSE]
    <3>1. shownPolicy'.mute = FALSE
      BY <2>8
    <3> QED
      BY <2>4, <2>5, <2>8, <3>1 DEF KeepsSession
  <2>9. CASE /\ IsCurrent(h.id) /\ current' = h.id
             /\ shownPolicy' = [shownPolicy EXCEPT !.audio = policies[h.id].audio]
    BY <2>3, <2>4, <2>5, <2>9 DEF LoggedIn
  <2> QED
    BY <2>6, <2>7, <2>8, <2>9
<1> QED
  BY <1>1, <1>2, <1>3, <1>4, <1>5, <1>6, <1>7 DEF Logins

\* The settings shown and those in use have their types.
LEMMA StepPolicies ==
    ASSUME WindowInv, PoliciesOK, [DesktopNext]_desktopVars
    PROVE  PoliciesOK'
<1> USE DEF WindowInv, QueuesOK, PoliciesOK, modelVars, listVars, updateVars, dialogVars, sessionVars, historyVars
<1>1. CASE Logins
  <2>1. UNCHANGED policies
    BY <1>1, LoginsKeep
  <2>2. CASE ConnectAsync
    BY <2>1, <2>2 DEF ConnectAsync, ModelBeginConnect, ClearAuthenticated
  <2>3. CASE Disconnected
    BY <2>1, <2>3 DEF Disconnected, SignOut, ClearAuthenticated
  <2>4. ASSUME NEW fits \in BOOLEAN, Connected(fits) PROVE PoliciesOK'
    <3>1. Head(ui) \in Messages /\ Head(ui).do = "connected"
      BY <2>4, Taken DEF Connected, Next2
    <3>2. Head(ui).id \in Sessions
      BY <3>1, MessageFields
    <3>3. \/ UNCHANGED shownPolicy
          \/ shownPolicy' = [shownPolicy EXCEPT !.mute = FALSE]
          \/ shownPolicy' = [shownPolicy EXCEPT !.audio = policies[Head(ui).id].audio]
      BY <2>4 DEF Connected, SignOut, ClearAuthenticated
    <3> QED
      BY <2>1, <3>2, <3>3
  <2>6. CASE HandleSessionEvent
    <3>1. UNCHANGED shownPolicy \/ shownPolicy' = [shownPolicy EXCEPT !.mute = FALSE]
      BY <2>6 DEF HandleSessionEvent, ListChanges, Drop
    <3> QED
      BY <2>1, <3>1
  <2>5. CASE \/ DisconnectAsync \/ Closed
             \/ \E s \in Sessions, what \in EventKinds : Report(s, what)
             \/ \E t \in work : DesktopDisconnect(t) \/ \E ok \in BOOLEAN : Connect(t, ok)
    BY <2>1, <2>5 DEF DisconnectAsync, Closed, Report, DesktopDisconnect, Connect
  <2> QED
    BY <1>1, <2>2, <2>3, <2>4, <2>5, <2>6 DEF Logins
<1>2. CASE Muting
  <2>1. CASE ApplyParticipantUpdates
    BY <2>1 DEF ApplyParticipantUpdates
  <2>2. CASE ParticipantUpdatesApplied
    <3>1. Head(ui) \in Messages /\ Head(ui).do = "muted"
      BY <2>2, Taken DEF ParticipantUpdatesApplied, Next2
    <3>2. Head(ui).on \in BOOLEAN
      BY <3>1 DEF Messages
    <3> QED
      BY <2>2, <3>2 DEF ParticipantUpdatesApplied
  <2>3. ASSUME NEW t \in work, NEW ok \in BOOLEAN, ApplyMute(t, ok) PROVE PoliciesOK'
    <3>1. t.id \in Sessions /\ t.on \in BOOLEAN
      BY <2>3, WorkFields DEF ApplyMute
    <3> QED
      BY <2>3, <3>1 DEF ApplyMute
  <2> QED
    BY <1>2, <2>1, <2>2, <2>3 DEF Muting
<1>3. CASE Setting
  <2>1. CASE ApplyAudio
    BY <2>1 DEF ApplyAudio
  <2>2. CASE AudioApplied
    <3>1. Head(ui) \in Messages /\ Head(ui).do = "audio"
      BY <2>2, Taken DEF AudioApplied, Next2
    <3>2. Head(ui).audio \in Nat
      BY <3>1 DEF Messages
    <3> QED
      BY <2>2, <3>2 DEF AudioApplied
  <2>3. ASSUME NEW t \in work, NEW ok \in BOOLEAN, SetAudio(t, ok) PROVE PoliciesOK'
    <3>1. t.id \in Sessions /\ t.audio \in Nat
      BY <2>3, WorkFields DEF SetAudio
    <3> QED
      BY <2>3, <3>1 DEF SetAudio
  <2> QED
    BY <1>3, <2>1, <2>2, <2>3 DEF Setting
<1>4. CASE Asking
  BY <1>4, AskingKeeps
<1>5. CASE UNCHANGED desktopVars
  BY <1>5 DEF desktopVars
<1> QED
  BY <1>1, <1>2, <1>3, <1>4, <1>5, StepKinds

\* At most one batch of mutes is on its way.
LEMMA StepBatch ==
    ASSUME WindowInv, PoliciesOK, FreshOK, BatchOK, [DesktopNext]_desktopVars
    PROVE  BatchOK'
<1> USE DEF WindowInv, QueuesOK, modelVars, listVars, updateVars, dialogVars, sessionVars, historyVars
<1>0. BatchCount /\ BatchSession
  BY DEF BatchOK, BatchCount, BatchSession
<1>1. ASSUME MutesKept, UNCHANGED running PROVE BatchCount'
  <2>1. PICK d \in {0, 1} : Follows(d, "muted")
    BY <1>1 DEF MutesKept
  <2>2. /\ \A i \in MuteMessages' : i \in Nat /\ i + d \in MuteMessages
        /\ MuteWork' = MuteWork
    BY <1>1, <2>1 DEF Follows, MuteMessages, MutesKept
  <2> QED
    BY <1>0, <1>1, <2>2 DEF BatchCount
<1>2. ASSUME MutesKept, UNCHANGED <<sessionGen, closing>>, current' = current \/ current' = sessionGen
      PROVE  BatchSession'
  <2>1. PICK d \in {0, 1} : Follows(d, "muted")
    BY <1>2 DEF MutesKept
  <2>2. /\ \A i \in MuteMessages' : i + d \in MuteMessages /\ ui'[i] = ui[i + d]
        /\ MuteWork' = MuteWork
    BY <1>2, <2>1 DEF Follows, MuteMessages, MutesKept
  <2> QED
    BY <1>0, <1>2, <2>2 DEF BatchSession
<1>3. CASE Logins
  <2>1. MutesKept /\ UNCHANGED running
    BY <1>3, LoginsKeep
  <2>2. ASSUME KeepsSession \/ LoggedIn PROVE BatchSession'
    BY <1>2, <2>1, <2>2 DEF KeepsSession, LoggedIn
  <2>3. ASSUME Closes PROVE BatchSession'
    BY <2>3 DEF Closes, BatchSession
  <2>4. ASSUME NewGeneration PROVE BatchSession'
    <3>1. PICK n \in Sessions : n = sessionGen + 1
      BY <2>4 DEF NewGeneration
    <3>2. /\ \A t \in MuteWork : t.id # n
          /\ \A i \in MuteMessages : ui[i].id # n
      BY <2>4, <3>1 DEF NewGeneration, FreshOK, Fresh
    <3>3. PICK d \in {0, 1} : Follows(d, "muted")
      BY <2>1 DEF MutesKept
    <3>4. /\ \A i \in MuteMessages' : i + d \in MuteMessages /\ ui'[i] = ui[i + d]
          /\ MuteWork' = MuteWork
      BY <2>1, <3>3 DEF Follows, MuteMessages, MutesKept
    <3> QED
      BY <2>4, <3>1, <3>2, <3>4 DEF NewGeneration, BatchSession
  <2>5. BatchSession'
    BY <1>3, <2>2, <2>3, <2>4, LoginChanges
  <2> QED
    BY <1>1, <2>1, <2>5 DEF BatchOK, BatchCount, BatchSession
<1>4. CASE Setting \/ Asking
  <2>1. MutesKept /\ UNCHANGED <<running, sessionGen, closing, current>>
    BY <1>4, SettingKeeps, AskingKeeps
  <2> QED
    BY <1>1, <1>2, <2>1 DEF BatchOK, BatchCount, BatchSession
<1>5. CASE ApplyParticipantUpdates
  BY <1>0, <1>5 DEF ApplyParticipantUpdates, BatchOK, BatchCount, BatchSession, MuteWork, MuteMessages
<1>6. ASSUME NEW t \in work, NEW ok \in BOOLEAN, ApplyMute(t, ok) PROVE BatchOK'
  <2> DEFINE m == [do |-> "muted", id |-> t.id, on |-> t.on, ok |-> ok]
  <2>1. m \in Messages /\ t \in MuteWork
    BY <1>6, WorkFields DEF ApplyMute, Messages, MuteWork
  <2>2. /\ DOMAIN ui' = DOMAIN ui \cup {Len(ui) + 1}
        /\ ui'[Len(ui) + 1] = m /\ \A i \in DOMAIN ui : ui'[i] = ui[i]
    BY <1>6, <2>1, Queued DEF ApplyMute
  <2>3. MuteMessages' = {Len(ui) + 1} /\ MuteWork' = {}
    BY <1>0, <1>6, <2>1, <2>2 DEF BatchCount, ApplyMute, MuteWork, MuteMessages
  <2>4. running'
    BY <1>0, <1>6, <2>1 DEF BatchCount, ApplyMute
  <2>5. m.id = sessionGen' /\ ~closing' => m.id = current'
    BY <1>0, <1>6, <2>1 DEF BatchSession, ApplyMute
  <2> QED
    BY <2>2, <2>3, <2>4, <2>5 DEF BatchOK, BatchCount, BatchSession
<1>7. CASE ParticipantUpdatesApplied
  <2>1. ui # <<>> /\ ui' = Tail(ui) /\ Head(ui).do = "muted" /\ UNCHANGED work
    BY <1>7 DEF ParticipantUpdatesApplied, Next2
  <2>2. /\ 1 \in DOMAIN ui /\ Head(ui) = ui[1]
        /\ \A i \in DOMAIN ui' : i + 1 \in DOMAIN ui /\ i + 1 # 1 /\ ui'[i] = ui[i + 1]
    BY <2>1, Taken
  <2>3. 1 \in MuteMessages
    BY <2>1, <2>2 DEF MuteMessages
  <2>4. MuteMessages' = {} /\ MuteWork' = {}
    BY <1>0, <2>1, <2>2, <2>3 DEF BatchCount, MuteMessages, MuteWork
  <2> QED
    BY <2>4 DEF BatchOK, BatchCount, BatchSession
<1>8. CASE UNCHANGED desktopVars
  BY <1>8 DEF desktopVars, BatchOK, BatchCount, BatchSession, MuteWork, MuteMessages
<1> QED
  BY <1>3, <1>4, <1>5, <1>6, <1>7, <1>8, StepKinds DEF Muting

\* The open dialog has asked at most once.
LEMMA StepDialog ==
    ASSUME WindowInv, PoliciesOK, DialogOK, [DesktopNext]_desktopVars
    PROVE  DialogOK'
<1> USE DEF WindowInv, QueuesOK, modelVars, listVars, updateVars, dialogVars, sessionVars, historyVars
<1>0. dialog \in Nat /\ dialogs \in Nat /\ dialog <= dialogs
  BY DEF DesktopTypeOK
<1>1. ASSUME AudiosKept, UNCHANGED dialogs PROVE
        /\ \A t \in AudioWork' : t.in \in 1..dialogs'
        /\ \A i \in AudioMessages' : ui'[i].in \in 1..dialogs'
  BY <1>1 DEF DialogOK, AudiosKept, Follows, AudioMessages
<1>2. ASSUME AudiosKept, UNCHANGED <<dialog, dialogs, applying>>, current' = current \/ dialog = 0
      PROVE  DialogOK'
  <2>1. PICK d \in {0, 1} : Follows(d, "audio")
    BY <1>2 DEF AudiosKept
  <2>2. /\ \A i \in AudioMessages' : i \in Nat /\ i + d \in AudioMessages /\ ui'[i] = ui[i + d]
        /\ AudioWork' = AudioWork
    BY <1>2, <2>1 DEF Follows, AudioMessages, AudiosKept
  <2> QED
    BY <1>0, <1>2, <2>2 DEF DialogOK
<1>3. ASSUME AudiosKept, UNCHANGED dialogs, dialog' = 0 PROVE DialogOK'
  <2>1. /\ \A t \in AudioWork' : t.in # 0
        /\ \A i \in AudioMessages' : ui'[i].in # 0
    BY <1>0, <1>1, <1>3
  <2> QED
    BY <1>1, <1>3, <2>1 DEF DialogOK
<1>4. CASE Logins
  <2>1. AudiosKept
    BY <1>4, LoginsKeep
  <2>2. CASE KeepsSession
    BY <1>2, <2>1, <2>2 DEF KeepsSession
  <2>3. CASE LoggedIn
    BY <1>2, <2>1, <2>3 DEF LoggedIn
  <2>4. CASE Closes \/ NewGeneration
    BY <1>3, <2>1, <2>4 DEF Closes, NewGeneration
  <2> QED
    BY <1>4, <2>2, <2>3, <2>4, LoginChanges
<1>5. CASE Muting
  BY <1>2, <1>5, MutingKeeps
<1>6. CASE Asking
  <2>1. AudiosKept /\ UNCHANGED current
    BY <1>6, AskingKeeps
  <2>2. CASE OpenSettings
    <3>1. dialogs' = dialogs + 1 /\ dialog' = dialogs + 1 /\ UNCHANGED <<ui, work>>
      BY <2>2 DEF OpenSettings
    <3>2. /\ \A t \in AudioWork : t.in # dialogs + 1 /\ t.in \in 1..(dialogs + 1)
          /\ \A i \in AudioMessages : ui[i].in # dialogs + 1 /\ ui[i].in \in 1..(dialogs + 1)
      BY <1>0 DEF DialogOK
    <3>3. AudioWork' = AudioWork /\ AudioMessages' = AudioMessages
      BY <3>1 DEF AudioWork, AudioMessages
    <3> QED
      BY <3>1, <3>2, <3>3 DEF DialogOK
  <2>3. CASE DialogClosed
    BY <1>3, <2>1, <2>3 DEF DialogClosed, CloseDialog
  <2>4. CASE \E on \in BOOLEAN : QueueParticipantMuted(on)
    BY <1>2, <2>1, <2>4 DEF QueueParticipantMuted
  <2> QED
    BY <1>6, <2>2, <2>3, <2>4 DEF Asking
<1>7. CASE ApplyAudio
  <2>1. PICK a : a = [do |-> "audio", id |-> current, in |-> dialog, audio |-> commands']
    OBVIOUS
  <2>2. /\ dialog # 0 /\ ~applying /\ applying' /\ work' = work \cup {a}
        /\ UNCHANGED <<dialog, dialogs, current, ui>>
    BY <1>7, <2>1 DEF ApplyAudio
  <2>3. a.do = "audio" /\ a.id = current /\ a.in = dialog
    BY <2>1
  <2>4. AudioWork' = AudioWork \cup {a} /\ AudioMessages' = AudioMessages
    BY <2>2, <2>3 DEF AudioWork, AudioMessages
  <2>5. (\A t \in AudioWork : t.in # dialog) /\ (\A i \in AudioMessages : ui[i].in # dialog)
    BY <2>2 DEF DialogOK
  <2> QED
    BY <1>0, <2>2, <2>3, <2>4, <2>5 DEF DialogOK
<1>8. ASSUME NEW t \in work, NEW ok \in BOOLEAN, SetAudio(t, ok) PROVE DialogOK'
  <2>0. PICK m : m = [do |-> "audio", in |-> t.in, audio |-> t.audio, ok |-> ok]
    OBVIOUS
  <2>1. m \in Messages /\ t \in AudioWork /\ m.do = "audio" /\ m.in = t.in
    BY <1>8, <2>0, WorkFields DEF SetAudio, Messages, AudioWork
  <2>2. /\ DOMAIN ui' = DOMAIN ui \cup {Len(ui) + 1} /\ Len(ui) + 1 \notin DOMAIN ui
        /\ ui'[Len(ui) + 1] = m /\ \A i \in DOMAIN ui : ui'[i] = ui[i]
    BY <1>8, <2>0, <2>1, Queued DEF SetAudio
  <2>3. AudioMessages' = AudioMessages \cup {Len(ui) + 1} /\ AudioWork' = AudioWork \ {t}
    BY <1>8, <2>1, <2>2 DEF SetAudio, AudioWork, AudioMessages
  <2>4. UNCHANGED <<dialog, dialogs, applying, current>>
    BY <1>8 DEF SetAudio
  <2>5. \A i \in AudioMessages : i \in DOMAIN ui /\ ui'[i] = ui[i]
    BY <2>2 DEF AudioMessages
  <2>6. t.in = dialog => /\ \A u \in AudioWork' : u.in # dialog
                         /\ \A i \in AudioMessages : ui[i].in # dialog
                         /\ applying
    BY <2>1, <2>3 DEF DialogOK
  <2>7. t.in \in 1..dialogs
    BY <2>1 DEF DialogOK
  <2> QED
    BY <2>1, <2>2, <2>3, <2>4, <2>5, <2>6, <2>7 DEF DialogOK
<1>9. CASE AudioApplied
  <2>1. ui # <<>> /\ ui' = Tail(ui) /\ Head(ui).do = "audio" /\ UNCHANGED <<work, dialog, dialogs, current>>
    BY <1>9 DEF AudioApplied, Next2
  <2>2. /\ 1 \in DOMAIN ui /\ Head(ui) = ui[1]
        /\ \A i \in DOMAIN ui' : i \in Nat /\ i + 1 \in DOMAIN ui /\ i + 1 # 1 /\ ui'[i] = ui[i + 1]
    BY <2>1, Taken
  <2>3. 1 \in AudioMessages /\ AudioWork' = AudioWork
    BY <2>1, <2>2 DEF AudioMessages, AudioWork
  <2>4. \A i \in AudioMessages' : i \in Nat /\ i + 1 \in AudioMessages /\ i + 1 # 1 /\ ui'[i] = ui[i + 1]
    BY <2>2 DEF AudioMessages
  <2>5. applying' = (applying /\ dialog # ui[1].in)
    BY <1>9, <2>2 DEF AudioApplied
  <2>6. ui[1].in = dialog => /\ \A t \in AudioWork : t.in # dialog
                             /\ \A i \in AudioMessages' : ui'[i].in # dialog
    BY <2>3, <2>4 DEF DialogOK
  <2>7. ui[1].in # dialog => applying' = applying
    BY <2>5 DEF DesktopTypeOK
  <2>8. /\ \A t \in AudioWork' : t.in \in 1..dialogs' /\ (t.in = dialog' => t.id = current' /\ applying')
        /\ \A t, u \in AudioWork' : t.in = dialog' /\ u.in = dialog' => t = u
    BY <2>1, <2>3, <2>6, <2>7 DEF DialogOK
  <2>9. \A i \in AudioMessages' : ui'[i].in \in 1..dialogs' /\ (ui'[i].in = dialog' => applying')
    <3> SUFFICES ASSUME NEW i \in AudioMessages'
                 PROVE  ui'[i].in \in 1..dialogs' /\ (ui'[i].in = dialog' => applying')
      OBVIOUS
    <3>1. ui[i + 1].in \in 1..dialogs /\ (ui[i + 1].in = dialog => applying)
      BY <2>4 DEF DialogOK
    <3>2. ui'[i].in = dialog => ui[1].in # dialog
      BY <2>6
    <3> QED
      BY <2>1, <2>4, <2>7, <3>1, <3>2
  <2>10. /\ \A i, j \in AudioMessages' : ui'[i].in = dialog' /\ ui'[j].in = dialog' => i = j
         /\ \A t \in AudioWork', i \in AudioMessages' : ~(t.in = dialog' /\ ui'[i].in = dialog')
    <3>1. ASSUME NEW i \in AudioMessages', NEW j \in AudioMessages',
                 ui'[i].in = dialog, ui'[j].in = dialog
          PROVE  i = j
      <4>1. i + 1 = j + 1
        BY <2>4, <3>1 DEF DialogOK
      <4> QED
        BY <2>4, <4>1
    <3>2. ASSUME NEW t \in AudioWork, NEW i \in AudioMessages', t.in = dialog, ui'[i].in = dialog
          PROVE  FALSE
      BY <2>4, <3>2 DEF DialogOK
    <3> QED
      BY <2>1, <2>3, <3>1, <3>2
  <2> QED
    BY <2>8, <2>9, <2>10 DEF DialogOK
<1>10. CASE UNCHANGED desktopVars
  BY <1>10 DEF desktopVars, DialogOK, AudioWork, AudioMessages
<1> QED
  BY <1>4, <1>5, <1>6, <1>7, <1>8, <1>9, <1>10, StepKinds DEF Setting

\* A participant that is not listed is not shown as muted.
LEMMA StepUnlisted ==
    ASSUME WindowInv, PoliciesOK, UnlistedOK, MuteShown, [DesktopNext]_desktopVars
    PROVE  UnlistedOK'
<1> USE DEF WindowInv, UnlistedOK, modelVars, listVars, updateVars, dialogVars, sessionVars,
            historyVars
<1>1. CASE Logins
  <2>1. CASE ConnectAsync
    BY <2>1 DEF ConnectAsync, ModelBeginConnect, ClearAuthenticated, PoliciesOK
  <2>2. CASE Disconnected
    BY <2>2 DEF Disconnected, SignOut, ClearAuthenticated, PoliciesOK
  <2>3. CASE HandleSessionEvent
    <3>1. \/ UNCHANGED shownPolicy /\ (inList' \/ UNCHANGED inList)
          \/ shownPolicy' = [shownPolicy EXCEPT !.mute = FALSE]
      BY <2>3 DEF HandleSessionEvent, ListChanges, Drop
    <3> QED
      BY <3>1 DEF PoliciesOK
  <2>4. ASSUME NEW fits \in BOOLEAN, Connected(fits) PROVE UnlistedOK'
    <3>1. \/ UNCHANGED <<inList, shownPolicy>>
          \/ shownPolicy' = [shownPolicy EXCEPT !.mute = FALSE]
          \/ /\ IsCurrent(Head(ui).id) /\ phase = "connecting"
             /\ shownPolicy' = [shownPolicy EXCEPT !.audio = policies[Head(ui).id].audio]
      BY <2>4 DEF Connected, SignOut, ClearAuthenticated
    <3>2. CASE IsCurrent(Head(ui).id) /\ phase = "connecting"
      <4>1. 1 \in DOMAIN ui /\ Head(ui) = ui[1] /\ Head(ui).do = "connected"
        BY <2>4, Taken DEF Connected, Next2, QueuesOK
      <4>2. current = 0
        BY <3>2, <4>1 DEF IsCurrent, OwnedOK, HandOK, Answer
      <4>3. shownPolicy.mute = FALSE
        BY <3>2, <4>2 DEF IsCurrent, MuteShown
      <4> QED
        BY <3>1, <4>3 DEF PoliciesOK
    <3> QED
      BY <3>1, <3>2 DEF PoliciesOK
  <2>5. CASE \/ DisconnectAsync \/ Closed
             \/ \E s \in Sessions, what \in EventKinds : Report(s, what)
             \/ \E t \in work : DesktopDisconnect(t) \/ \E ok \in BOOLEAN : Connect(t, ok)
    BY <2>5 DEF DisconnectAsync, Closed, Report, DesktopDisconnect, Connect
  <2> QED
    BY <1>1, <2>1, <2>2, <2>3, <2>4, <2>5 DEF Logins
<1>2. CASE Muting
  <2>1. CASE ParticipantUpdatesApplied
    <3>1. UNCHANGED inList /\ (UNCHANGED shownPolicy \/ inList)
      BY <2>1 DEF ParticipantUpdatesApplied, Valid
    <3> QED
      BY <3>1
  <2>2. CASE ApplyParticipantUpdates \/ \E t \in work, ok \in BOOLEAN : ApplyMute(t, ok)
    BY <2>2 DEF ApplyParticipantUpdates, ApplyMute
  <2> QED
    BY <1>2, <2>1, <2>2 DEF Muting
<1>3. CASE Setting
  <2>1. UNCHANGED inList /\ shownPolicy'.mute = shownPolicy.mute
    BY <1>3 DEF Setting, ApplyAudio, AudioApplied, SetAudio, PoliciesOK
  <2> QED
    BY <2>1
<1>4. CASE Asking
  BY <1>4, AskingKeeps
<1>5. CASE UNCHANGED desktopVars
  BY <1>5 DEF desktopVars
<1> QED
  BY <1>1, <1>2, <1>3, <1>4, <1>5, StepKinds

\* The mute shown is the one in use, or the batch that changes it is on its way.
LEMMA StepMuteShown ==
    ASSUME WindowInv, ShownInv, [DesktopNext]_desktopVars
    PROVE  MuteShown'
<1> USE DEF WindowInv, QueuesOK, ShownInv, modelVars, listVars, updateVars, dialogVars, sessionVars, historyVars
<1>1. ASSUME MutesKept, UNCHANGED <<current, excused>>, current # 0,
             policies'[current].mute = policies[current].mute, KeepsMute
      PROVE  MuteShown'
  <2>1. PICK d \in {0, 1} : Follows(d, "muted")
    BY <1>1 DEF MutesKept
  <2>2. /\ \A i \in MuteMessages' : i + d \in MuteMessages /\ ui'[i] = ui[i + d]
        /\ \A i \in MuteMessages : i - d \in MuteMessages' /\ ui'[i - d] = ui[i]
        /\ MuteWork' = MuteWork
    BY <1>1, <2>1 DEF Follows, MuteMessages, MutesKept
  <2>3. MuteTold(policies[current]) => MuteTold(policies[current])'
    BY <1>1 DEF MuteTold, KeepsMute
  <2> QED
    BY <1>1, <2>2, <2>3 DEF MuteShown
<1>2. ASSUME current' = 0, closing' \/ phase' = "disconnecting" \/ shownPolicy'.mute = FALSE
      PROVE  MuteShown'
  BY <1>2 DEF MuteShown
<1>3. closing => current = 0
  BY DEF OwnedOK
<1>4. CASE Logins
  <2>1. MutesKept /\ UNCHANGED <<policies, excused>>
    BY <1>4, LoginsKeep
  <2>2. CASE KeepsSession
    <3>1. CASE current = 0
      BY <1>2, <2>2, <3>1 DEF KeepsSession, KeepsMute, MuteShown
    <3>2. CASE current # 0
      BY <1>1, <2>1, <2>2, <3>2 DEF KeepsSession
    <3> QED
      BY <3>1, <3>2
  <2>3. CASE LoggedIn
    <3>1. /\ policies[sessionGen] = Default
          /\ \A t \in MuteWork : t.id # sessionGen
          /\ \A i \in MuteMessages : ui[i].id # sessionGen
      BY <2>3 DEF LoggedIn, FreshOK
    <3>2. shownPolicy.mute = FALSE
      BY <2>3 DEF LoggedIn, MuteShown
    <3>3. shownPolicy'.mute = FALSE /\ policies'[sessionGen].mute = FALSE
      BY <2>1, <2>3, <3>1, <3>2 DEF LoggedIn, PoliciesOK, Default
    <3>4. PICK d \in {0, 1} : Follows(d, "muted")
      BY <2>1 DEF MutesKept
    <3>5. /\ \A i \in MuteMessages' : i + d \in MuteMessages /\ ui'[i] = ui[i + d]
          /\ MuteWork' = MuteWork
      BY <2>1, <3>4 DEF Follows, MuteMessages, MutesKept
    <3>6. current' = sessionGen /\ current' # 0
      BY <2>3, DesktopAssumption DEF LoggedIn, Sessions
    <3>7. \A i \in MuteMessages' : ui'[i].id # current'
      BY <3>1, <3>5, <3>6
    <3>8. MuteTold(policies[current])'
      BY <3>3, <3>6 DEF MuteTold
    <3> QED
      BY <3>6, <3>7, <3>8 DEF MuteShown
  <2>4. CASE Closes \/ NewGeneration
    BY <1>2, <2>4 DEF Closes, NewGeneration
  <2> QED
    BY <1>4, <2>2, <2>3, <2>4, LoginChanges
<1>5. CASE Asking \/ UNCHANGED desktopVars
  <2>1. UNCHANGED <<current, closing, phase, ui, work, policies, shownPolicy, forgotten, excused>>
    BY <1>5, AskingKeeps DEF desktopVars
  <2> QED
    BY <2>1 DEF MuteShown, MuteTold, MuteWork, MuteMessages
<1>6. CASE Setting
  <2>1. MutesKept /\ UNCHANGED <<current, closing, phase>>
    BY <1>6, SettingKeeps
  <2>2. shownPolicy'.mute = shownPolicy.mute /\ UNCHANGED forgotten
    BY <1>6 DEF Setting, ApplyAudio, AudioApplied, SetAudio, PoliciesOK
  <2>3. CASE current = 0
    BY <1>2, <2>1, <2>2, <2>3 DEF MuteShown
  <2>4. CASE current # 0 /\ ~excused'
    <3>1. ~excused
      BY <1>6, <2>4 DEF Setting, ApplyAudio, AudioApplied, SetAudio
    <3>2. policies'[current].mute = policies[current].mute
      <4>1. CASE ApplyAudio \/ AudioApplied
        BY <4>1 DEF ApplyAudio, AudioApplied
      <4>2. ASSUME NEW t \in work, NEW ok \in BOOLEAN, SetAudio(t, ok)
            PROVE  policies'[current].mute = policies[current].mute
        <5>1. t.id \in Sessions /\ current \in Sessions
          BY <2>4, <4>2, WorkFields DEF SetAudio, DesktopTypeOK
        <5> QED
          BY <4>2, <5>1 DEF SetAudio, PoliciesOK
      <4> QED
        BY <1>6, <4>1, <4>2 DEF Setting
    <3>3. PICK d \in {0, 1} : Follows(d, "muted")
      BY <2>1 DEF MutesKept
    <3>4. /\ \A i \in MuteMessages' : i + d \in MuteMessages /\ ui'[i] = ui[i + d]
          /\ \A i \in MuteMessages : i - d \in MuteMessages' /\ ui'[i - d] = ui[i]
          /\ MuteWork' = MuteWork
      BY <2>1, <3>3 DEF Follows, MuteMessages, MutesKept
    <3> QED
      BY <2>1, <2>2, <2>4, <3>1, <3>2, <3>4 DEF MuteShown, MuteTold
  <2>5. CASE current # 0 /\ excused'
    BY <2>1, <2>5 DEF MuteShown
  <2> QED
    BY <2>3, <2>4, <2>5
<1>7. CASE ApplyParticipantUpdates
  <2>1. UNCHANGED <<current, closing, phase, ui, policies, shownPolicy, forgotten, excused>>
    BY <1>7 DEF ApplyParticipantUpdates
  <2>2. CASE UNCHANGED work
    BY <2>1, <2>2 DEF MuteShown, MuteTold, MuteWork, MuteMessages
  <2>3. CASE work' = work \cup {[do |-> "mute", id |-> current, on |-> unsent = "mute"]}
    <3> DEFINE a == [do |-> "mute", id |-> current, on |-> unsent = "mute"]
    <3>0. a \in work' /\ a.do = "mute" /\ a.id = current'
      BY <2>1, <2>3
    <3>1. \E t \in MuteWork' : t.id = current'
      BY <3>0 DEF MuteWork
    <3> QED
      BY <2>1, <3>1 DEF MuteShown, MuteMessages
  <2> QED
    BY <1>7, <2>2, <2>3 DEF ApplyParticipantUpdates
<1>8. ASSUME NEW t \in work, NEW ok \in BOOLEAN, ApplyMute(t, ok) PROVE MuteShown'
  <2>0. PICK m : m = [do |-> "muted", id |-> t.id, on |-> t.on, ok |-> ok]
    OBVIOUS
  <2>1. m \in Messages /\ t \in MuteWork /\ m.do = "muted" /\ m.id = t.id /\ m.on = t.on /\ t.id \in Sessions
    BY <1>8, <2>0, WorkFields DEF ApplyMute, Messages, MuteWork
  <2>2. /\ DOMAIN ui' = DOMAIN ui \cup {Len(ui) + 1}
        /\ ui'[Len(ui) + 1] = m /\ \A i \in DOMAIN ui : ui'[i] = ui[i]
    BY <1>8, <2>0, <2>1, Queued DEF ApplyMute
  <2>3. MuteMessages' = {Len(ui) + 1} /\ MuteMessages = {} /\ \A u \in MuteWork : u = t
    BY <2>1, <2>2 DEF BatchOK, BatchCount, BatchSession, MuteMessages
  <2>4. UNCHANGED <<current, closing, phase, shownPolicy, forgotten, excused>>
    BY <1>8 DEF ApplyMute
  <2>5. CASE current = 0
    BY <1>2, <2>4, <2>5 DEF MuteShown
  <2>6. CASE current = t.id /\ current # 0
    <3>1. lives[t.id] # "down"
      BY <2>6 DEF OwnedOK
    <3>2. policies'[t.id].mute = t.on
      BY <1>8, <2>1, <3>1 DEF ApplyMute, PoliciesOK
    <3> QED
      BY <2>1, <2>2, <2>3, <2>4, <2>6, <3>2 DEF MuteShown
  <2>7. CASE current # t.id /\ current # 0
    <3>1. policies'[current] = policies[current]
      BY <1>8, <2>1, <2>7 DEF ApplyMute, PoliciesOK
    <3> QED
      BY <2>1, <2>2, <2>3, <2>4, <2>7, <3>1 DEF MuteShown, MuteTold
  <2> QED
    BY <2>5, <2>6, <2>7
<1>9. CASE ParticipantUpdatesApplied
  <2>1. /\ ui # <<>> /\ ui' = Tail(ui) /\ Head(ui).do = "muted"
        /\ UNCHANGED <<work, current, closing, phase, policies>>
    BY <1>9 DEF ParticipantUpdatesApplied, Next2
  <2>2. /\ 1 \in DOMAIN ui /\ Head(ui) = ui[1]
        /\ \A i \in DOMAIN ui' : i + 1 \in DOMAIN ui /\ i + 1 # 1 /\ ui'[i] = ui[i + 1]
    BY <2>1, Taken
  <2>3. 1 \in MuteMessages
    BY <2>1, <2>2 DEF MuteMessages
  <2>4. MuteMessages' = {} /\ MuteWork = {} /\ \A i \in MuteMessages : i = 1
    BY <2>1, <2>2, <2>3 DEF BatchOK, BatchCount, BatchSession, MuteMessages, MuteWork
  <2>5. CASE ~IsCurrent(ui[1].id)
    <3>1. UNCHANGED <<shownPolicy, forgotten, excused>>
      BY <1>9, <2>2, <2>5 DEF ParticipantUpdatesApplied
    <3>2. current # 0 => ui[1].id # current
      BY <2>5 DEF IsCurrent, OwnedOK
    <3> QED
      BY <2>1, <2>4, <3>1, <3>2 DEF MuteShown, MuteTold
  <2>6. CASE IsCurrent(ui[1].id)
    <3>1. current = ui[1].id /\ current \in Sessions
      BY <2>1, <2>2, <2>3, <2>6, MessageFields DEF IsCurrent, BatchOK, BatchCount, BatchSession
    <3>2. current' # 0
      BY <2>1, <3>1, DesktopAssumption DEF Sessions
    <3>3. CASE excused'
      BY <3>2, <3>3 DEF MuteShown
    <3>4. CASE ~excused'
      <4>1. /\ ~excused
            /\ shownPolicy' = IF inList THEN [shownPolicy EXCEPT !.mute = ui[1].on] ELSE shownPolicy
            /\ forgotten' = (ui[1].on /\ ~inList)
        BY <1>9, <2>2, <2>6, <3>4 DEF ParticipantUpdatesApplied, Valid
      <4>2. policies[current].mute = ui[1].on
        BY <2>1, <2>3, <3>1, <3>2, <4>1 DEF MuteShown
      <4>3. MuteTold(policies[current])'
        BY <2>1, <4>1, <4>2 DEF PoliciesOK, MuteTold, UnlistedOK
      <4> QED
        BY <2>4, <3>2, <4>3 DEF MuteShown
    <3> QED
      BY <3>3, <3>4
  <2> QED
    BY <2>5, <2>6
<1> QED
  BY <1>4, <1>5, <1>6, <1>7, <1>8, <1>9, StepKinds DEF Muting

\* The audio settings shown are those in use, or the answer that changes them, or that
\* will be passed over, is on its way.
LEMMA StepAudioShown ==
    ASSUME WindowInv, ShownInv, [DesktopNext]_desktopVars
    PROVE  AudioShown'
<1> USE DEF WindowInv, QueuesOK, ShownInv, modelVars, listVars, updateVars, dialogVars, sessionVars, historyVars
<1>0. dialog \in Nat /\ dialogs \in Nat /\ dialog <= dialogs
  BY DEF DesktopTypeOK
<1>1. /\ \A t \in AudioWork : t.in # 0 /\ t.in # dialogs + 1
      /\ \A i \in AudioMessages : ui[i].in # 0 /\ ui[i].in # dialogs + 1
  BY <1>0 DEF DialogOK
<1>2. ASSUME AudiosKept, UNCHANGED <<current, dialog>>, excused => excused',
             policies'[current].audio = policies[current].audio, shownPolicy'.audio = shownPolicy.audio
      PROVE  AudioShown'
  <2>1. PICK d \in {0, 1} : Follows(d, "audio")
    BY <1>2 DEF AudiosKept
  <2>2. /\ \A i \in AudioMessages' : i + d \in AudioMessages /\ ui'[i] = ui[i + d]
        /\ \A i \in AudioMessages : i - d \in AudioMessages' /\ ui'[i - d] = ui[i]
        /\ AudioWork' = AudioWork
    BY <1>2, <2>1 DEF Follows, AudioMessages, AudiosKept
  <2>3. Doomed => Doomed'
    BY <1>2, <2>2 DEF Doomed
  <2>4. AudioMessages # {} => AudioMessages' # {}
    BY <2>2
  <2> QED
    BY <1>2, <2>2, <2>3, <2>4 DEF AudioShown
<1>3. CASE Logins
  <2>1. AudiosKept /\ UNCHANGED <<policies, excused>>
    BY <1>3, LoginsKeep
  <2>2. CASE KeepsSession
    <3>1. CASE current = 0
      BY <2>2, <3>1 DEF KeepsSession, AudioShown
    <3>2. CASE current # 0
      BY <1>2, <2>1, <2>2, <3>2 DEF KeepsSession
    <3> QED
      BY <3>1, <3>2
  <2>3. CASE LoggedIn
    <3>1. dialog = 0 /\ dialog' = 0 /\ current' = sessionGen /\ current' \in Sessions
      BY <2>3 DEF LoggedIn
    <3>2. PICK d \in {0, 1} : Follows(d, "audio")
      BY <2>1 DEF AudiosKept
    <3>3. /\ \A i \in AudioMessages' : i + d \in AudioMessages /\ ui'[i] = ui[i + d]
          /\ AudioWork' = AudioWork
      BY <2>1, <3>2 DEF Follows, AudioMessages, AudiosKept
    <3>4. AudioWork' # {} \/ AudioMessages' # {} => Doomed'
      BY <1>1, <3>1, <3>3 DEF Doomed
    <3>5. shownPolicy'.audio = policies'[current'].audio
      BY <2>1, <2>3, <3>1 DEF LoggedIn, PoliciesOK
    <3> QED
      BY <3>4, <3>5 DEF AudioShown
  <2>4. CASE Closes \/ NewGeneration
    BY <2>4 DEF Closes, NewGeneration, AudioShown
  <2> QED
    BY <1>3, <2>2, <2>3, <2>4, LoginChanges
<1>4. CASE UNCHANGED desktopVars
  BY <1>4 DEF desktopVars, AudioShown, AudioWork, AudioMessages, Doomed
<1>5. CASE Asking
  <2>1. AudiosKept /\ UNCHANGED <<current, ui, work, policies, shownPolicy, excused>>
    BY <1>5, AskingKeeps
  <2>2. CASE \E on \in BOOLEAN : QueueParticipantMuted(on)
    BY <1>2, <2>1, <2>2 DEF QueueParticipantMuted
  <2>3. CASE OpenSettings \/ DialogClosed
    <3>1. dialog' \in {0, dialogs + 1}
      BY <2>3 DEF OpenSettings, DialogClosed, CloseDialog
    <3>2. AudioWork' = AudioWork /\ AudioMessages' = AudioMessages
      BY <2>1 DEF AudioWork, AudioMessages
    <3>3. AudioWork' # {} \/ AudioMessages' # {} => Doomed'
      BY <1>1, <2>1, <3>1, <3>2 DEF Doomed
    <3>4. Doomed => AudioWork # {} \/ AudioMessages # {}
      BY DEF Doomed
    <3> QED
      BY <2>1, <3>2, <3>3, <3>4 DEF AudioShown
  <2> QED
    BY <1>5, <2>2, <2>3 DEF Asking
<1>6. CASE Muting
  <2>1. AudiosKept /\ UNCHANGED <<current, dialog>>
    BY <1>6, MutingKeeps
  <2>2. excused => excused'
    BY <1>6 DEF Muting, ApplyParticipantUpdates, ParticipantUpdatesApplied, ApplyMute
  <2>3. shownPolicy'.audio = shownPolicy.audio
    BY <1>6 DEF Muting, ApplyParticipantUpdates, ParticipantUpdatesApplied, ApplyMute, PoliciesOK
  <2>4. CASE current = 0
    BY <2>1, <2>4 DEF AudioShown
  <2>5. CASE current # 0
    <3>1. policies'[current].audio = policies[current].audio
      <4>1. CASE ApplyParticipantUpdates \/ ParticipantUpdatesApplied
        BY <4>1 DEF ApplyParticipantUpdates, ParticipantUpdatesApplied
      <4>2. ASSUME NEW t \in work, NEW ok \in BOOLEAN, ApplyMute(t, ok)
            PROVE  policies'[current].audio = policies[current].audio
        <5>1. t.id \in Sessions /\ current \in Sessions
          BY <2>5, <4>2, WorkFields DEF ApplyMute, DesktopTypeOK
        <5> QED
          BY <4>2, <5>1 DEF ApplyMute, PoliciesOK
      <4> QED
        BY <1>6, <4>1, <4>2 DEF Muting
    <3> QED
      BY <1>2, <2>1, <2>2, <2>3, <3>1
  <2> QED
    BY <2>4, <2>5
<1>7. CASE ApplyAudio
  <2>1. PICK a : a = [do |-> "audio", id |-> current, in |-> dialog, audio |-> commands']
    OBVIOUS
  <2>2. /\ ~applying /\ work' = work \cup {a}
        /\ UNCHANGED <<dialog, current, ui, policies, excused, shownPolicy>>
    BY <1>7, <2>1 DEF ApplyAudio
  <2>3. a.do = "audio" /\ a.in = dialog
    BY <2>1
  <2>4. AudioWork' = AudioWork \cup {a} /\ AudioMessages' = AudioMessages
    BY <2>2, <2>3 DEF AudioWork, AudioMessages
  <2>5. Doomed => Doomed'
    BY <2>2, <2>4 DEF Doomed
  <2> QED
    BY <2>2, <2>4, <2>5 DEF AudioShown
<1>8. ASSUME NEW t \in work, NEW ok \in BOOLEAN, SetAudio(t, ok) PROVE AudioShown'
  <2>0. PICK m : m = [do |-> "audio", in |-> t.in, audio |-> t.audio, ok |-> ok]
    OBVIOUS
  <2>1. /\ m \in Messages /\ t \in AudioWork /\ m.do = "audio" /\ m.in = t.in /\ m.audio = t.audio
        /\ t.id \in Sessions
    BY <1>8, <2>0, WorkFields DEF SetAudio, Messages, AudioWork
  <2>2. /\ DOMAIN ui' = DOMAIN ui \cup {Len(ui) + 1}
        /\ ui'[Len(ui) + 1] = m /\ \A i \in DOMAIN ui : ui'[i] = ui[i]
    BY <1>8, <2>0, <2>1, Queued DEF SetAudio
  <2>3. AudioMessages' = AudioMessages \cup {Len(ui) + 1}
    BY <2>1, <2>2 DEF AudioMessages
  <2>4. UNCHANGED <<dialog, current>>
    BY <1>8 DEF SetAudio
  <2>5. \A i \in AudioMessages : i \in DOMAIN ui /\ ui'[i] = ui[i]
    BY <2>2 DEF AudioMessages
  <2>6. CASE t.in # dialog \/ \E i \in AudioMessages : ui[i].in # dialog
    <3>1. Doomed'
      BY <2>1, <2>2, <2>3, <2>4, <2>5, <2>6 DEF Doomed
    <3> QED
      BY <3>1 DEF AudioShown
  <2>7. CASE t.in = dialog /\ \A i \in AudioMessages : ui[i].in = dialog
    <3>1. AudioMessages = {} /\ t.id = current
      BY <2>1, <2>7 DEF DialogOK
    <3>2. current # 0 => lives[t.id] # "down"
      BY <3>1 DEF OwnedOK
    <3>3. current # 0 => policies'[current].audio = t.audio
      BY <1>8, <2>1, <3>1, <3>2 DEF SetAudio, PoliciesOK
    <3> QED
      BY <2>1, <2>2, <2>3, <2>4, <3>1, <3>3 DEF AudioShown
  <2> QED
    BY <2>6, <2>7
<1>9. CASE AudioApplied
  <2>1. /\ ui # <<>> /\ ui' = Tail(ui) /\ Head(ui).do = "audio"
        /\ UNCHANGED <<work, dialog, current, policies>>
    BY <1>9 DEF AudioApplied, Next2
  <2>2. /\ 1 \in DOMAIN ui /\ Head(ui) = ui[1]
        /\ \A i \in DOMAIN ui' : i + 1 \in DOMAIN ui /\ i + 1 # 1 /\ ui'[i] = ui[i + 1]
        /\ \A i \in DOMAIN ui : i # 1 => i - 1 \in DOMAIN ui' /\ ui'[i - 1] = ui[i]
    BY <2>1, Taken
  <2>3. 1 \in AudioMessages /\ AudioWork' = AudioWork
    BY <2>1, <2>2 DEF AudioMessages, AudioWork
  <2>4. /\ \A i \in AudioMessages' : i + 1 \in AudioMessages /\ i + 1 # 1 /\ ui'[i] = ui[i + 1]
        /\ \A i \in AudioMessages : i # 1 => i - 1 \in AudioMessages' /\ ui'[i - 1] = ui[i]
    BY <2>2 DEF AudioMessages
  <2>5. CASE excused' \/ Doomed' \/ current = 0
    BY <2>1, <2>5 DEF AudioShown
  <2>6. CASE ~excused' /\ ~Doomed' /\ current # 0
    <3>1. /\ ~excused /\ dialog = ui[1].in
          /\ shownPolicy' = [shownPolicy EXCEPT !.audio = ui[1].audio]
      BY <1>9, <2>2, <2>6 DEF AudioApplied
    <3>2. ~Doomed
      <4>1. /\ \A t \in AudioWork : t.in = dialog
            /\ \A i \in AudioMessages' : ui'[i].in = dialog
        BY <2>1, <2>3, <2>6 DEF Doomed
      <4>2. ASSUME NEW i \in AudioMessages PROVE ui[i].in = dialog
        <5>1. CASE i = 1
          BY <3>1, <5>1
        <5>2. CASE i # 1
          BY <2>4, <4>1, <5>2
        <5> QED
          BY <5>1, <5>2
      <4> QED
        BY <4>1, <4>2 DEF Doomed
    <3>3. shownPolicy'.audio = policies'[current'].audio
      BY <2>1, <2>3, <2>6, <3>1, <3>2 DEF AudioShown, PoliciesOK
    <3>4. AudioMessages' = {}
      <4>1. ASSUME NEW i \in AudioMessages' PROVE FALSE
        <5>1. ui[i + 1].in = dialog
          BY <2>4, <3>2 DEF Doomed
        <5> QED
          BY <2>3, <2>4, <3>1, <5>1 DEF DialogOK
      <4> QED
        BY <4>1
    <3> QED
      BY <3>3, <3>4 DEF AudioShown
  <2> QED
    BY <2>5, <2>6
<1> QED
  BY <1>3, <1>4, <1>5, <1>6, <1>7, <1>8, <1>9, StepKinds DEF Setting

\* Nothing is shown, asked for or in use at first.
LEMMA InitShown == DesktopInit => ShownInv
<1> SUFFICES ASSUME DesktopInit PROVE ShownInv
  OBVIOUS
<1> USE DEF DesktopInit
<1>1. MuteWork = {} /\ MuteMessages = {} /\ AudioWork = {} /\ AudioMessages = {}
  BY DEF MuteWork, MuteMessages, AudioWork, AudioMessages
<1>2. PoliciesOK
  <2>1. Default \in [mute : BOOLEAN, audio : Nat]
    BY DEF Default
  <2> QED
    BY <2>1 DEF PoliciesOK
<1>3. BatchOK /\ DialogOK /\ UnsentOK /\ UnlistedOK
  BY <1>1 DEF BatchOK, BatchCount, BatchSession, DialogOK, UnsentOK, UnlistedOK, Default
<1>4. FreshOK
  BY <1>1 DEF FreshOK
<1>5. MuteShown /\ AudioShown
  BY <1>1 DEF MuteShown, AudioShown, Default
<1> QED
  BY <1>2, <1>3, <1>4, <1>5 DEF ShownInv

\* What the window shows of its session is in use there, or a change is on its way, or
\* the user was told: a mute that was asked for is sent however batches, logouts and
\* logins overlap, unless an older session's batch came back in between; and at rest,
\* unless an error was shown or the dialog closed before its answer, the audio settings
\* shown are those of the session, a mute that is shown is in force, and one in force
\* is shown unless the list of participants dropped it.
THEOREM ShownAlwaysInUse == DesktopSpec => []ShownIsInUse
<1>1. WindowInv /\ ShownInv /\ [DesktopNext]_desktopVars => ShownInv'
  BY StepPolicies, StepBatch, StepDialog, StepFresh, StepUnsent, StepUnlisted, StepMuteShown,
     StepAudioShown DEF ShownInv
<1>2. ASSUME WindowInv, ShownInv PROVE ShownIsInUse
  <2>1. ASSUME current # 0, AtRest, ~excused
        PROVE  MuteTold(policies[current]) /\ shownPolicy.audio = policies[current].audio
    <3>1. MuteWork = {} /\ MuteMessages = {} /\ AudioWork = {} /\ AudioMessages = {}
      BY <2>1 DEF AtRest, MuteWork, MuteMessages, AudioWork, AudioMessages
    <3>2. MuteTold(policies[current])
      BY <1>2, <2>1, <3>1 DEF ShownInv, MuteShown
    <3>3. shownPolicy.audio = policies[current].audio
      BY <1>2, <2>1, <3>1 DEF ShownInv, AudioShown, Doomed
    <3> QED
      BY <3>2, <3>3
  <2> QED
    BY <1>2, <2>1 DEF ShownInv, UnsentOK, ShownIsInUse, MuteTold
<1>3. DesktopSpec => []ShownInv
  BY InitShown, <1>1, WindowInvariance, PTL DEF DesktopSpec
<1> QED
  BY <1>2, <1>3, WindowInvariance, PTL

-----------------------------------------------------------------------------
(* The panel of the other participants. *)

RemoteEvents ==
    [kind : Kinds, who : Others, scope : PanelScopes, number : Nat, generation : Nat]
ConnectionEvents ==
    [kind : {"connection"}, state : VoiceStates, number : Nat, generation : Nat]
PanelEvents == RemoteEvents \cup ConnectionEvents

PanelStates ==
    [generation : Nat, seen : [Facets -> [Others \X PanelScopes -> Nat]],
     lastConnection : Nat, shown : VoiceStates, listed : SUBSET Others,
     member : BOOLEAN, directory : BOOLEAN,
     connected : SUBSET (Others \X PanelScopes), audio : SUBSET (Others \X PanelScopes),
     speaking : [Others -> PanelScopes \cup {"none"}]]

PanelShape ==
    /\ voiceNow \in [state : VoiceStates, generation : Nat, number : 0..MaxNumber]
    /\ panel \in PanelStates
    /\ flying \subseteq PanelEvents
    /\ heard \subseteq PanelEvents
    /\ selected \in PanelScopes

(* Numbers are given once, and what was heard is of the panel's generation. *)
NumberedOnce ==
    /\ \A e \in flying \cup heard : e.number \in 1..voiceNow.number
    /\ \A d, e \in flying \cup heard : d.number = e.number => d = e
    /\ flying \cap heard = {}
    /\ \A e \in heard : e.generation = panel.generation

(* What the events of a set say of a facet; About and LastSays are about heard. *)
AboutIn(h, f, p, scope) ==
    {e \in h : e.kind # "connection" /\ e.who = p /\ e.scope = scope /\ f \in Touches(e.kind)}
LastIn(h, f, p, scope) ==
    \E e \in AboutIn(h, f, p, scope) : /\ Sets(e.kind)
                                       /\ \A d \in AboutIn(h, f, p, scope) : d.number <= e.number
Connections(h) == {e \in h : e.kind = "connection"}

(* A number that is kept is that of the newest event heard. *)
NewestOf(n, S) ==
    /\ \A e \in S : e.number <= n
    /\ n # 0 => \E e \in S : e.number = n

SeenIn(m, h) ==
    \A f \in Facets, p \in Others, scope \in PanelScopes :
        NewestOf(m.seen[f][<<p, scope>>], AboutIn(h, f, p, scope))

ConnectionIn(m, h) ==
    /\ NewestOf(m.lastConnection, Connections(h))
    /\ \A e \in Connections(h) : e.number = m.lastConnection => m.shown = e.state

(* Of the listed participants the panel shows what was heard last; whoever was
   heard and is not shown was missed. *)
FacetIn(shown, f, listed, h, gone) ==
    \A p \in Others, scope \in PanelScopes :
        /\ <<p, scope>> \in shown => p \in listed /\ LastIn(h, f, p, scope)
        /\ p \notin gone /\ LastIn(h, f, p, scope) => <<p, scope>> \in shown

SpeakingIn(m, h) ==
    \A p \in Others : m.speaking[p] # "none" =>
        p \in m.listed /\ LastIn(h, "speaking", p, m.speaking[p])

Shows(m, h, gone) ==
    /\ SeenIn(m, h) /\ ConnectionIn(m, h)
    /\ FacetIn(m.connected, "connected", m.listed, h, gone)
    /\ FacetIn(m.audio, "audio", m.listed, h, gone)
    /\ SpeakingIn(m, h)

PanelInv == PanelShape /\ NumberedOnce /\ Shows(panel, heard, missed)

\* Nothing was heard and nothing is shown at first.
LEMMA InitPanel == PanelInit => PanelInv
<1> SUFFICES ASSUME PanelInit PROVE PanelInv
  OBVIOUS
<1> USE PanelAssumption
<1>1. NoSequences \in [Facets -> [Others \X PanelScopes -> Nat]]
  BY DEF NoSequences
<1>2. PanelShape
  <2>1. panel \in PanelStates
    BY <1>1 DEF PanelInit, PanelStates, VoiceStates
  <2> QED
    BY <2>1 DEF PanelInit, PanelShape, VoiceStates
<1>3. NumberedOnce
  BY DEF PanelInit, NumberedOnce
<1>4. \A f, p, scope : AboutIn(heard, f, p, scope) = {} /\ ~LastIn(heard, f, p, scope)
  BY DEF PanelInit, AboutIn, LastIn
<1>5. SeenIn(panel, heard)
  <2>1. \A f \in Facets, k \in Others \X PanelScopes : panel.seen[f][k] = 0
    BY DEF PanelInit, NoSequences
  <2> QED
    BY <1>4, <2>1 DEF SeenIn, NewestOf
<1>6. ConnectionIn(panel, heard)
  BY DEF PanelInit, ConnectionIn, Connections, NewestOf
<1>7. /\ FacetIn(panel.connected, "connected", panel.listed, heard, missed)
      /\ FacetIn(panel.audio, "audio", panel.listed, heard, missed)
      /\ SpeakingIn(panel, heard)
  BY <1>4 DEF PanelInit, FacetIn, SpeakingIn
<1> QED
  BY <1>2, <1>3, <1>5, <1>6, <1>7 DEF PanelInv, Shows

\* One more event is heard: it is the newest about a facet, or the number that is
\* kept shows that it is not, and then it changes nothing of what was said last.
LEMMA FacetAfter ==
    ASSUME NEW h \in SUBSET PanelEvents, NEW e \in RemoteEvents,
           e.number # 0, \A d \in h : d.number # e.number,
           NEW f, NEW p, NEW scope, NEW n \in Nat, NewestOf(n, AboutIn(h, f, p, scope))
    PROVE  /\ e.who = p /\ e.scope = scope /\ f \in Touches(e.kind) /\ e.number > n =>
                /\ NewestOf(e.number, AboutIn(h \cup {e}, f, p, scope))
                /\ LastIn(h \cup {e}, f, p, scope) <=> Sets(e.kind)
           /\ ~(e.who = p /\ e.scope = scope /\ f \in Touches(e.kind) /\ e.number > n) =>
                /\ NewestOf(n, AboutIn(h \cup {e}, f, p, scope))
                /\ LastIn(h \cup {e}, f, p, scope) <=> LastIn(h, f, p, scope)
<1> DEFINE A == AboutIn(h, f, p, scope)
           B == AboutIn(h \cup {e}, f, p, scope)
           is == e.who = p /\ e.scope = scope /\ f \in Touches(e.kind)
<1>1. e.kind # "connection" /\ e.number \in Nat
  BY DEF RemoteEvents, Kinds
<1>2. B = IF is THEN A \cup {e} ELSE A
  BY <1>1 DEF AboutIn
<1>3. \A d \in A : d.number \in Nat /\ d.number # e.number
  BY DEF AboutIn, PanelEvents, RemoteEvents, ConnectionEvents
<1>4. /\ LastIn(h, f, p, scope) <=> \E x \in A : Sets(x.kind) /\ \A d \in A : d.number <= x.number
      /\ LastIn(h \cup {e}, f, p, scope)
            <=> \E x \in B : Sets(x.kind) /\ \A d \in B : d.number <= x.number
  BY DEF LastIn
<1>5. /\ \A d \in A : d.number <= n
      /\ n # 0 => \E d \in A : d.number = n
  BY DEF NewestOf
<1> HIDE DEF A, B
<1>6. CASE ~is
  BY <1>2, <1>4, <1>6 DEF A, B
<1>7. CASE is /\ e.number > n
  <2>1. NewestOf(e.number, B)
    BY <1>1, <1>2, <1>3, <1>5, <1>7 DEF NewestOf
  <2>2. (\E x \in B : Sets(x.kind) /\ \A d \in B : d.number <= x.number) <=> Sets(e.kind)
    BY <1>1, <1>2, <1>3, <1>5, <1>7
  <2> QED
    BY <1>4, <1>7, <2>1, <2>2 DEF B
<1>8. CASE is /\ ~(e.number > n)
  <2>1. NewestOf(n, B)
    BY <1>1, <1>2, <1>3, <1>5, <1>8 DEF NewestOf
  <2>2. PICK last \in A : last.number = n
    BY <1>1, <1>5, <1>8
  <2>3. (\E x \in B : Sets(x.kind) /\ \A d \in B : d.number <= x.number)
            <=> (\E x \in A : Sets(x.kind) /\ \A d \in A : d.number <= x.number)
    BY <1>1, <1>2, <1>3, <1>5, <1>8, <2>2
  <2> QED
    BY <1>4, <1>8, <2>1, <2>3 DEF B
<1> QED
  BY <1>6, <1>7, <1>8

(* What the panel forgets when an event of a newer generation comes. *)
HeardBefore(e) == IF e.generation > panel.generation THEN {} ELSE heard
MissedBefore(e) == IF e.generation > panel.generation THEN {} ELSE missed

\* The panel of the generation of an event that is not of an older one.
LEMMA Entered ==
    ASSUME PanelInv, NEW e \in flying, ~(e.generation < panel.generation)
    PROVE  /\ Enter(panel, e) \in PanelStates
           /\ Enter(panel, e).generation = e.generation
           /\ Enter(panel, e).listed = panel.listed
           /\ HeardBefore(e) \in SUBSET PanelEvents
           /\ \A d \in HeardBefore(e) : d.generation = e.generation /\ d \in heard
           /\ Shows(Enter(panel, e), HeardBefore(e), MissedBefore(e))
<1> DEFINE m == Enter(panel, e)
<1>0. /\ e \in PanelEvents /\ e.generation \in Nat /\ panel.generation \in Nat
      /\ panel \in PanelStates /\ heard \subseteq PanelEvents
  BY DEF PanelInv, PanelShape, PanelEvents, RemoteEvents, ConnectionEvents, PanelStates
<1>1. CASE e.generation > panel.generation
  <2>1. NoSequences \in [Facets -> [Others \X PanelScopes -> Nat]]
    BY DEF NoSequences
  <2>2. m = [panel EXCEPT !.connected = {}, !.audio = {}, !.speaking = [p \in Others |-> "none"],
                          !.generation = e.generation, !.seen = NoSequences,
                          !.lastConnection = 0]
    BY <1>0, <1>1 DEF Enter, Cleared, PanelStates
  <2>3. /\ m \in PanelStates /\ m.generation = e.generation /\ m.listed = panel.listed
        /\ m.connected = {} /\ m.audio = {} /\ m.speaking = [p \in Others |-> "none"]
        /\ m.seen = NoSequences /\ m.lastConnection = 0
    <3>1. [p \in Others |-> "none"] \in [Others -> PanelScopes \cup {"none"}]
      OBVIOUS
    <3> DEFINE quiet == [p \in Others |-> "none"]
    <3>2. /\ m.generation = e.generation /\ m.listed = panel.listed
          /\ m.connected = {} /\ m.audio = {} /\ m.speaking = quiet
          /\ m.seen = NoSequences /\ m.lastConnection = 0
      BY <1>0, <2>2 DEF PanelStates
    <3> HIDE DEF quiet
    <3>3. quiet \in [Others -> PanelScopes \cup {"none"}]
      BY <3>1 DEF quiet
    <3>4. m = [panel EXCEPT !.connected = {}, !.audio = {}, !.speaking = quiet,
                            !.generation = e.generation, !.seen = NoSequences,
                            !.lastConnection = 0]
      BY <2>2 DEF quiet
    <3> HIDE DEF m
    <3>5. m \in PanelStates
      BY <1>0, <2>1, <3>3, <3>4 DEF PanelStates
    <3> QED
      BY <3>2, <3>5 DEF quiet
  <2>4. HeardBefore(e) = {}
    BY <1>1 DEF HeardBefore
  <2>5. \A f, p, scope : AboutIn({}, f, p, scope) = {} /\ ~LastIn({}, f, p, scope)
    BY DEF AboutIn, LastIn
  <2> HIDE DEF m
  <2>6. SeenIn(m, {})
    <3>1. \A f \in Facets, k \in Others \X PanelScopes : m.seen[f][k] = 0
      BY <2>3 DEF NoSequences
    <3> QED
      BY <2>5, <3>1 DEF SeenIn, NewestOf
  <2>7. ConnectionIn(m, {})
    BY <2>3 DEF ConnectionIn, Connections, NewestOf
  <2>8. /\ FacetIn(m.connected, "connected", m.listed, {}, MissedBefore(e))
        /\ FacetIn(m.audio, "audio", m.listed, {}, MissedBefore(e))
        /\ SpeakingIn(m, {})
    BY <2>3, <2>5 DEF FacetIn, SpeakingIn
  <2>9. Shows(m, {}, MissedBefore(e))
    BY <2>6, <2>7, <2>8 DEF Shows
  <2> QED
    BY <2>3, <2>4, <2>9 DEF m
<1>2. CASE ~(e.generation > panel.generation)
  <2>1. e.generation = panel.generation
    BY <1>0, <1>2
  <2> QED
    BY <1>0, <1>2, <2>1 DEF Enter, HeardBefore, MissedBefore, PanelInv, NumberedOnce
<1> QED
  BY <1>1, <1>2

\* The numbers of the facets in which the event is news are its own.
LEMMA AdvancedSeen ==
    ASSUME NEW m \in PanelStates, NEW e \in RemoteEvents
    PROVE  /\ Advanced(m, e) \in PanelStates
           /\ \A f \in Facets, p \in Others, scope \in PanelScopes :
                Advanced(m, e).seen[f][<<p, scope>>] =
                    IF f \in News(m, e) /\ p = e.who /\ scope = e.scope THEN e.number
                    ELSE m.seen[f][<<p, scope>>]
           /\ Advanced(m, e) = [m EXCEPT !.seen = Advanced(m, e).seen]
<1> DEFINE k == <<e.who, e.scope>>
           seen == [f \in Facets |-> IF f \in News(m, e) THEN [m.seen[f] EXCEPT ![k] = e.number]
                                     ELSE m.seen[f]]
<1>1. k \in Others \X PanelScopes /\ e.number \in Nat
  BY DEF RemoteEvents
<1>2. m.seen \in [Facets -> [Others \X PanelScopes -> Nat]]
  BY DEF PanelStates
<1>3. seen \in [Facets -> [Others \X PanelScopes -> Nat]]
  BY <1>1, <1>2
<1>4. \A f \in Facets, p \in Others, scope \in PanelScopes :
        seen[f][<<p, scope>>] =
            IF f \in News(m, e) /\ p = e.who /\ scope = e.scope THEN e.number
            ELSE m.seen[f][<<p, scope>>]
  BY <1>1, <1>2
<1>5. Advanced(m, e) = [m EXCEPT !.seen = seen]
  BY DEF Advanced
<1> HIDE DEF seen
<1>6. Advanced(m, e).seen = seen /\ Advanced(m, e) \in PanelStates
  BY <1>3, <1>5 DEF PanelStates
<1> QED
  BY <1>4, <1>5, <1>6

\* Facets of remote events.
LEMMA EventTouches ==
    ASSUME NEW e \in RemoteEvents
    PROVE  Touches(e.kind) \subseteq Facets /\ e.kind # "connection"
  BY DEF RemoteEvents, Kinds, Touches, Facets

\* After a remote event every number is still that of the newest event.
LEMMA SeenAfter ==
    ASSUME NEW m \in PanelStates, NEW h \in SUBSET PanelEvents, NEW e \in RemoteEvents,
           e.number # 0, \A d \in h : d.number # e.number, SeenIn(m, h)
    PROVE  /\ SeenIn(Advanced(m, e), h \cup {e})
           /\ News(m, e) = {} => SeenIn(m, h \cup {e})
           /\ \A f \in Facets, p \in Others, scope \in PanelScopes :
                LastIn(h \cup {e}, f, p, scope) <=>
                    IF f \in News(m, e) /\ p = e.who /\ scope = e.scope THEN Sets(e.kind)
                    ELSE LastIn(h, f, p, scope)
<1> SUFFICES ASSUME NEW f \in Facets, NEW p \in Others, NEW scope \in PanelScopes
             PROVE  /\ NewestOf(Advanced(m, e).seen[f][<<p, scope>>],
                                AboutIn(h \cup {e}, f, p, scope))
                    /\ News(m, e) = {} => NewestOf(m.seen[f][<<p, scope>>],
                                                   AboutIn(h \cup {e}, f, p, scope))
                    /\ LastIn(h \cup {e}, f, p, scope) <=>
                         IF f \in News(m, e) /\ p = e.who /\ scope = e.scope THEN Sets(e.kind)
                         ELSE LastIn(h, f, p, scope)
  BY DEF SeenIn
<1> DEFINE n == m.seen[f][<<p, scope>>]
<1>1. n \in Nat /\ NewestOf(n, AboutIn(h, f, p, scope))
  BY DEF PanelStates, SeenIn
<1>2. p = e.who /\ scope = e.scope =>
        (f \in News(m, e) <=> f \in Touches(e.kind) /\ e.number > n)
  BY DEF News
<1>3. Advanced(m, e).seen[f][<<p, scope>>] =
        IF f \in News(m, e) /\ p = e.who /\ scope = e.scope THEN e.number ELSE n
  BY AdvancedSeen
<1> HIDE DEF n
<1>4. CASE f \in News(m, e) /\ p = e.who /\ scope = e.scope
  BY <1>1, <1>2, <1>3, <1>4, FacetAfter
<1>5. CASE ~(f \in News(m, e) /\ p = e.who /\ scope = e.scope)
  <2>1. ~(e.who = p /\ e.scope = scope /\ f \in Touches(e.kind) /\ e.number > n)
    BY <1>2, <1>5
  <2>2. /\ NewestOf(n, AboutIn(h \cup {e}, f, p, scope))
        /\ LastIn(h \cup {e}, f, p, scope) <=> LastIn(h, f, p, scope)
    BY <1>1, <2>1, FacetAfter
  <2> QED
    BY <1>3, <1>5, <2>2 DEF n
<1> QED
  BY <1>4, <1>5

\* What applyVoiceRemoteEvent shows of an event.
LEMMA ShownFields ==
    ASSUME NEW m \in PanelStates, NEW e \in RemoteEvents
    PROVE  /\ Shown(m, e) \in PanelStates
           /\ Shown(m, e).generation = m.generation
           /\ Shown(m, e).lastConnection = m.lastConnection /\ Shown(m, e).shown = m.shown
           /\ Shown(m, e).seen = Advanced(m, e).seen
           /\ Shown(m, e).listed = m.listed \cup {e.who}
           /\ Shown(m, e).connected =
                IF "connected" \in News(m, e) THEN Changed(m.connected, e) ELSE m.connected
           /\ Shown(m, e).audio =
                IF "audio" \in News(m, e) THEN Changed(m.audio, e) ELSE m.audio
           /\ Shown(m, e).speaking =
                IF "speaking" \in News(m, e)
                THEN [m.speaking EXCEPT ![e.who] = SpeakingAfter(m, e)] ELSE m.speaking
<1> DEFINE a == Advanced(m, e)
           c == IF "connected" \in News(m, e) THEN Changed(m.connected, e) ELSE m.connected
           u == IF "audio" \in News(m, e) THEN Changed(m.audio, e) ELSE m.audio
           v == IF "speaking" \in News(m, e)
                THEN [m.speaking EXCEPT ![e.who] = SpeakingAfter(m, e)] ELSE m.speaking
           l == m.listed \cup {e.who}
<1>1. /\ e.who \in Others /\ e.scope \in PanelScopes
      /\ m.connected \in SUBSET (Others \X PanelScopes)
      /\ m.audio \in SUBSET (Others \X PanelScopes)
      /\ m.speaking \in [Others -> PanelScopes \cup {"none"}]
      /\ m.listed \in SUBSET Others
  BY DEF RemoteEvents, PanelStates
<1>2. /\ c \in SUBSET (Others \X PanelScopes) /\ u \in SUBSET (Others \X PanelScopes)
      /\ l \in SUBSET Others
  BY <1>1 DEF Changed
<1>3. v \in [Others -> PanelScopes \cup {"none"}]
  BY <1>1 DEF SpeakingAfter
<1>4. a \in PanelStates /\ a = [m EXCEPT !.seen = a.seen]
  BY AdvancedSeen
<1>5. /\ a.connected = m.connected /\ a.audio = m.audio /\ a.speaking = m.speaking
      /\ a.listed = m.listed /\ a.generation = m.generation
      /\ a.lastConnection = m.lastConnection /\ a.shown = m.shown
  BY <1>4 DEF PanelStates
<1>6. Shown(m, e) = [[a EXCEPT !.listed = l] EXCEPT !.connected = c, !.audio = u, !.speaking = v]
  <2>1. [a EXCEPT !.listed = @ \cup {e.who}] = [a EXCEPT !.listed = l]
    BY <1>4, <1>5 DEF PanelStates
  <2>2. /\ [a EXCEPT !.listed = l].connected = m.connected
        /\ [a EXCEPT !.listed = l].audio = m.audio
        /\ [a EXCEPT !.listed = l].speaking = m.speaking
    BY <1>4, <1>5 DEF PanelStates
  <2> QED
    BY <2>1, <2>2 DEF Shown
<1> HIDE DEF a, c, u, v, l
<1>7. [[a EXCEPT !.listed = l] EXCEPT !.connected = c, !.audio = u, !.speaking = v]
        = [a EXCEPT !.listed = l, !.connected = c, !.audio = u, !.speaking = v]
  BY <1>4 DEF PanelStates
<1>8. [a EXCEPT !.listed = l, !.connected = c, !.audio = u, !.speaking = v] \in PanelStates
  BY <1>2, <1>3, <1>4 DEF PanelStates
<1>9. LET n == [a EXCEPT !.listed = l, !.connected = c, !.audio = u, !.speaking = v]
      IN  /\ n.generation = a.generation /\ n.lastConnection = a.lastConnection
          /\ n.shown = a.shown /\ n.seen = a.seen
          /\ n.listed = l /\ n.connected = c /\ n.audio = u /\ n.speaking = v
  BY <1>4 DEF PanelStates
<1> QED
  BY <1>5, <1>6, <1>7, <1>8, <1>9 DEF a, c, u, v, l

(* The panel after a remote event, and who was missed. *)
AfterRemote(m, e) ==
    CASE News(m, e) = {} -> m
      [] News(m, e) # {} /\ (m.directory /\ e.who \notin m.listed) -> Advanced(m, e)
      [] OTHER -> Shown(m, e)
MissedAfter(m, e, gone) == gone \cup (IF m.directory /\ e.who \notin m.listed THEN {e.who} ELSE {})

\* A facet that is kept as a set of participants and scopes.
LEMMA FacetChanged ==
    ASSUME NEW m \in PanelStates, NEW h \in SUBSET PanelEvents, NEW e \in RemoteEvents,
           e.number # 0, \A d \in h : d.number # e.number, SeenIn(m, h),
           NEW f \in Facets, NEW gone, NEW set \in SUBSET (Others \X PanelScopes),
           FacetIn(set, f, m.listed, h, gone)
    PROVE  /\ News(m, e) = {} => FacetIn(set, f, m.listed, h \cup {e}, gone)
           /\ e.who \notin m.listed => FacetIn(set, f, m.listed, h \cup {e}, gone \cup {e.who})
           /\ FacetIn(IF f \in News(m, e) THEN Changed(set, e) ELSE set, f,
                      m.listed \cup {e.who}, h \cup {e}, gone)
<1>1. \A p \in Others, scope \in PanelScopes :
        LastIn(h \cup {e}, f, p, scope) <=>
            IF f \in News(m, e) /\ p = e.who /\ scope = e.scope THEN Sets(e.kind)
            ELSE LastIn(h, f, p, scope)
  BY SeenAfter
<1>2. e.who \in Others /\ e.scope \in PanelScopes
  BY DEF RemoteEvents
<1>3. News(m, e) = {} => FacetIn(set, f, m.listed, h \cup {e}, gone)
  BY <1>1 DEF FacetIn
<1>4. e.who \notin m.listed => FacetIn(set, f, m.listed, h \cup {e}, gone \cup {e.who})
  BY <1>1 DEF FacetIn
<1>5. ASSUME NEW p \in Others, NEW scope \in PanelScopes
      PROVE  <<p, scope>> \in Changed(set, e) <=>
                IF p = e.who /\ scope = e.scope THEN Sets(e.kind) ELSE <<p, scope>> \in set
  BY DEF Changed
<1>6. FacetIn(IF f \in News(m, e) THEN Changed(set, e) ELSE set, f,
              m.listed \cup {e.who}, h \cup {e}, gone)
  BY <1>1, <1>2, <1>5 DEF FacetIn
<1> QED
  BY <1>3, <1>4, <1>6

\* A remote event of the panel's generation.
LEMMA RemoteHandled ==
    ASSUME NEW m \in PanelStates, NEW h \in SUBSET PanelEvents, NEW e \in RemoteEvents,
           e.number # 0, \A d \in h : d.number # e.number, NEW gone, Shows(m, h, gone)
    PROVE  /\ AfterRemote(m, e) \in PanelStates
           /\ AfterRemote(m, e).generation = m.generation
           /\ Shows(AfterRemote(m, e), h \cup {e}, MissedAfter(m, e, gone))
<1> USE DEF Shows
<1> DEFINE g == MissedAfter(m, e, gone)
           H == h \cup {e}
<1>1. /\ FacetIn(m.connected, "connected", m.listed, h, gone)
      /\ FacetIn(m.audio, "audio", m.listed, h, gone)
      /\ {"connected", "audio", "speaking"} \subseteq Facets
      /\ m.connected \in SUBSET (Others \X PanelScopes)
      /\ m.audio \in SUBSET (Others \X PanelScopes)
      /\ m.speaking \in [Others -> PanelScopes \cup {"none"}]
      /\ e.who \in Others /\ e.scope \in PanelScopes
  BY DEF Facets, PanelStates, RemoteEvents
<1>2. \A n : ConnectionIn(n, H) <=> ConnectionIn(n, h)
  <2>1. Connections(H) = Connections(h)
    BY EventTouches DEF Connections
  <2> QED
    BY <2>1 DEF ConnectionIn
<1>3. /\ SeenIn(Advanced(m, e), H)
      /\ News(m, e) = {} => SeenIn(m, H)
      /\ \A p \in Others, scope \in PanelScopes :
            LastIn(H, "speaking", p, scope) <=>
                IF "speaking" \in News(m, e) /\ p = e.who /\ scope = e.scope THEN Sets(e.kind)
                ELSE LastIn(h, "speaking", p, scope)
  BY <1>1, SeenAfter
<1>4. ASSUME NEW set, NEW f, NEW listed, FacetIn(set, f, listed, H, gone)
      PROVE  FacetIn(set, f, listed, H, g)
  BY <1>4 DEF FacetIn, MissedAfter
<1>5. CASE News(m, e) = {}
  <2>1. AfterRemote(m, e) = m
    BY <1>5 DEF AfterRemote
  <2>2. /\ FacetIn(m.connected, "connected", m.listed, H, g)
        /\ FacetIn(m.audio, "audio", m.listed, H, g)
    BY <1>1, <1>4, <1>5, FacetChanged
  <2>3. SpeakingIn(m, H)
    BY <1>1, <1>3, <1>5 DEF SpeakingIn
  <2> QED
    BY <1>2, <1>3, <1>5, <2>1, <2>2, <2>3
<1>6. CASE News(m, e) # {} /\ m.directory /\ e.who \notin m.listed
  <2> DEFINE n == Advanced(m, e)
  <2>1. AfterRemote(m, e) = n /\ g = gone \cup {e.who}
    BY <1>6 DEF AfterRemote, MissedAfter
  <2>2. /\ n \in PanelStates /\ n.generation = m.generation /\ n.listed = m.listed
        /\ n.connected = m.connected /\ n.audio = m.audio /\ n.speaking = m.speaking
        /\ n.lastConnection = m.lastConnection /\ n.shown = m.shown
    <3>1. n \in PanelStates /\ n = [m EXCEPT !.seen = n.seen]
      BY AdvancedSeen
    <3> HIDE DEF n
    <3> QED
      BY <3>1 DEF PanelStates
  <2> HIDE DEF n
  <2>3. /\ FacetIn(n.connected, "connected", n.listed, H, g)
        /\ FacetIn(n.audio, "audio", n.listed, H, g)
    <3>1. /\ FacetIn(m.connected, "connected", m.listed, H, gone \cup {e.who})
          /\ FacetIn(m.audio, "audio", m.listed, H, gone \cup {e.who})
      BY <1>1, <1>6, FacetChanged
    <3> QED
      BY <2>1, <2>2, <3>1
  <2>4. SpeakingIn(n, H)
    BY <1>1, <1>3, <1>6, <2>2 DEF SpeakingIn
  <2>5. ConnectionIn(n, H)
    BY <1>2, <2>2 DEF ConnectionIn
  <2> QED
    BY <1>3, <2>1, <2>2, <2>3, <2>4, <2>5 DEF n
<1>7. CASE News(m, e) # {} /\ ~(m.directory /\ e.who \notin m.listed)
  <2> DEFINE n == Shown(m, e)
  <2>1. AfterRemote(m, e) = n /\ g = gone
    BY <1>7 DEF AfterRemote, MissedAfter
  <2>2. /\ n \in PanelStates /\ n.generation = m.generation
        /\ n.lastConnection = m.lastConnection /\ n.shown = m.shown
        /\ n.seen = Advanced(m, e).seen
        /\ n.listed = m.listed \cup {e.who}
        /\ n.connected = IF "connected" \in News(m, e) THEN Changed(m.connected, e)
                         ELSE m.connected
        /\ n.audio = IF "audio" \in News(m, e) THEN Changed(m.audio, e) ELSE m.audio
        /\ n.speaking = IF "speaking" \in News(m, e)
                        THEN [m.speaking EXCEPT ![e.who] = SpeakingAfter(m, e)] ELSE m.speaking
    BY ShownFields
  <2> HIDE DEF n
  <2>3. /\ FacetIn(n.connected, "connected", n.listed, H, g)
        /\ FacetIn(n.audio, "audio", n.listed, H, g)
    <3>1. FacetIn(IF "connected" \in News(m, e) THEN Changed(m.connected, e) ELSE m.connected,
                  "connected", m.listed \cup {e.who}, H, gone)
      BY <1>1, FacetChanged
    <3>2. FacetIn(IF "audio" \in News(m, e) THEN Changed(m.audio, e) ELSE m.audio,
                  "audio", m.listed \cup {e.who}, H, gone)
      BY <1>1, FacetChanged
    <3> QED
      BY <2>1, <2>2, <3>1, <3>2
  <2>4. SpeakingIn(n, H)
    <3> SUFFICES ASSUME NEW p \in Others, n.speaking[p] # "none"
                 PROVE  p \in n.listed /\ LastIn(H, "speaking", p, n.speaking[p])
      BY DEF SpeakingIn
    <3>1. CASE "speaking" \in News(m, e) /\ p = e.who
      <4>1. n.speaking[p] = SpeakingAfter(m, e)
        BY <1>1, <2>2, <3>1
      <4>2. CASE Sets(e.kind)
        BY <1>1, <1>3, <2>2, <3>1, <4>1, <4>2 DEF SpeakingAfter
      <4>3. CASE ~Sets(e.kind)
        <5>1. n.speaking[p] = m.speaking[p] /\ m.speaking[p] # e.scope
          BY <3>1, <4>1, <4>3 DEF SpeakingAfter
        <5> QED
          BY <1>1, <1>3, <2>2, <5>1 DEF SpeakingIn
      <4> QED
        BY <4>2, <4>3
    <3>2. CASE ~("speaking" \in News(m, e) /\ p = e.who)
      <4>1. n.speaking[p] = m.speaking[p]
        BY <1>1, <2>2, <3>2
      <4> QED
        BY <1>1, <1>3, <2>2, <3>2, <4>1 DEF SpeakingIn
    <3> QED
      BY <3>1, <3>2
  <2>5. SeenIn(n, H) /\ ConnectionIn(n, H)
    BY <1>2, <1>3, <2>2 DEF ConnectionIn, SeenIn
  <2> QED
    BY <2>1, <2>2, <2>3, <2>4, <2>5
<1> QED
  BY <1>5, <1>6, <1>7

(* The panel after a connection event. *)
AfterConnection(m, e) ==
    IF e.number <= m.lastConnection THEN m
    ELSE [m EXCEPT !.lastConnection = e.number, !.shown = e.state]

\* A connection event of the panel's generation.
LEMMA ConnectionHandled ==
    ASSUME NEW m \in PanelStates, NEW h \in SUBSET PanelEvents, NEW e \in ConnectionEvents,
           e.number # 0, \A d \in h : d.number # e.number, NEW gone, Shows(m, h, gone)
    PROVE  /\ AfterConnection(m, e) \in PanelStates
           /\ AfterConnection(m, e).generation = m.generation
           /\ Shows(AfterConnection(m, e), h \cup {e}, gone)
<1> DEFINE n == AfterConnection(m, e)
           H == h \cup {e}
<1>1. /\ n \in PanelStates /\ n.generation = m.generation /\ n.seen = m.seen
      /\ n.listed = m.listed /\ n.connected = m.connected /\ n.audio = m.audio
      /\ n.speaking = m.speaking
  BY DEF AfterConnection, PanelStates, ConnectionEvents
<1>2. /\ n.lastConnection = IF e.number <= m.lastConnection THEN m.lastConnection ELSE e.number
      /\ n.shown = IF e.number <= m.lastConnection THEN m.shown ELSE e.state
  BY DEF AfterConnection, PanelStates
<1>3. e.kind = "connection" /\ e.number \in Nat /\ m.lastConnection \in Nat
  BY DEF ConnectionEvents, PanelStates
<1>4. /\ \A f, p, scope : AboutIn(H, f, p, scope) = AboutIn(h, f, p, scope)
      /\ Connections(H) = Connections(h) \cup {e}
  BY <1>3 DEF AboutIn, Connections
<1>5. \A f, p, scope : LastIn(H, f, p, scope) <=> LastIn(h, f, p, scope)
  BY <1>4 DEF LastIn
<1> HIDE DEF n
<1>6. ConnectionIn(n, H)
  <2>1. \A d \in Connections(h) : d.number \in Nat /\ d.number # e.number
    BY DEF Connections, PanelEvents, RemoteEvents, ConnectionEvents
  <2>2. ConnectionIn(m, h)
    BY DEF Shows
  <2> HIDE DEF H
  <2> QED
    BY <1>2, <1>3, <1>4, <2>1, <2>2 DEF ConnectionIn, NewestOf
<1>7. SeenIn(n, H) /\ SpeakingIn(n, H)
  BY <1>1, <1>4, <1>5 DEF Shows, SeenIn, SpeakingIn
<1>8. /\ FacetIn(n.connected, "connected", n.listed, H, gone)
      /\ FacetIn(n.audio, "audio", n.listed, H, gone)
  BY <1>1, <1>5 DEF Shows, FacetIn
<1> QED
  BY <1>1, <1>6, <1>7, <1>8 DEF Shows, n

\* An event that is handled, or of an older generation, is no longer on its way.
LEMMA HandledOnce ==
    ASSUME PanelInv, NEW e \in flying, flying' = flying \ {e}, UNCHANGED <<voiceNow, selected>>,
           \/ UNCHANGED <<panel, heard, missed>>
           \/ /\ ~(e.generation < panel.generation)
              /\ panel' \in PanelStates /\ panel'.generation = e.generation
              /\ heard' = {e} \cup HeardBefore(e)
              /\ Shows(panel', heard', missed')
    PROVE  PanelInv'
<1>1. CASE UNCHANGED <<panel, heard, missed>>
  <2>1. PanelShape' /\ NumberedOnce'
    BY <1>1 DEF PanelInv, PanelShape, NumberedOnce
  <2>2. Shows(panel, heard, missed)'
    BY <1>1 DEF PanelInv
  <2> QED
    BY <2>1, <2>2 DEF PanelInv
<1>2. CASE /\ ~(e.generation < panel.generation)
           /\ panel' \in PanelStates /\ panel'.generation = e.generation
           /\ heard' = {e} \cup HeardBefore(e)
           /\ Shows(panel', heard', missed')
  <2>1. /\ HeardBefore(e) \in SUBSET PanelEvents
        /\ \A d \in HeardBefore(e) : d.generation = e.generation /\ d \in heard
    BY <1>2, Entered
  <2>2. PanelShape'
    BY <1>2, <2>1 DEF PanelInv, PanelShape
  <2>3. NumberedOnce'
    BY <1>2, <2>1 DEF PanelInv, NumberedOnce
  <2> QED
    BY <1>2, <2>2, <2>3 DEF PanelInv
<1> QED
  BY <1>1, <1>2

\* updateVoiceState keeps the invariant.
LEMMA StateUpdated ==
    ASSUME PanelInv, NEW e \in flying, UpdateVoiceState(e)
    PROVE  PanelInv'
<1> DEFINE m == Enter(panel, e)
<1>1. flying' = flying \ {e} /\ UNCHANGED <<voiceNow, selected>>
  BY DEF UpdateVoiceState
<1>2. CASE e.generation < panel.generation
  BY <1>1, <1>2, HandledOnce DEF UpdateVoiceState
<1>3. CASE ~(e.generation < panel.generation)
  <2>1. /\ panel' = AfterConnection(m, e)
        /\ heard' = {e} \cup HeardBefore(e)
        /\ missed' = MissedBefore(e)
    BY <1>3 DEF UpdateVoiceState, AfterConnection, HeardBefore, MissedBefore
  <2>2. e \in ConnectionEvents
    BY DEF UpdateVoiceState, PanelInv, PanelShape, PanelEvents, RemoteEvents, Kinds
  <2>3. /\ m \in PanelStates /\ m.generation = e.generation
        /\ HeardBefore(e) \in SUBSET PanelEvents
        /\ \A d \in HeardBefore(e) : d \in heard
        /\ Shows(m, HeardBefore(e), MissedBefore(e))
    BY <1>3, Entered
  <2>4. e.number # 0 /\ \A d \in HeardBefore(e) : d.number # e.number
    BY <2>3 DEF PanelInv, PanelShape, NumberedOnce
  <2> HIDE DEF m
  <2>5. /\ AfterConnection(m, e) \in PanelStates
        /\ AfterConnection(m, e).generation = m.generation
        /\ Shows(AfterConnection(m, e), HeardBefore(e) \cup {e}, MissedBefore(e))
    BY <2>2, <2>3, <2>4, ConnectionHandled
  <2>6. HeardBefore(e) \cup {e} = heard'
    BY <2>1
  <2>7. Shows(panel', heard', missed')
    BY <2>1, <2>5, <2>6
  <2> QED
    BY <1>1, <1>3, <2>1, <2>3, <2>5, <2>7, HandledOnce
<1> QED
  BY <1>2, <1>3

\* applyVoiceRemoteEvent keeps the invariant.
LEMMA RemoteApplied ==
    ASSUME PanelInv, NEW e \in flying, ApplyVoiceRemoteEvent(e)
    PROVE  PanelInv'
<1> DEFINE m == Enter(panel, e)
<1>1. flying' = flying \ {e} /\ UNCHANGED <<voiceNow, selected>>
  BY DEF ApplyVoiceRemoteEvent
<1>2. CASE e.generation < panel.generation
  BY <1>1, <1>2, HandledOnce DEF ApplyVoiceRemoteEvent
<1>3. CASE ~(e.generation < panel.generation)
  <2>1. /\ panel' = AfterRemote(m, e)
        /\ heard' = {e} \cup HeardBefore(e)
        /\ missed' = MissedAfter(m, e, MissedBefore(e))
    BY <1>3 DEF ApplyVoiceRemoteEvent, AfterRemote, MissedAfter, HeardBefore, MissedBefore
  <2>2. e \in RemoteEvents
    BY DEF ApplyVoiceRemoteEvent, PanelInv, PanelShape, PanelEvents, ConnectionEvents
  <2>3. /\ m \in PanelStates /\ m.generation = e.generation
        /\ HeardBefore(e) \in SUBSET PanelEvents
        /\ \A d \in HeardBefore(e) : d \in heard
        /\ Shows(m, HeardBefore(e), MissedBefore(e))
    BY <1>3, Entered
  <2>4. e.number # 0 /\ \A d \in HeardBefore(e) : d.number # e.number
    BY <2>3 DEF PanelInv, PanelShape, NumberedOnce
  <2> HIDE DEF m
  <2>5. /\ AfterRemote(m, e) \in PanelStates
        /\ AfterRemote(m, e).generation = m.generation
        /\ Shows(AfterRemote(m, e), HeardBefore(e) \cup {e},
                 MissedAfter(m, e, MissedBefore(e)))
    BY <2>2, <2>3, <2>4, RemoteHandled
  <2>6. HeardBefore(e) \cup {e} = heard'
    BY <2>1
  <2>7. Shows(panel', heard', missed')
    BY <2>1, <2>5, <2>6
  <2> QED
    BY <1>1, <1>3, <2>1, <2>3, <2>5, <2>7, HandledOnce
<1> QED
  BY <1>2, <1>3

\* A new event has a number nobody had.
LEMMA EventNumbered ==
    ASSUME PanelInv, MayNumber, NEW e \in PanelEvents, Numbered(e),
           voiceNow' \in [state : VoiceStates, generation : Nat, number : Nat],
           voiceNow'.number = voiceNow.number + 1, e.number = voiceNow'.number,
           UNCHANGED <<panel, selected, heard, missed>>
    PROVE  PanelInv'
<1>1. voiceNow.number \in 0..MaxNumber /\ voiceNow.number < MaxNumber
  BY DEF PanelInv, PanelShape, MayNumber
<1>2. voiceNow'.number \in 0..MaxNumber
  BY <1>1, PanelAssumption
<1>3. PanelShape'
  BY <1>2 DEF PanelInv, PanelShape, Numbered
<1>4. NumberedOnce'
  <2>1. \A d \in flying \cup heard : d.number \in 1..voiceNow.number
    BY DEF PanelInv, NumberedOnce
  <2>2. e \notin flying /\ e \notin heard
    BY <1>1, <2>1
  <2>3. \A d \in (flying \cup heard)' : d.number \in 1..voiceNow'.number
    BY <1>1, <2>1 DEF Numbered
  <2> QED
    BY <1>1, <2>1, <2>2, <2>3 DEF PanelInv, NumberedOnce, Numbered
<1>5. Shows(panel, heard, missed)'
  BY DEF PanelInv
<1> QED
  BY <1>3, <1>4, <1>5 DEF PanelInv

\* applyDirectory keeps the invariant: whoever it drops was heard or has nothing shown.
LEMMA DirectoryApplied ==
    ASSUME PanelInv, NEW listed \in SUBSET Others, ApplyDirectory(listed)
    PROVE  PanelInv'
<1> DEFINE c == {k \in panel.connected : k[1] \in listed}
           u == {k \in panel.audio : k[1] \in listed}
           v == [p \in Others |-> IF p \in listed THEN panel.speaking[p] ELSE "none"]
<1>1. panel \in PanelStates
  BY DEF PanelInv, PanelShape
<1>2. /\ c \in SUBSET (Others \X PanelScopes) /\ u \in SUBSET (Others \X PanelScopes)
      /\ v \in [Others -> PanelScopes \cup {"none"}]
  BY <1>1 DEF PanelStates
<1>3. panel' = [panel EXCEPT !.member = TRUE, !.directory = TRUE, !.listed = listed,
                             !.connected = c, !.audio = u, !.speaking = v]
  BY <1>1 DEF ApplyDirectory, PanelStates
<1>4. /\ \A p, scope : <<p, scope>> \in c <=> <<p, scope>> \in panel.connected /\ p \in listed
      /\ \A p, scope : <<p, scope>> \in u <=> <<p, scope>> \in panel.audio /\ p \in listed
      /\ \A p \in Others : v[p] = IF p \in listed THEN panel.speaking[p] ELSE "none"
  OBVIOUS
<1> HIDE DEF c, u, v
<1>5. /\ panel' \in PanelStates /\ panel'.generation = panel.generation
      /\ panel'.seen = panel.seen /\ panel'.lastConnection = panel.lastConnection
      /\ panel'.shown = panel.shown /\ panel'.listed = listed
      /\ panel'.connected = c /\ panel'.audio = u /\ panel'.speaking = v
  BY <1>1, <1>2, <1>3 DEF PanelStates
<1>6. /\ UNCHANGED <<voiceNow, flying, selected, heard>>
      /\ missed' = missed \cup
            {p \in Others \ listed : \E e \in heard : e.kind # "connection" /\ e.who = p}
  BY DEF ApplyDirectory
<1>7. PanelShape' /\ NumberedOnce'
  BY <1>5, <1>6 DEF PanelInv, PanelShape, NumberedOnce
<1>8. SeenIn(panel, heard)' /\ ConnectionIn(panel, heard)'
  BY <1>5, <1>6 DEF PanelInv, Shows, SeenIn, ConnectionIn
<1>9. \A f, scope : \A p \in Others \ listed : LastIn(heard, f, p, scope) => p \in missed'
  BY <1>6 DEF LastIn, AboutIn
<1>10. /\ FacetIn(panel.connected, "connected", panel.listed, heard, missed)'
       /\ FacetIn(panel.audio, "audio", panel.listed, heard, missed)'
  <2>1. /\ FacetIn(panel.connected, "connected", panel.listed, heard, missed)
        /\ FacetIn(panel.audio, "audio", panel.listed, heard, missed)
    BY DEF PanelInv, Shows
  <2>2. FacetIn(c, "connected", listed, heard, missed')
    BY <1>4, <1>6, <1>9, <2>1 DEF FacetIn
  <2>3. FacetIn(u, "audio", listed, heard, missed')
    BY <1>4, <1>6, <1>9, <2>1 DEF FacetIn
  <2> QED
    BY <1>5, <1>6, <2>2, <2>3
<1>11. SpeakingIn(panel, heard)'
  BY <1>4, <1>5, <1>6 DEF PanelInv, Shows, SpeakingIn
<1> QED
  BY <1>7, <1>8, <1>10, <1>11 DEF PanelInv, Shows

\* A change of the group forgets everything that was heard of participants.
LEMMA GroupForgotten == PanelInv /\ GroupChanged => PanelInv'
<1> SUFFICES ASSUME PanelInv, GroupChanged PROVE PanelInv'
  OBVIOUS
<1> DEFINE quiet == [p \in Others |-> "none"]
<1>1. panel \in PanelStates
  BY DEF PanelInv, PanelShape
<1>2. NoSequences \in [Facets -> [Others \X PanelScopes -> Nat]]
  BY DEF NoSequences
<1>3. quiet \in [Others -> PanelScopes \cup {"none"}] /\ \A p \in Others : quiet[p] = "none"
  OBVIOUS
<1>4. panel' = [panel EXCEPT !.connected = {}, !.audio = {}, !.speaking = quiet,
                             !.directory = FALSE, !.listed = {}, !.seen = NoSequences]
  BY <1>1 DEF GroupChanged, Cleared, PanelStates
<1> HIDE DEF quiet
<1>5. /\ panel' \in PanelStates /\ panel'.generation = panel.generation
      /\ panel'.seen = NoSequences /\ panel'.lastConnection = panel.lastConnection
      /\ panel'.shown = panel.shown /\ panel'.connected = {} /\ panel'.audio = {}
      /\ panel'.speaking = quiet
  BY <1>1, <1>2, <1>3, <1>4 DEF PanelStates
<1>6. /\ UNCHANGED <<voiceNow, flying>> /\ selected' = "team"
      /\ heard' = {e \in heard : e.kind = "connection"}
  BY DEF GroupChanged
<1>7. PanelShape' /\ NumberedOnce'
  BY <1>5, <1>6, PanelAssumption DEF PanelInv, PanelShape, NumberedOnce
<1>8. \A f, p, scope : AboutIn(heard', f, p, scope) = {} /\ ~LastIn(heard', f, p, scope)
  BY <1>6 DEF AboutIn, LastIn
<1>9. SeenIn(panel', heard')
  <2>1. \A f \in Facets, k \in Others \X PanelScopes : panel'.seen[f][k] = 0
    BY <1>5 DEF NoSequences
  <2> QED
    BY <1>8, <2>1 DEF SeenIn, NewestOf
<1>10. ConnectionIn(panel', heard')
  <2>1. Connections(heard') = Connections(heard)
    BY <1>6 DEF Connections
  <2> QED
    BY <1>5, <2>1 DEF PanelInv, Shows, ConnectionIn
<1>11. /\ FacetIn(panel'.connected, "connected", panel'.listed, heard', missed')
       /\ FacetIn(panel'.audio, "audio", panel'.listed, heard', missed')
       /\ SpeakingIn(panel', heard')
  BY <1>3, <1>5, <1>8 DEF FacetIn, SpeakingIn
<1> QED
  BY <1>7, <1>9, <1>10, <1>11 DEF PanelInv, Shows

\* Every step keeps the invariant.
LEMMA StepPanel == PanelInv /\ [PanelNext]_panelVars => PanelInv'
<1> SUFFICES ASSUME PanelInv, [PanelNext]_panelVars PROVE PanelInv'
  OBVIOUS
<1>0. voiceNow \in [state : VoiceStates, generation : Nat, number : 0..MaxNumber]
  BY DEF PanelInv, PanelShape
<1>1. ASSUME NEW s \in VoiceStates, OnTransportStateChanged(s) PROVE PanelInv'
  <2> DEFINE e == [kind |-> "connection", state |-> s,
                   number |-> voiceNow'.number, generation |-> voiceNow'.generation]
  <2>1. /\ voiceNow' \in [state : VoiceStates, generation : Nat, number : Nat]
        /\ voiceNow'.number = voiceNow.number + 1
    BY <1>0, <1>1, PanelAssumption DEF OnTransportStateChanged
  <2>2. e \in PanelEvents /\ e.number = voiceNow'.number
    BY <2>1 DEF PanelEvents, ConnectionEvents
  <2>3. MayNumber /\ Numbered(e) /\ UNCHANGED <<panel, selected, heard, missed>>
    BY <1>1 DEF OnTransportStateChanged
  <2> HIDE DEF e
  <2> QED
    BY <2>1, <2>2, <2>3, EventNumbered
<1>2. ASSUME NEW kind \in Kinds, NEW p \in Others, NEW scope \in PanelScopes,
             EmitRemoteEvent(kind, p, scope)
      PROVE  PanelInv'
  <2> DEFINE e == [kind |-> kind, who |-> p, scope |-> scope,
                   number |-> voiceNow'.number, generation |-> voiceNow.generation]
  <2>1. /\ voiceNow' \in [state : VoiceStates, generation : Nat, number : Nat]
        /\ voiceNow'.number = voiceNow.number + 1
    BY <1>0, <1>2, PanelAssumption DEF EmitRemoteEvent
  <2>2. e \in PanelEvents /\ e.number = voiceNow'.number
    BY <1>0, <2>1 DEF PanelEvents, RemoteEvents
  <2>3. MayNumber /\ Numbered(e) /\ UNCHANGED <<panel, selected, heard, missed>>
    BY <1>2 DEF EmitRemoteEvent
  <2> HIDE DEF e
  <2> QED
    BY <2>1, <2>2, <2>3, EventNumbered
<1>3. ASSUME NEW e \in flying, UpdateVoiceState(e) \/ ApplyVoiceRemoteEvent(e) PROVE PanelInv'
  BY <1>3, StateUpdated, RemoteApplied
<1>4. ASSUME NEW listed \in SUBSET Others, ApplyDirectory(listed) PROVE PanelInv'
  BY <1>4, DirectoryApplied
<1>5. CASE GroupChanged
  BY <1>5, GroupForgotten
<1>6. ASSUME UNCHANGED <<voiceNow, flying, panel, heard, missed>>, selected' \in PanelScopes
      PROVE  PanelInv'
  <2>1. PanelShape' /\ NumberedOnce'
    BY <1>6 DEF PanelInv, PanelShape, NumberedOnce
  <2>2. Shows(panel, heard, missed)'
    BY <1>6 DEF PanelInv
  <2> QED
    BY <2>1, <2>2 DEF PanelInv
<1>7. CASE MembershipUpdated
  BY <1>6, <1>7, PanelAssumption DEF MembershipUpdated
<1>8. ASSUME NEW scope \in PanelScopes, SelectChannel(scope) PROVE PanelInv'
  BY <1>6, <1>8 DEF SelectChannel
<1>9. CASE UNCHANGED panelVars
  BY <1>6, <1>9 DEF panelVars, PanelInv, PanelShape
<1> QED
  BY <1>1, <1>2, <1>3, <1>4, <1>5, <1>7, <1>8, <1>9 DEF PanelNext

\* The panel's events, sequences and sets keep their types (VoiceClient::emitRemoteEvent,
\* DesktopModel), whatever the number of participants and scopes.
THEOREM PanelTypeCorrect == PanelSpec => []PanelTypeOK
<1>1. PanelInv => PanelTypeOK
  <2> SUFFICES ASSUME PanelInv PROVE PanelTypeOK
    OBVIOUS
  <2>1. panel \in PanelStates
    BY DEF PanelInv, PanelShape
  <2>2. panel.connected \subseteq panel.listed \X PanelScopes
    BY <2>1 DEF PanelInv, Shows, FacetIn, PanelStates
  <2>3. panel.audio \subseteq panel.listed \X PanelScopes
    BY <2>1 DEF PanelInv, Shows, FacetIn, PanelStates
  <2> QED
    BY <2>1, <2>2, <2>3 DEF PanelInv, PanelShape, PanelTypeOK, PanelStates
<1> QED
  BY <1>1, InitPanel, StepPanel, PTL DEF PanelSpec

\* In whatever order the callback threads report their events, the window shows what
\* the newest event heard says (DesktopModel::applyVoiceRemoteEvent, updateVoiceState).
THEOREM PanelShowsNewest == PanelSpec => []ShownIsNewest
<1>1. PanelInv => ShownIsNewest
  <2> SUFFICES ASSUME PanelInv PROVE ShownIsNewest
    OBVIOUS
  <2>1. \A f, p, scope : LastSays(f, p, scope) <=> LastIn(heard, f, p, scope)
    BY DEF LastSays, LastIn, About, AboutIn
  <2>2. /\ panel.listed \subseteq Others /\ selected \in PanelScopes
        /\ panel.lastConnection \in Nat
    BY DEF PanelInv, PanelShape, PanelStates
  <2>3. \A p \in panel.listed, scope \in PanelScopes :
           /\ <<p, scope>> \in panel.connected => LastSays("connected", p, scope)
           /\ <<p, scope>> \in panel.audio => LastSays("audio", p, scope)
           /\ p \notin missed /\ LastSays("connected", p, scope) => <<p, scope>> \in panel.connected
           /\ p \notin missed /\ LastSays("audio", p, scope) => <<p, scope>> \in panel.audio
    BY <2>1, <2>2 DEF PanelInv, Shows, FacetIn
  <2>4. \A p \in Rows : panel.speaking[p] # "none" /\ LastSays("speaking", p, selected)
    BY <2>1, <2>2, PanelAssumption DEF PanelInv, Shows, SpeakingIn, Rows
  <2>5. (ParticipantCount > 1) => Receiving
    <3>1. Rows = {} => ParticipantCount = 1
      BY FS_EmptySet DEF ParticipantCount
    <3> QED
      BY <2>4, <3>1 DEF Receiving, Rows
  <2>6. ASSUME NEW e \in Connections(heard), \A d \in Connections(heard) : d.number <= e.number
        PROVE  panel.shown = e.state
    <3>1. \A d \in Connections(heard) : d.number \in Nat \ {0}
      BY DEF Connections, PanelInv, PanelShape, PanelEvents, RemoteEvents, ConnectionEvents,
             NumberedOnce
    <3> QED
      BY <2>2, <2>6, <3>1 DEF PanelInv, Shows, ConnectionIn, NewestOf
  <2> QED
    BY <2>3, <2>4, <2>5, <2>6 DEF ShownIsNewest, Connections
<1> QED
  BY <1>1, InitPanel, StepPanel, PTL DEF PanelSpec
=============================================================================
