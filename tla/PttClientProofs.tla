-------------------------- MODULE PttClientProofs --------------------------
(***************************************************************************)
(* What holds of push-to-talk in the client for every number of input      *)
(* threads, presses, lost connections and lost answers: who owns the       *)
(* publication and the microphone at each place of the three layers.       *)
(***************************************************************************)
EXTENDS PttClient, FiniteSetTheorems, TLAPS

VoicePressing == {"v_mic", "v_published", "v_activate", "v_cancel", "v_unpublish", "v_settle"}
VoiceReleasing == {"vr_enter", "vr_wait", "vr_stop", "vr_unpublish", "vr_settle"}
Pressing ==
    VoicePressing \cup {"p_start", "p_adopt", "v_press", "p_voice_done", "p_activate", "p_end",
                        "p_settle"}
CleaningUp ==
    {"d_interrupted", "d_voice", "d_released", "d_unpublish", "d_store", "d_leave", "d_finish", "f_connect",
     "f_finish"}

(* A thread is at one of places, or in VoiceClient::releasePushToTalk on its way
   to one of returns. *)
Within(t, places, returns) ==
    pc[t] \in places \/ (pc[t] \in VoiceReleasing /\ ret[t] \in returns)

(* The thread that has to bring the publication from starting or stopping to
   active or idle: the press, or the release that found it active. *)
OwnsPublication(t) == Within(t, Pressing \cup {"r_end", "r_settle"}, {"p_end", "r_end"})

(* A disconnect or refresh in the release it made for itself, and after it. *)
Cancels(t) ==
    /\ Within(t, {"r_enter", "r_wait", "r_end", "r_settle"}, {"r_wait", "r_end"})
    /\ op[t] # "release"
CleansUp(t) == Within(t, CleaningUp, {"d_released"})

(* The voice release returns to whoever called it. *)
ReturnsOK ==
    \A t \in Threads :
        pc[t] \in VoiceReleasing => ret[t] \in {"p_end", "r_end", "r_wait", "d_released"}

(* While a control thread cancels or cleans up, presses are disabled, so the
   generation it waits for stays and what it found idle stays idle. *)
ControlOK ==
    \A t \in Threads :
        /\ pc[t] \in {"f_server", "d_enter"} => t \in ControlThreads
        /\ Cancels(t) => /\ t \in ControlThreads /\ ~enabled
                         /\ pc[t] # "r_enter" => myGen[t] = gen
        /\ CleansUp(t) => t \in ControlThreads /\ ~enabled /\ pub = "idle"

(* One thread owns the publication while it starts or stops. *)
OwnerOK ==
    /\ \A t \in Threads : OwnsPublication(t) => pub \in {"starting", "stopping"} /\ myGen[t] = gen
    /\ \A t, u \in Threads : OwnsPublication(t) /\ OwnsPublication(u) => t = u

(* The voice client starts at most once in a generation. *)
StartOK ==
    /\ voiceStart => \E t \in Threads : pc[t] \in VoicePressing \cup {"v_press", "p_voice_done"}
    /\ vgen <= gen
    /\ \A t \in Threads : pc[t] \in {"p_start", "p_adopt", "v_press"} => vgen < gen

(* What the threads know of the transmissions: ids are never ahead of the
   generation, the owner works for the transmission the client holds, and only
   an owner that has just ended it holds one whose end is confirmed. *)
LedgerOK ==
    /\ \A i \in live \cup unanswered \cup confirmed \cup {txn} : i <= gen
    /\ pub = "active" => txn # NoId
    /\ \A t \in Threads :
        /\ pc[t] = "p_start" => txn = NoId /\ gen \notin live \cup unanswered \cup confirmed
        /\ pc[t] = "p_adopt" => txn = NoId /\ id[t] = gen /\ gen \notin unanswered \cup confirmed
        /\ OwnsPublication(t) /\ pc[t] \notin {"p_start", "p_adopt"} => txn # NoId /\ id[t] = txn
        /\ pc[t] \in {"p_settle", "r_settle"} =>
                IF endOk[t] THEN txn \notin live ELSE txn \notin confirmed
    /\ txn \in confirmed => \E t \in Threads : pc[t] \in {"p_settle", "r_settle"}

(* One thread owns the voice client's publication while it starts or stops, and
   the owner of the publication waits for the voice generation it started. *)
OwnsVoice(t) == pc[t] \in VoicePressing \cup {"vr_stop", "vr_unpublish", "vr_settle"}

VoiceOwnerOK ==
    /\ \A t \in Threads : OwnsVoice(t) => vpub \in {"starting", "stopping"} /\ myVgen[t] = vgen
    /\ \A t, u \in Threads : OwnsVoice(t) /\ OwnsVoice(u) => t = u
    /\ \A t \in Threads : OwnsPublication(t) /\ pc[t] = "vr_wait" => myVgen[t] = vgen

(* The voice client publishes only for the publication above it. *)
Speaks(t) ==
    \/ Within(t, VoicePressing \cup {"p_activate"}, {"p_end", "r_end"})
    \/ pc[t] = "p_voice_done" /\ vres[t] = "ok"

CoveredOK == vpub # "idle" => pub = "active" \/ \E t \in Threads : Speaks(t)

(* While the connection holds, the microphone is on only for the voice client's
   publication or in the hands of the thread that starts or stops it. *)
HandlesMicrophone(t) == pc[t] \in {"v_published", "v_activate", "v_cancel", "vr_stop"}

MicrophoneOK ==
    drops = 0 =>
        /\ cb = "idle" /\ tstate # "reconnecting"
        /\ mic \in {"starting", "active"} =>
                vpub = "active" \/ \E t \in Threads : HandlesMicrophone(t)
        /\ mic = "starting" => \E t \in Threads : pc[t] = "v_published"

-----------------------------------------------------------------------------
\* What the client knows after it has called the end endpoint: no transmission is new,
\* and if the call succeeded the transmission is gone and its end is confirmed.
LEMMA EndCallEffect ==
    ASSUME NEW i, NEW ok \in BOOLEAN, EndCall(i, ok)
    PROVE  /\ live' \subseteq live
           /\ unanswered' = unanswered
           /\ confirmed' = IF ok THEN confirmed \cup {i} ELSE confirmed
           /\ ok => i \notin live'
  BY DEF EndCall

\* VoiceClient::releasePushToTalk returns to the press, release or disconnect that called it.
LEMMA StepReturns == TypeOK /\ ReturnsOK /\ [Next]_vars => ReturnsOK'
<1> SUFFICES ASSUME TypeOK, ReturnsOK, [Next]_vars PROVE ReturnsOK'
  OBVIOUS
<1> USE DEF TypeOK, ReturnsOK, AuthorizedTypeOK, VoiceTypeOK, RoomTypeOK, ServerTypeOK,
            ThreadTypeOK, VoiceReleasing, At, Goto, Done, avcVars, vcVars, roomVars,
            callbackVars, serverVars, localVars, NoId, Ids, Threads, PCs
<1>1. ASSUME NEW t \in InputThreads, InputCall(t) PROVE ReturnsOK'
  BY <1>1 DEF InputCall, Press, Release, MayPress
<1>2. ASSUME NEW t \in ControlThreads, ControlCall(t) PROVE ReturnsOK'
  BY <1>2 DEF ControlCall, Connect, Refresh, Disconnect, VoiceConnect, TransportConnect
<1>3. ASSUME NEW t \in Threads, PressStep(t) PROVE ReturnsOK'
  BY <1>3 DEF PressStep, PressStarted, PressRefused, PressAdopt, PressVoiceDone, PressActivate,
              PressEnd, PressSettle, NotifyAll, Adopts, VoiceStartOver, EndCall, KeptAfterEnd
<1>4. ASSUME NEW t \in Threads, VoicePressStep(t) PROVE ReturnsOK'
  BY <1>4 DEF VoicePressStep, VoicePress, StartMicrophone, MicrophoneReturns, VoiceActivate,
              VoiceCancel, VoiceUnpublish, VoiceSettle, MayActivate, VoiceNotifyAll,
              MustUnpublish, BeginStop, FinishStop
<1>5. ASSUME NEW t \in Threads, ReleaseStep(t) PROVE ReturnsOK'
  BY <1>5 DEF ReleaseStep, ReleaseEnter, ReleaseWait, ReleaseEnd, ReleaseSettle, ReleaseReturns,
              StopsFrom, Sleep, EndCall, KeptAfterEnd, NotifyAll
<1>6. ASSUME NEW t \in Threads, VoiceReleaseStep(t) PROVE ReturnsOK'
  BY <1>6 DEF VoiceReleaseStep, VoiceReleaseEnter, VoiceReleaseWait, VoiceReleaseStop,
              VoiceReleaseUnpublish, VoiceReleaseSettle, BeginStop, FinishStop, VoiceNotifyAll
<1>7. ASSUME NEW t \in Threads, DisconnectStep(t) PROVE ReturnsOK'
  BY <1>7 DEF DisconnectStep, RefreshAnswer, DisableAndRelease, EndInterrupted, VoiceDisconnect,
              TransportDisconnect, TransportUnpublish, TransportStore, TransportLeave,
              FinishDisconnect, RefreshConnect, RefreshFinish, EndCall, KeptAfterEnd, BeginStop, FinishStop,
              OnTransportStateChanged, VoiceConnect, VoiceNotifyAll, TransportConnect
<1>8. ASSUME Confirmed PROVE ReturnsOK'
  BY <1>8 DEF Confirmed
<1>9. ASSUME NEW s \in TransportStates, ConnectionDrops(s) PROVE ReturnsOK'
  BY <1>9 DEF ConnectionDrops
<1>10. ASSUME Reconnected PROVE ReturnsOK'
  BY <1>10 DEF Reconnected
<1>11. ASSUME CallbackStep PROVE ReturnsOK'
  BY <1>11 DEF CallbackStep, CallbackUnpublish, CallbackStore, CallbackNotify,
               OnTransportStateChanged, VoiceNotifyAll
<1>12. ASSUME NEW i \in Ids, ForcedEnd(i) PROVE ReturnsOK'
  BY <1>12 DEF ForcedEnd
<1>13. CASE UNCHANGED vars
  BY <1>13 DEF vars
<1> QED
  BY <1>1, <1>2, <1>3, <1>4, <1>5, <1>6, <1>7, <1>8, <1>9, <1>10, <1>11, <1>12, <1>13
     DEF Next, ThreadStep

\* Presses stay disabled from the moment a disconnect or refresh disables them to its end.
LEMMA StepControl == TypeOK /\ ReturnsOK /\ ControlOK /\ OwnerOK /\ [Next]_vars => ControlOK'
<1> SUFFICES ASSUME TypeOK, ReturnsOK, ControlOK, OwnerOK, [Next]_vars PROVE ControlOK'
  OBVIOUS
<1> USE SerialControlAssumption
        DEF TypeOK, ReturnsOK, ControlOK, OwnerOK, AuthorizedTypeOK, VoiceTypeOK, RoomTypeOK,
            ServerTypeOK, ThreadTypeOK, VoicePressing, VoiceReleasing, Pressing, Within,
            OwnsPublication, CleaningUp, Cancels, CleansUp, At, Goto, Done, avcVars, vcVars,
            roomVars, callbackVars, serverVars, localVars, NoId, Ids, Threads, PCs
<1>1. ASSUME NEW t \in InputThreads, InputCall(t) PROVE ControlOK'
  BY <1>1 DEF InputCall, Press, Release, MayPress
<1>2. ASSUME NEW t \in ControlThreads, ControlCall(t) PROVE ControlOK'
  BY <1>2 DEF ControlCall, Connect, Refresh, Disconnect, VoiceConnect, TransportConnect
<1>3. ASSUME NEW t \in Threads, PressStep(t) PROVE ControlOK'
  BY <1>3 DEF PressStep, PressStarted, PressRefused, PressAdopt, PressVoiceDone, PressActivate,
              PressEnd, PressSettle, NotifyAll, Adopts, VoiceStartOver, EndCall, KeptAfterEnd
<1>4. ASSUME NEW t \in Threads, VoicePressStep(t) PROVE ControlOK'
  BY <1>4 DEF VoicePressStep, VoicePress, StartMicrophone, MicrophoneReturns, VoiceActivate,
              VoiceCancel, VoiceUnpublish, VoiceSettle, MayActivate, VoiceNotifyAll,
              MustUnpublish, BeginStop, FinishStop
<1>5. ASSUME NEW t \in Threads, ReleaseStep(t) PROVE ControlOK'
  BY <1>5 DEF ReleaseStep, ReleaseEnter, ReleaseWait, ReleaseEnd, ReleaseSettle, ReleaseReturns,
              StopsFrom, Sleep, EndCall, KeptAfterEnd, NotifyAll
<1>6. ASSUME NEW t \in Threads, VoiceReleaseStep(t) PROVE ControlOK'
  BY <1>6 DEF VoiceReleaseStep, VoiceReleaseEnter, VoiceReleaseWait, VoiceReleaseStop,
              VoiceReleaseUnpublish, VoiceReleaseSettle, BeginStop, FinishStop, VoiceNotifyAll
<1>7. ASSUME NEW t \in Threads, DisconnectStep(t) PROVE ControlOK'
  BY <1>7 DEF DisconnectStep, RefreshAnswer, DisableAndRelease, EndInterrupted, VoiceDisconnect,
              TransportDisconnect, TransportUnpublish, TransportStore, TransportLeave,
              FinishDisconnect, RefreshConnect, RefreshFinish, EndCall, KeptAfterEnd, BeginStop, FinishStop,
              OnTransportStateChanged, VoiceConnect, VoiceNotifyAll, TransportConnect
<1>8. ASSUME Confirmed PROVE ControlOK'
  BY <1>8 DEF Confirmed
<1>9. ASSUME NEW s \in TransportStates, ConnectionDrops(s) PROVE ControlOK'
  BY <1>9 DEF ConnectionDrops
<1>10. ASSUME Reconnected PROVE ControlOK'
  BY <1>10 DEF Reconnected
<1>11. ASSUME CallbackStep PROVE ControlOK'
  BY <1>11 DEF CallbackStep, CallbackUnpublish, CallbackStore, CallbackNotify,
               OnTransportStateChanged, VoiceNotifyAll
<1>12. ASSUME NEW i \in Ids, ForcedEnd(i) PROVE ControlOK'
  BY <1>12 DEF ForcedEnd
<1>13. CASE UNCHANGED vars
  BY <1>13 DEF vars
<1> QED
  BY <1>1, <1>2, <1>3, <1>4, <1>5, <1>6, <1>7, <1>8, <1>9, <1>10, <1>11, <1>12, <1>13
     DEF Next, ThreadStep

\* A publication that starts or stops has one owner, whose generation is the current one.
LEMMA StepOwner ==
    TypeOK /\ ReturnsOK /\ ControlOK /\ OwnerOK /\ StartOK /\ LedgerOK /\ [Next]_vars =>
    OwnerOK'
<1> SUFFICES ASSUME TypeOK, ReturnsOK, ControlOK, OwnerOK, StartOK, LedgerOK, [Next]_vars PROVE
             OwnerOK'
  OBVIOUS
<1> USE DEF TypeOK, ReturnsOK, ControlOK, OwnerOK, StartOK, LedgerOK, AuthorizedTypeOK,
            VoiceTypeOK, RoomTypeOK, ServerTypeOK, ThreadTypeOK, VoicePressing, VoiceReleasing,
            Pressing, Within, OwnsPublication, CleaningUp, Cancels, CleansUp, At, Goto, Done,
            avcVars, vcVars, roomVars, callbackVars, serverVars, localVars, NoId, Ids, Threads,
            PCs
<1>1. ASSUME NEW t \in InputThreads, InputCall(t) PROVE OwnerOK'
  BY <1>1 DEF InputCall, Press, Release, MayPress
<1>2. ASSUME NEW t \in ControlThreads, ControlCall(t) PROVE OwnerOK'
  BY <1>2 DEF ControlCall, Connect, Refresh, Disconnect, VoiceConnect, TransportConnect
<1>3. ASSUME NEW t \in Threads, PressStep(t) PROVE OwnerOK'
  <2>1. CASE PressStarted(t)
    BY <2>1 DEF PressStarted
  <2>2. CASE PressRefused(t)
    BY <2>2 DEF PressRefused
  <2>3. CASE PressAdopt(t)
    BY <2>3 DEF PressAdopt, Adopts, NotifyAll
  <2>4. CASE PressVoiceDone(t)
    BY <2>4 DEF PressVoiceDone, VoiceStartOver
  <2>5. CASE PressActivate(t)
    BY <2>5 DEF PressActivate, VoiceStartOver, NotifyAll, KeptAfterEnd
  <2>6. CASE PressEnd(t)
    BY <2>6 DEF PressEnd, EndCall, KeptAfterEnd
  <2>7. CASE PressSettle(t)
    BY <2>7 DEF PressSettle, NotifyAll, KeptAfterEnd
  <2> QED
    BY <1>3, <2>1, <2>2, <2>3, <2>4, <2>5, <2>6, <2>7 DEF PressStep
<1>4. ASSUME NEW t \in Threads, VoicePressStep(t) PROVE OwnerOK'
  BY <1>4 DEF VoicePressStep, VoicePress, StartMicrophone, MicrophoneReturns, VoiceActivate,
              VoiceCancel, VoiceUnpublish, VoiceSettle, MayActivate, VoiceNotifyAll,
              MustUnpublish, BeginStop, FinishStop
<1>5. ASSUME NEW t \in Threads, ReleaseStep(t) PROVE OwnerOK'
  BY <1>5 DEF ReleaseStep, ReleaseEnter, ReleaseWait, ReleaseEnd, ReleaseSettle, ReleaseReturns,
              StopsFrom, Sleep, EndCall, KeptAfterEnd, NotifyAll
<1>6. ASSUME NEW t \in Threads, VoiceReleaseStep(t) PROVE OwnerOK'
  BY <1>6 DEF VoiceReleaseStep, VoiceReleaseEnter, VoiceReleaseWait, VoiceReleaseStop,
              VoiceReleaseUnpublish, VoiceReleaseSettle, BeginStop, FinishStop, VoiceNotifyAll
<1>7. ASSUME NEW t \in Threads, DisconnectStep(t) PROVE OwnerOK'
  BY <1>7 DEF DisconnectStep, RefreshAnswer, DisableAndRelease, EndInterrupted, VoiceDisconnect,
              TransportDisconnect, TransportUnpublish, TransportStore, TransportLeave,
              FinishDisconnect, RefreshConnect, RefreshFinish, EndCall, KeptAfterEnd, BeginStop, FinishStop,
              OnTransportStateChanged, VoiceConnect, VoiceNotifyAll, TransportConnect
<1>8. ASSUME Confirmed PROVE OwnerOK'
  BY <1>8 DEF Confirmed
<1>9. ASSUME NEW s \in TransportStates, ConnectionDrops(s) PROVE OwnerOK'
  BY <1>9 DEF ConnectionDrops
<1>10. ASSUME Reconnected PROVE OwnerOK'
  BY <1>10 DEF Reconnected
<1>11. ASSUME CallbackStep PROVE OwnerOK'
  BY <1>11 DEF CallbackStep, CallbackUnpublish, CallbackStore, CallbackNotify,
               OnTransportStateChanged, VoiceNotifyAll
<1>12. ASSUME NEW i \in Ids, ForcedEnd(i) PROVE OwnerOK'
  BY <1>12 DEF ForcedEnd
<1>13. CASE UNCHANGED vars
  BY <1>13 DEF vars
<1> QED
  BY <1>1, <1>2, <1>3, <1>4, <1>5, <1>6, <1>7, <1>8, <1>9, <1>10, <1>11, <1>12, <1>13
     DEF Next, ThreadStep

\* Every voice start belongs to a press of its own.
LEMMA StepStart == TypeOK /\ ReturnsOK /\ OwnerOK /\ StartOK /\ [Next]_vars => StartOK'
<1> SUFFICES ASSUME TypeOK, ReturnsOK, OwnerOK, StartOK, [Next]_vars PROVE StartOK'
  OBVIOUS
<1> USE DEF TypeOK, ReturnsOK, OwnerOK, StartOK, AuthorizedTypeOK, VoiceTypeOK, RoomTypeOK,
            ServerTypeOK, ThreadTypeOK, VoicePressing, VoiceReleasing, Pressing, Within,
            OwnsPublication, At, Goto, Done, avcVars, vcVars, roomVars, callbackVars,
            serverVars, localVars, NoId, Ids, Threads, PCs
<1>1. ASSUME NEW t \in InputThreads, InputCall(t) PROVE StartOK'
  BY <1>1 DEF InputCall, Press, Release, MayPress
<1>2. ASSUME NEW t \in ControlThreads, ControlCall(t) PROVE StartOK'
  BY <1>2 DEF ControlCall, Connect, Refresh, Disconnect, VoiceConnect, TransportConnect
<1>3. ASSUME NEW t \in Threads, PressStep(t) PROVE StartOK'
  BY <1>3 DEF PressStep, PressStarted, PressRefused, PressAdopt, PressVoiceDone, PressActivate,
              PressEnd, PressSettle, NotifyAll, Adopts, VoiceStartOver, EndCall, KeptAfterEnd
<1>4. ASSUME NEW t \in Threads, VoicePressStep(t) PROVE StartOK'
  BY <1>4 DEF VoicePressStep, VoicePress, StartMicrophone, MicrophoneReturns, VoiceActivate,
              VoiceCancel, VoiceUnpublish, VoiceSettle, MayActivate, VoiceNotifyAll,
              MustUnpublish, BeginStop, FinishStop
<1>5. ASSUME NEW t \in Threads, ReleaseStep(t) PROVE StartOK'
  BY <1>5 DEF ReleaseStep, ReleaseEnter, ReleaseWait, ReleaseEnd, ReleaseSettle, ReleaseReturns,
              StopsFrom, Sleep, EndCall, KeptAfterEnd, NotifyAll
<1>6. ASSUME NEW t \in Threads, VoiceReleaseStep(t) PROVE StartOK'
  BY <1>6 DEF VoiceReleaseStep, VoiceReleaseEnter, VoiceReleaseWait, VoiceReleaseStop,
              VoiceReleaseUnpublish, VoiceReleaseSettle, BeginStop, FinishStop, VoiceNotifyAll
<1>7. ASSUME NEW t \in Threads, DisconnectStep(t) PROVE StartOK'
  BY <1>7 DEF DisconnectStep, RefreshAnswer, DisableAndRelease, EndInterrupted, VoiceDisconnect,
              TransportDisconnect, TransportUnpublish, TransportStore, TransportLeave,
              FinishDisconnect, RefreshConnect, RefreshFinish, EndCall, KeptAfterEnd, BeginStop, FinishStop,
              OnTransportStateChanged, VoiceConnect, VoiceNotifyAll, TransportConnect
<1>8. ASSUME Confirmed PROVE StartOK'
  BY <1>8 DEF Confirmed
<1>9. ASSUME NEW s \in TransportStates, ConnectionDrops(s) PROVE StartOK'
  BY <1>9 DEF ConnectionDrops
<1>10. ASSUME Reconnected PROVE StartOK'
  BY <1>10 DEF Reconnected
<1>11. ASSUME CallbackStep PROVE StartOK'
  BY <1>11 DEF CallbackStep, CallbackUnpublish, CallbackStore, CallbackNotify,
               OnTransportStateChanged, VoiceNotifyAll
<1>12. ASSUME NEW i \in Ids, ForcedEnd(i) PROVE StartOK'
  BY <1>12 DEF ForcedEnd
<1>13. CASE UNCHANGED vars
  BY <1>13 DEF vars
<1> QED
  BY <1>1, <1>2, <1>3, <1>4, <1>5, <1>6, <1>7, <1>8, <1>9, <1>10, <1>11, <1>12, <1>13
     DEF Next, ThreadStep

\* The owner of the publication works for the transmission that the client holds.
LEMMA StepLedger ==
    TypeOK /\ ReturnsOK /\ ControlOK /\ OwnerOK /\ StartOK /\ LedgerOK /\ [Next]_vars =>
    LedgerOK'
<1> SUFFICES ASSUME TypeOK, ReturnsOK, ControlOK, OwnerOK, StartOK, LedgerOK, [Next]_vars PROVE
             LedgerOK'
  OBVIOUS
<1> USE DEF TypeOK, ReturnsOK, ControlOK, OwnerOK, StartOK, LedgerOK, AuthorizedTypeOK,
            VoiceTypeOK, RoomTypeOK, ServerTypeOK, ThreadTypeOK, VoicePressing, VoiceReleasing,
            Pressing, Within, OwnsPublication, CleaningUp, Cancels, CleansUp, At, Goto, Done,
            avcVars, vcVars, roomVars, callbackVars, serverVars, localVars, NoId, Ids, Threads,
            PCs
<1>1. ASSUME NEW t \in InputThreads, InputCall(t) PROVE LedgerOK'
  <2>1. CASE Press(t)
    BY <2>1 DEF Press, MayPress
  <2>2. CASE Release(t)
    BY <2>2 DEF Release
  <2> QED
    BY <1>1, <2>1, <2>2 DEF InputCall
<1>2. ASSUME NEW t \in ControlThreads, ControlCall(t) PROVE LedgerOK'
  <2>1. CASE Connect(t)
    BY <2>1 DEF Connect, VoiceConnect, TransportConnect
  <2>2. CASE Refresh(t)
    BY <2>2 DEF Refresh
  <2>3. CASE Disconnect(t)
    BY <2>3 DEF Disconnect
  <2> QED
    BY <1>2, <2>1, <2>2, <2>3 DEF ControlCall
<1>3. ASSUME NEW t \in Threads, PressStep(t) PROVE LedgerOK'
  <2>1. CASE PressStarted(t)
    BY <2>1 DEF PressStarted
  <2>2. CASE PressRefused(t)
    <3>1. /\ UNCHANGED <<gen, txn>> /\ At(t, "p_start") /\ pub' \in {pub, "idle"}
          /\ live' \subseteq live \cup {gen}
          /\ unanswered' \subseteq unanswered \cup {gen}
          /\ confirmed' = confirmed
      BY <2>2 DEF PressRefused
    <3>2. \A u \in Threads : ~OwnsPublication(u)'
      BY <2>2 DEF PressRefused
    <3> QED
      BY <3>1, <3>2
  <2>3. CASE PressAdopt(t)
    BY <2>3 DEF PressAdopt, Adopts
  <2>4. CASE PressVoiceDone(t)
    BY <2>4 DEF PressVoiceDone, VoiceStartOver
  <2>5. CASE PressActivate(t)
    BY <2>5 DEF PressActivate, NotifyAll
  <2>6. CASE PressEnd(t)
    <3>1. PICK ok \in BOOLEAN : EndCall(id[t], ok) /\ endOk' = [endOk EXCEPT ![t] = ok]
      BY <2>6 DEF PressEnd
    <3>2. /\ UNCHANGED <<pub, gen, txn, id, ret, op>>
          /\ At(t, "p_end") /\ pc' = [pc EXCEPT ![t] = "p_settle"]
      BY <2>6 DEF PressEnd
    <3>3. id[t] = txn /\ txn # NoId
      BY <3>2
    <3>4. txn \notin confirmed
      BY <3>2
    <3>5. /\ live' \subseteq live
          /\ unanswered' = unanswered
          /\ confirmed' = IF ok THEN confirmed \cup {txn} ELSE confirmed
          /\ ok => txn \notin live'
      BY <3>1, <3>3, EndCallEffect
    <3> QED
      BY <3>1, <3>2, <3>3, <3>4, <3>5
  <2>7. CASE PressSettle(t)
    BY <2>7 DEF PressSettle, KeptAfterEnd, NotifyAll
  <2> QED
    BY <1>3, <2>1, <2>2, <2>3, <2>4, <2>5, <2>6, <2>7 DEF PressStep
<1>4. ASSUME NEW t \in Threads, VoicePressStep(t) PROVE LedgerOK'
  <2>1. CASE VoicePress(t)
    BY <2>1 DEF VoicePress
  <2>2. CASE StartMicrophone(t)
    BY <2>2 DEF StartMicrophone
  <2>3. CASE MicrophoneReturns(t)
    BY <2>3 DEF MicrophoneReturns
  <2>4. CASE VoiceActivate(t)
    BY <2>4 DEF VoiceActivate, MayActivate, VoiceNotifyAll
  <2>5. CASE VoiceCancel(t)
    BY <2>5 DEF VoiceCancel, MustUnpublish, BeginStop
  <2>6. CASE VoiceUnpublish(t)
    BY <2>6 DEF VoiceUnpublish, FinishStop
  <2>7. CASE VoiceSettle(t)
    BY <2>7 DEF VoiceSettle, VoiceNotifyAll
  <2> QED
    BY <1>4, <2>1, <2>2, <2>3, <2>4, <2>5, <2>6, <2>7 DEF VoicePressStep
<1>5. ASSUME NEW t \in Threads, ReleaseStep(t) PROVE LedgerOK'
  <2>1. CASE ReleaseEnter(t)
    BY <2>1 DEF ReleaseEnter, ReleaseReturns, StopsFrom, Sleep
  <2>2. CASE ReleaseWait(t)
    BY <2>2 DEF ReleaseWait, ReleaseReturns, Sleep
  <2>3. CASE ReleaseEnd(t)
    <3>1. PICK ok \in BOOLEAN : EndCall(id[t], ok) /\ endOk' = [endOk EXCEPT ![t] = ok]
      BY <2>3 DEF ReleaseEnd
    <3>2. /\ UNCHANGED <<pub, gen, txn, id, ret, op>>
          /\ At(t, "r_end") /\ pc' = [pc EXCEPT ![t] = "r_settle"]
      BY <2>3 DEF ReleaseEnd
    <3>3. id[t] = txn /\ txn # NoId
      BY <3>2
    <3>4. txn \notin confirmed
      BY <3>2
    <3>5. /\ live' \subseteq live
          /\ unanswered' = unanswered
          /\ confirmed' = IF ok THEN confirmed \cup {txn} ELSE confirmed
          /\ ok => txn \notin live'
      BY <3>1, <3>3, EndCallEffect
    <3> QED
      BY <3>1, <3>2, <3>3, <3>4, <3>5
  <2>4. CASE ReleaseSettle(t)
    BY <2>4 DEF ReleaseSettle, KeptAfterEnd, NotifyAll, ReleaseReturns
  <2> QED
    BY <1>5, <2>1, <2>2, <2>3, <2>4 DEF ReleaseStep
<1>6. ASSUME NEW t \in Threads, VoiceReleaseStep(t) PROVE LedgerOK'
  <2>1. CASE VoiceReleaseEnter(t)
    BY <2>1 DEF VoiceReleaseEnter
  <2>2. CASE VoiceReleaseWait(t)
    BY <2>2 DEF VoiceReleaseWait
  <2>3. CASE VoiceReleaseStop(t)
    BY <2>3 DEF VoiceReleaseStop, BeginStop
  <2>4. CASE VoiceReleaseUnpublish(t)
    BY <2>4 DEF VoiceReleaseUnpublish, FinishStop
  <2>5. CASE VoiceReleaseSettle(t)
    BY <2>5 DEF VoiceReleaseSettle, VoiceNotifyAll
  <2> QED
    BY <1>6, <2>1, <2>2, <2>3, <2>4, <2>5 DEF VoiceReleaseStep
<1>7. ASSUME NEW t \in Threads, DisconnectStep(t) PROVE LedgerOK'
  <2>1. CASE RefreshAnswer(t)
    BY <2>1 DEF RefreshAnswer
  <2>2. CASE DisableAndRelease(t)
    BY <2>2 DEF DisableAndRelease
  <2>3. CASE EndInterrupted(t)
    <3>1. /\ UNCHANGED <<pub, gen>> /\ At(t, "d_interrupted")
      BY <2>3 DEF EndInterrupted
    <3>2. \A u \in Threads : ~OwnsPublication(u) /\ ~OwnsPublication(u)'
      BY <2>3 DEF EndInterrupted
    <3>3. \A u \in Threads : pc'[u] \notin {"p_start", "p_adopt", "p_settle", "r_settle"}
      BY <3>2
    <3>4. txn \notin confirmed
      BY <3>2
    <3>5. CASE txn = NoId
      <4>1. UNCHANGED <<txn, live, unanswered, confirmed>>
        BY <2>3, <3>5 DEF EndInterrupted
      <4> QED
        BY <3>1, <3>2, <3>3, <3>4, <4>1
    <3>6. CASE txn # NoId
      <4>1. PICK ok \in BOOLEAN : EndCall(txn, ok) /\ txn' = KeptAfterEnd(ok)
        BY <2>3, <3>6 DEF EndInterrupted
      <4>2. /\ live' \subseteq live
            /\ unanswered' = unanswered
            /\ confirmed' = IF ok THEN confirmed \cup {txn} ELSE confirmed
        BY <4>1, EndCallEffect
      <4>3. txn' \notin confirmed' /\ txn' \in {txn, NoId}
        <5>1. CASE ok
          <6>1. txn' = NoId /\ confirmed' = confirmed \cup {txn}
            BY <4>1, <4>2, <5>1 DEF KeptAfterEnd
          <6> QED
            BY <3>6, <6>1
        <5>2. CASE ~ok
          BY <3>4, <4>1, <4>2, <5>2 DEF KeptAfterEnd
        <5> QED
          BY <5>1, <5>2
      <4> QED
        BY <3>1, <3>2, <3>3, <4>2, <4>3
    <3> QED
      BY <3>5, <3>6
  <2>4. CASE VoiceDisconnect(t)
    BY <2>4 DEF VoiceDisconnect
  <2>5. CASE TransportDisconnect(t)
    BY <2>5 DEF TransportDisconnect, BeginStop
  <2>6. CASE TransportUnpublish(t)
    BY <2>6 DEF TransportUnpublish, FinishStop
  <2>11. CASE TransportStore(t)
    BY <2>11 DEF TransportStore
  <2>7. CASE TransportLeave(t)
    BY <2>7 DEF TransportLeave, OnTransportStateChanged, VoiceNotifyAll
  <2>8. CASE FinishDisconnect(t)
    BY <2>8 DEF FinishDisconnect
  <2>9. CASE RefreshConnect(t)
    BY <2>9 DEF RefreshConnect, VoiceConnect, TransportConnect
  <2>10. CASE RefreshFinish(t)
    BY <2>10 DEF RefreshFinish
  <2> QED
    BY <1>7, <2>1, <2>2, <2>3, <2>4, <2>5, <2>6, <2>7, <2>8, <2>9, <2>10, <2>11 DEF DisconnectStep
<1>8. ASSUME Confirmed PROVE LedgerOK'
  BY <1>8 DEF Confirmed
<1>9. ASSUME NEW s \in TransportStates, ConnectionDrops(s) PROVE LedgerOK'
  BY <1>9 DEF ConnectionDrops
<1>10. ASSUME Reconnected PROVE LedgerOK'
  BY <1>10 DEF Reconnected
<1>11. ASSUME CallbackStep PROVE LedgerOK'
  <2>1. CASE CallbackUnpublish
    BY <2>1 DEF CallbackUnpublish
  <2>2. CASE CallbackStore
    BY <2>2 DEF CallbackStore
  <2>3. CASE CallbackNotify
    BY <2>3 DEF CallbackNotify, OnTransportStateChanged, VoiceNotifyAll
  <2> QED
    BY <1>11, <2>1, <2>2, <2>3 DEF CallbackStep
<1>12. ASSUME NEW i \in Ids, ForcedEnd(i) PROVE LedgerOK'
  BY <1>12 DEF ForcedEnd
<1>13. CASE UNCHANGED vars
  BY <1>13 DEF vars
<1> QED
  BY <1>1, <1>2, <1>3, <1>4, <1>5, <1>6, <1>7, <1>8, <1>9, <1>10, <1>11, <1>12, <1>13
     DEF Next, ThreadStep

\* No step makes the client forget a transmission that is active on the server.
LEMMA StepNoOrphan ==
    TypeOK /\ ControlOK /\ OwnerOK /\ StartOK /\ LedgerOK /\ NoOrphanedTransmission /\
    [Next]_vars => NoOrphanedTransmission'
<1> SUFFICES ASSUME TypeOK, ControlOK, OwnerOK, StartOK, LedgerOK, NoOrphanedTransmission,
             [Next]_vars PROVE NoOrphanedTransmission'
  OBVIOUS
<1> USE DEF TypeOK, ControlOK, OwnerOK, StartOK, LedgerOK, NoOrphanedTransmission,
            AuthorizedTypeOK, VoiceTypeOK, RoomTypeOK, ServerTypeOK, ThreadTypeOK,
            VoicePressing, VoiceReleasing, Pressing, Within, OwnsPublication, CleaningUp,
            Cancels, CleansUp, At, Goto, Done, avcVars, vcVars, roomVars, callbackVars,
            serverVars, localVars, NoId, Ids, Threads, PCs
<1>1. ASSUME NEW t \in InputThreads, InputCall(t) PROVE NoOrphanedTransmission'
  <2>1. CASE Press(t)
    BY <2>1 DEF Press, MayPress
  <2>2. CASE Release(t)
    BY <2>2 DEF Release
  <2> QED
    BY <1>1, <2>1, <2>2 DEF InputCall
<1>2. ASSUME NEW t \in ControlThreads, ControlCall(t) PROVE NoOrphanedTransmission'
  <2>1. CASE Connect(t)
    BY <2>1 DEF Connect, VoiceConnect, TransportConnect
  <2>2. CASE Refresh(t)
    BY <2>2 DEF Refresh
  <2>3. CASE Disconnect(t)
    BY <2>3 DEF Disconnect
  <2> QED
    BY <1>2, <2>1, <2>2, <2>3 DEF ControlCall
<1>3. ASSUME NEW t \in Threads, PressStep(t) PROVE NoOrphanedTransmission'
  <2>1. CASE PressStarted(t)
    BY <2>1 DEF PressStarted
  <2>2. CASE PressRefused(t)
    BY <2>2 DEF PressRefused, NotifyAll
  <2>3. CASE PressAdopt(t)
    BY <2>3 DEF PressAdopt, Adopts
  <2>4. CASE PressVoiceDone(t)
    BY <2>4 DEF PressVoiceDone, VoiceStartOver
  <2>5. CASE PressActivate(t)
    BY <2>5 DEF PressActivate, NotifyAll
  <2>6. CASE PressEnd(t)
    <3>1. live' \subseteq live /\ unanswered' = unanswered
      BY <2>6, EndCallEffect DEF PressEnd
    <3>2. UNCHANGED <<txn, id>> /\ \A u \in Threads : At(u, "p_adopt") => At(u, "p_adopt")'
      BY <2>6 DEF PressEnd
    <3> QED
      BY <3>1, <3>2
  <2>7. CASE PressSettle(t)
    BY <2>7 DEF PressSettle, KeptAfterEnd, NotifyAll
  <2> QED
    BY <1>3, <2>1, <2>2, <2>3, <2>4, <2>5, <2>6, <2>7 DEF PressStep
<1>4. ASSUME NEW t \in Threads, VoicePressStep(t) PROVE NoOrphanedTransmission'
  <2>1. CASE VoicePress(t)
    BY <2>1 DEF VoicePress
  <2>2. CASE StartMicrophone(t)
    BY <2>2 DEF StartMicrophone
  <2>3. CASE MicrophoneReturns(t)
    BY <2>3 DEF MicrophoneReturns
  <2>4. CASE VoiceActivate(t)
    BY <2>4 DEF VoiceActivate, MayActivate, VoiceNotifyAll
  <2>5. CASE VoiceCancel(t)
    BY <2>5 DEF VoiceCancel, MustUnpublish, BeginStop
  <2>6. CASE VoiceUnpublish(t)
    BY <2>6 DEF VoiceUnpublish, FinishStop
  <2>7. CASE VoiceSettle(t)
    BY <2>7 DEF VoiceSettle, VoiceNotifyAll
  <2> QED
    BY <1>4, <2>1, <2>2, <2>3, <2>4, <2>5, <2>6, <2>7 DEF VoicePressStep
<1>5. ASSUME NEW t \in Threads, ReleaseStep(t) PROVE NoOrphanedTransmission'
  <2>1. CASE ReleaseEnter(t)
    BY <2>1 DEF ReleaseEnter, ReleaseReturns, StopsFrom, Sleep
  <2>2. CASE ReleaseWait(t)
    BY <2>2 DEF ReleaseWait, ReleaseReturns, Sleep
  <2>3. CASE ReleaseEnd(t)
    <3>1. live' \subseteq live /\ unanswered' = unanswered
      BY <2>3, EndCallEffect DEF ReleaseEnd
    <3>2. UNCHANGED <<txn, id>> /\ \A u \in Threads : At(u, "p_adopt") => At(u, "p_adopt")'
      BY <2>3 DEF ReleaseEnd
    <3> QED
      BY <3>1, <3>2
  <2>4. CASE ReleaseSettle(t)
    BY <2>4 DEF ReleaseSettle, KeptAfterEnd, NotifyAll, ReleaseReturns
  <2> QED
    BY <1>5, <2>1, <2>2, <2>3, <2>4 DEF ReleaseStep
<1>6. ASSUME NEW t \in Threads, VoiceReleaseStep(t) PROVE NoOrphanedTransmission'
  <2>1. CASE VoiceReleaseEnter(t)
    BY <2>1 DEF VoiceReleaseEnter
  <2>2. CASE VoiceReleaseWait(t)
    BY <2>2 DEF VoiceReleaseWait
  <2>3. CASE VoiceReleaseStop(t)
    BY <2>3 DEF VoiceReleaseStop, BeginStop
  <2>4. CASE VoiceReleaseUnpublish(t)
    BY <2>4 DEF VoiceReleaseUnpublish, FinishStop
  <2>5. CASE VoiceReleaseSettle(t)
    BY <2>5 DEF VoiceReleaseSettle, VoiceNotifyAll
  <2> QED
    BY <1>6, <2>1, <2>2, <2>3, <2>4, <2>5 DEF VoiceReleaseStep
<1>7. ASSUME NEW t \in Threads, DisconnectStep(t) PROVE NoOrphanedTransmission'
  <2>1. CASE RefreshAnswer(t)
    BY <2>1 DEF RefreshAnswer
  <2>2. CASE DisableAndRelease(t)
    BY <2>2 DEF DisableAndRelease
  <2>3. CASE EndInterrupted(t)
    <3>1. CASE txn = NoId
      BY <2>3, <3>1 DEF EndInterrupted
    <3>2. CASE txn # NoId
      <4>1. PICK ok \in BOOLEAN : EndCall(txn, ok) /\ txn' = KeptAfterEnd(ok)
        BY <2>3, <3>2 DEF EndInterrupted
      <4>2. \A u \in Threads : pc[u] # "p_adopt"
        BY <2>3 DEF EndInterrupted
      <4>3. live \ unanswered \subseteq {txn}
        BY <4>2
      <4>4. live' \subseteq live /\ unanswered' = unanswered /\ (ok => txn \notin live')
        BY <4>1, EndCallEffect
      <4>5. live' \ unanswered' \subseteq {txn} /\ (ok => live' \ unanswered' = {})
        BY <4>3, <4>4
      <4>6. ~ok => txn' = txn
        BY <4>1 DEF KeptAfterEnd
      <4>7. \A i \in live' \ unanswered' : txn' = i
        BY <4>5, <4>6
      <4> QED
        BY <4>7
    <3> QED
      BY <3>1, <3>2
  <2>4. CASE VoiceDisconnect(t)
    BY <2>4 DEF VoiceDisconnect
  <2>5. CASE TransportDisconnect(t)
    BY <2>5 DEF TransportDisconnect, BeginStop
  <2>6. CASE TransportUnpublish(t)
    BY <2>6 DEF TransportUnpublish, FinishStop
  <2>11. CASE TransportStore(t)
    BY <2>11 DEF TransportStore
  <2>7. CASE TransportLeave(t)
    BY <2>7 DEF TransportLeave, OnTransportStateChanged, VoiceNotifyAll
  <2>8. CASE FinishDisconnect(t)
    BY <2>8 DEF FinishDisconnect
  <2>9. CASE RefreshConnect(t)
    BY <2>9 DEF RefreshConnect, VoiceConnect, TransportConnect
  <2>10. CASE RefreshFinish(t)
    BY <2>10 DEF RefreshFinish
  <2> QED
    BY <1>7, <2>1, <2>2, <2>3, <2>4, <2>5, <2>6, <2>7, <2>8, <2>9, <2>10, <2>11 DEF DisconnectStep
<1>8. ASSUME Confirmed PROVE NoOrphanedTransmission'
  BY <1>8 DEF Confirmed
<1>9. ASSUME NEW s \in TransportStates, ConnectionDrops(s) PROVE NoOrphanedTransmission'
  BY <1>9 DEF ConnectionDrops
<1>10. ASSUME Reconnected PROVE NoOrphanedTransmission'
  BY <1>10 DEF Reconnected
<1>11. ASSUME CallbackStep PROVE NoOrphanedTransmission'
  <2>1. CASE CallbackUnpublish
    BY <2>1 DEF CallbackUnpublish
  <2>2. CASE CallbackStore
    BY <2>2 DEF CallbackStore
  <2>3. CASE CallbackNotify
    BY <2>3 DEF CallbackNotify, OnTransportStateChanged, VoiceNotifyAll
  <2> QED
    BY <1>11, <2>1, <2>2, <2>3 DEF CallbackStep
<1>12. ASSUME NEW i \in Ids, ForcedEnd(i) PROVE NoOrphanedTransmission'
  BY <1>12 DEF ForcedEnd
<1>13. CASE UNCHANGED vars
  BY <1>13 DEF vars
<1> QED
  BY <1>1, <1>2, <1>3, <1>4, <1>5, <1>6, <1>7, <1>8, <1>9, <1>10, <1>11, <1>12, <1>13
     DEF Next, ThreadStep

\* A voice publication that starts or stops has one owner, of the current voice generation.
LEMMA StepVoiceOwner ==
    TypeOK /\ ReturnsOK /\ OwnerOK /\ VoiceOwnerOK /\ [Next]_vars => VoiceOwnerOK'
<1> SUFFICES ASSUME TypeOK, ReturnsOK, OwnerOK, VoiceOwnerOK, [Next]_vars PROVE VoiceOwnerOK'
  OBVIOUS
<1> USE DEF TypeOK, ReturnsOK, OwnerOK, VoiceOwnerOK, AuthorizedTypeOK, VoiceTypeOK, RoomTypeOK,
            ServerTypeOK, ThreadTypeOK, VoicePressing, VoiceReleasing, Pressing, Within,
            OwnsPublication, OwnsVoice, At, Goto, Done, avcVars, vcVars, roomVars, callbackVars,
            serverVars, localVars, NoId, Ids, Threads, PCs
<1>1. ASSUME NEW t \in InputThreads, InputCall(t) PROVE VoiceOwnerOK'
  BY <1>1 DEF InputCall, Press, Release, MayPress
<1>2. ASSUME NEW t \in ControlThreads, ControlCall(t) PROVE VoiceOwnerOK'
  BY <1>2 DEF ControlCall, Connect, Refresh, Disconnect, VoiceConnect, TransportConnect
<1>3. ASSUME NEW t \in Threads, PressStep(t) PROVE VoiceOwnerOK'
  BY <1>3 DEF PressStep, PressStarted, PressRefused, PressAdopt, PressVoiceDone, PressActivate,
              PressEnd, PressSettle, NotifyAll, Adopts, VoiceStartOver, EndCall, KeptAfterEnd
<1>4. ASSUME NEW t \in Threads, VoicePressStep(t) PROVE VoiceOwnerOK'
  BY <1>4 DEF VoicePressStep, VoicePress, StartMicrophone, MicrophoneReturns, VoiceActivate,
              VoiceCancel, VoiceUnpublish, VoiceSettle, MayActivate, VoiceNotifyAll,
              MustUnpublish, BeginStop, FinishStop
<1>5. ASSUME NEW t \in Threads, ReleaseStep(t) PROVE VoiceOwnerOK'
  BY <1>5 DEF ReleaseStep, ReleaseEnter, ReleaseWait, ReleaseEnd, ReleaseSettle, ReleaseReturns,
              StopsFrom, Sleep, EndCall, KeptAfterEnd, NotifyAll
<1>6. ASSUME NEW t \in Threads, VoiceReleaseStep(t) PROVE VoiceOwnerOK'
  BY <1>6 DEF VoiceReleaseStep, VoiceReleaseEnter, VoiceReleaseWait, VoiceReleaseStop,
              VoiceReleaseUnpublish, VoiceReleaseSettle, BeginStop, FinishStop, VoiceNotifyAll
<1>7. ASSUME NEW t \in Threads, DisconnectStep(t) PROVE VoiceOwnerOK'
  BY <1>7 DEF DisconnectStep, RefreshAnswer, DisableAndRelease, EndInterrupted, VoiceDisconnect,
              TransportDisconnect, TransportUnpublish, TransportStore, TransportLeave,
              FinishDisconnect, RefreshConnect, RefreshFinish, EndCall, KeptAfterEnd, BeginStop, FinishStop,
              OnTransportStateChanged, VoiceConnect, VoiceNotifyAll, TransportConnect
<1>8. ASSUME Confirmed PROVE VoiceOwnerOK'
  BY <1>8 DEF Confirmed
<1>9. ASSUME NEW s \in TransportStates, ConnectionDrops(s) PROVE VoiceOwnerOK'
  BY <1>9 DEF ConnectionDrops
<1>10. ASSUME Reconnected PROVE VoiceOwnerOK'
  BY <1>10 DEF Reconnected
<1>11. ASSUME CallbackStep PROVE VoiceOwnerOK'
  BY <1>11 DEF CallbackStep, CallbackUnpublish, CallbackStore, CallbackNotify,
               OnTransportStateChanged, VoiceNotifyAll
<1>12. ASSUME NEW i \in Ids, ForcedEnd(i) PROVE VoiceOwnerOK'
  BY <1>12 DEF ForcedEnd
<1>13. CASE UNCHANGED vars
  BY <1>13 DEF vars
<1> QED
  BY <1>1, <1>2, <1>3, <1>4, <1>5, <1>6, <1>7, <1>8, <1>9, <1>10, <1>11, <1>12, <1>13
     DEF Next, ThreadStep

\* The voice client never publishes without a publication of AuthorizedVoiceClient.
LEMMA StepCovered ==
    TypeOK /\ ReturnsOK /\ OwnerOK /\ LedgerOK /\ VoiceOwnerOK /\ CoveredOK /\ [Next]_vars =>
    CoveredOK'
<1> SUFFICES ASSUME TypeOK, ReturnsOK, OwnerOK, LedgerOK, VoiceOwnerOK, CoveredOK, [Next]_vars
             PROVE CoveredOK'
  OBVIOUS
<1> USE DEF TypeOK, ReturnsOK, OwnerOK, LedgerOK, VoiceOwnerOK, CoveredOK, AuthorizedTypeOK,
            VoiceTypeOK, RoomTypeOK, ServerTypeOK, ThreadTypeOK, VoicePressing, VoiceReleasing,
            Pressing, Within, OwnsPublication, OwnsVoice, Speaks, At, Goto, Done, avcVars,
            vcVars, roomVars, callbackVars, serverVars, localVars, NoId, Ids, Threads, PCs
<1>1. ASSUME NEW t \in InputThreads, InputCall(t) PROVE CoveredOK'
  BY <1>1 DEF InputCall, Press, Release, MayPress
<1>2. ASSUME NEW t \in ControlThreads, ControlCall(t) PROVE CoveredOK'
  BY <1>2 DEF ControlCall, Connect, Refresh, Disconnect, VoiceConnect, TransportConnect
<1>3. ASSUME NEW t \in Threads, PressStep(t) PROVE CoveredOK'
  BY <1>3 DEF PressStep, PressStarted, PressRefused, PressAdopt, PressVoiceDone, PressActivate,
              PressEnd, PressSettle, NotifyAll, Adopts, VoiceStartOver, EndCall, KeptAfterEnd
<1>4. ASSUME NEW t \in Threads, VoicePressStep(t) PROVE CoveredOK'
  BY <1>4 DEF VoicePressStep, VoicePress, StartMicrophone, MicrophoneReturns, VoiceActivate,
              VoiceCancel, VoiceUnpublish, VoiceSettle, MayActivate, VoiceNotifyAll,
              MustUnpublish, BeginStop, FinishStop
<1>5. ASSUME NEW t \in Threads, ReleaseStep(t) PROVE CoveredOK'
  BY <1>5 DEF ReleaseStep, ReleaseEnter, ReleaseWait, ReleaseEnd, ReleaseSettle, ReleaseReturns,
              StopsFrom, Sleep, EndCall, KeptAfterEnd, NotifyAll
<1>6. ASSUME NEW t \in Threads, VoiceReleaseStep(t) PROVE CoveredOK'
  BY <1>6 DEF VoiceReleaseStep, VoiceReleaseEnter, VoiceReleaseWait, VoiceReleaseStop,
              VoiceReleaseUnpublish, VoiceReleaseSettle, BeginStop, FinishStop, VoiceNotifyAll
<1>7. ASSUME NEW t \in Threads, DisconnectStep(t) PROVE CoveredOK'
  BY <1>7 DEF DisconnectStep, RefreshAnswer, DisableAndRelease, EndInterrupted, VoiceDisconnect,
              TransportDisconnect, TransportUnpublish, TransportStore, TransportLeave,
              FinishDisconnect, RefreshConnect, RefreshFinish, EndCall, KeptAfterEnd, BeginStop, FinishStop,
              OnTransportStateChanged, VoiceConnect, VoiceNotifyAll, TransportConnect
<1>8. ASSUME Confirmed PROVE CoveredOK'
  BY <1>8 DEF Confirmed
<1>9. ASSUME NEW s \in TransportStates, ConnectionDrops(s) PROVE CoveredOK'
  BY <1>9 DEF ConnectionDrops
<1>10. ASSUME Reconnected PROVE CoveredOK'
  BY <1>10 DEF Reconnected
<1>11. ASSUME CallbackStep PROVE CoveredOK'
  BY <1>11 DEF CallbackStep, CallbackUnpublish, CallbackStore, CallbackNotify,
               OnTransportStateChanged, VoiceNotifyAll
<1>12. ASSUME NEW i \in Ids, ForcedEnd(i) PROVE CoveredOK'
  BY <1>12 DEF ForcedEnd
<1>13. CASE UNCHANGED vars
  BY <1>13 DEF vars
<1> QED
  BY <1>1, <1>2, <1>3, <1>4, <1>5, <1>6, <1>7, <1>8, <1>9, <1>10, <1>11, <1>12, <1>13
     DEF Next, ThreadStep

\* While the connection holds, the microphone is never on behind the voice client's back.
LEMMA StepMicrophone == TypeOK /\ VoiceOwnerOK /\ MicrophoneOK /\ [Next]_vars => MicrophoneOK'
<1> SUFFICES ASSUME TypeOK, VoiceOwnerOK, MicrophoneOK, [Next]_vars PROVE MicrophoneOK'
  OBVIOUS
<1> USE DEF TypeOK, VoiceOwnerOK, MicrophoneOK, AuthorizedTypeOK, VoiceTypeOK, RoomTypeOK,
            ServerTypeOK, ThreadTypeOK, VoicePressing, OwnsVoice, HandlesMicrophone, At, Goto,
            Done, avcVars, vcVars, roomVars, callbackVars, serverVars, localVars, NoId, Ids,
            Threads, PCs
<1>1. ASSUME NEW t \in InputThreads, InputCall(t) PROVE MicrophoneOK'
  BY <1>1 DEF InputCall, Press, Release, MayPress
<1>2. ASSUME NEW t \in ControlThreads, ControlCall(t) PROVE MicrophoneOK'
  BY <1>2 DEF ControlCall, Connect, Refresh, Disconnect, VoiceConnect, TransportConnect
<1>3. ASSUME NEW t \in Threads, PressStep(t) PROVE MicrophoneOK'
  BY <1>3 DEF PressStep, PressStarted, PressRefused, PressAdopt, PressVoiceDone, PressActivate,
              PressEnd, PressSettle, NotifyAll, Adopts, VoiceStartOver, EndCall, KeptAfterEnd
<1>4. ASSUME NEW t \in Threads, VoicePressStep(t) PROVE MicrophoneOK'
  BY <1>4 DEF VoicePressStep, VoicePress, StartMicrophone, MicrophoneReturns, VoiceActivate,
              VoiceCancel, VoiceUnpublish, VoiceSettle, MayActivate, VoiceNotifyAll,
              MustUnpublish, BeginStop, FinishStop
<1>5. ASSUME NEW t \in Threads, ReleaseStep(t) PROVE MicrophoneOK'
  BY <1>5 DEF ReleaseStep, ReleaseEnter, ReleaseWait, ReleaseEnd, ReleaseSettle, ReleaseReturns,
              StopsFrom, Sleep, EndCall, KeptAfterEnd, NotifyAll
<1>6. ASSUME NEW t \in Threads, VoiceReleaseStep(t) PROVE MicrophoneOK'
  BY <1>6 DEF VoiceReleaseStep, VoiceReleaseEnter, VoiceReleaseWait, VoiceReleaseStop,
              VoiceReleaseUnpublish, VoiceReleaseSettle, BeginStop, FinishStop, VoiceNotifyAll
<1>7. ASSUME NEW t \in Threads, DisconnectStep(t) PROVE MicrophoneOK'
  BY <1>7 DEF DisconnectStep, RefreshAnswer, DisableAndRelease, EndInterrupted, VoiceDisconnect,
              TransportDisconnect, TransportUnpublish, TransportStore, TransportLeave,
              FinishDisconnect, RefreshConnect, RefreshFinish, EndCall, KeptAfterEnd, BeginStop, FinishStop,
              OnTransportStateChanged, VoiceConnect, VoiceNotifyAll, TransportConnect
<1>8. ASSUME Confirmed PROVE MicrophoneOK'
  BY <1>8 DEF Confirmed
<1>9. ASSUME NEW s \in TransportStates, ConnectionDrops(s) PROVE MicrophoneOK'
  BY <1>9 DEF ConnectionDrops
<1>10. ASSUME Reconnected PROVE MicrophoneOK'
  BY <1>10 DEF Reconnected
<1>11. ASSUME CallbackStep PROVE MicrophoneOK'
  BY <1>11 DEF CallbackStep, CallbackUnpublish, CallbackStore, CallbackNotify,
               OnTransportStateChanged, VoiceNotifyAll
<1>12. ASSUME NEW i \in Ids, ForcedEnd(i) PROVE MicrophoneOK'
  BY <1>12 DEF ForcedEnd
<1>13. CASE UNCHANGED vars
  BY <1>13 DEF vars
<1> QED
  BY <1>1, <1>2, <1>3, <1>4, <1>5, <1>6, <1>7, <1>8, <1>9, <1>10, <1>11, <1>12, <1>13
     DEF Next, ThreadStep

\* A call that returns leaves the threads well typed.
LEMMA DoneTyped ==
    ASSUME ThreadTypeOK, NEW t \in Threads, Done(t)
    PROVE  ThreadTypeOK'
  BY BoundAssumption DEF ThreadTypeOK, Done, Goto, NoId, Ids, PCs, Ops, Results

\* A thread that only moves carries what it carried.
LEMMA GotoTyped ==
    ASSUME ThreadTypeOK, NEW t \in Threads, NEW l \in PCs, Goto(t, l), UNCHANGED <<op, localVars>>
    PROVE  ThreadTypeOK'
  BY DEF ThreadTypeOK, Goto, localVars

\* So does a release, which returns to the application or to the disconnect that made it.
LEMMA ReleaseReturnsTyped ==
    ASSUME ThreadTypeOK, NEW t \in Threads, NEW ok, ReleaseReturns(t, ok)
    PROVE  ThreadTypeOK'
<1>1. Done(t) \/ (Goto(t, "d_interrupted") /\ UNCHANGED <<op, localVars>>)
  BY DEF ReleaseReturns
<1>2. "d_interrupted" \in PCs
  BY DEF PCs
<1> QED
  BY <1>1, <1>2, DoneTyped, GotoTyped

\* A call of the end endpoint keeps the types of the control plane.
LEMMA EndCallTyped ==
    ASSUME ServerTypeOK, NEW i, NEW ok \in BOOLEAN, EndCall(i, ok)
    PROVE  ServerTypeOK'
<1>1. CASE ok = (i \in live) /\ live' = live \ {i} /\ UNCHANGED <<failures, unanswered>>
           /\ confirmed' = IF ok THEN confirmed \cup {i} ELSE confirmed
  <2>1. confirmed' \subseteq confirmed \cup live
    BY <1>1
  <2> QED
    BY <1>1, <2>1 DEF ServerTypeOK
<1>2. CASE /\ failures < MaxFailures /\ failures' = failures + 1
           /\ live' \in {live, live \ {i}} /\ UNCHANGED <<unanswered, confirmed>>
  BY <1>2, BoundAssumption DEF ServerTypeOK
<1> QED
  BY <1>1, <1>2 DEF EndCall

\* The types of AuthorizedVoiceClient: a press is counted at most MaxPresses times.
LEMMA StepAuthorizedTyped ==
    AuthorizedTypeOK /\ ThreadTypeOK /\ VoiceTypeOK /\ OwnerOK /\ StartOK /\ [Next]_vars =>
    AuthorizedTypeOK'
<1> SUFFICES ASSUME AuthorizedTypeOK, ThreadTypeOK, VoiceTypeOK, OwnerOK, StartOK, [Next]_vars
             PROVE AuthorizedTypeOK'
  OBVIOUS
<1> USE BoundAssumption
        DEF AuthorizedTypeOK, ThreadTypeOK, VoiceTypeOK, OwnerOK, StartOK, VoicePressing,
            VoiceReleasing, Pressing, Within, OwnsPublication, PublicationStates,
            TransportStates, Results, Ops, At, Goto, Done, avcVars, vcVars, roomVars,
            callbackVars, serverVars, localVars, NoId, Ids, Threads, PCs
<1>1. ASSUME NEW t \in InputThreads, InputCall(t) PROVE AuthorizedTypeOK'
  <2>1. CASE Press(t)
    BY <2>1 DEF Press, MayPress
  <2>2. CASE Release(t)
    BY <2>2 DEF Release
  <2> QED
    BY <1>1, <2>1, <2>2 DEF InputCall
<1>2. ASSUME NEW t \in ControlThreads, ControlCall(t) PROVE AuthorizedTypeOK'
  <2>1. CASE Connect(t)
    BY <2>1 DEF Connect
  <2>2. CASE Refresh(t)
    BY <2>2 DEF Refresh
  <2>3. CASE Disconnect(t)
    BY <2>3 DEF Disconnect
  <2> QED
    BY <1>2, <2>1, <2>2, <2>3 DEF ControlCall
<1>3. ASSUME NEW t \in Threads, PressStep(t) PROVE AuthorizedTypeOK'
  <2>1. CASE PressStarted(t)
    BY <2>1 DEF PressStarted
  <2>2. CASE PressRefused(t)
    BY <2>2 DEF PressRefused, NotifyAll
  <2>3. CASE PressAdopt(t)
    BY <2>3 DEF PressAdopt, Adopts
  <2>4. CASE PressVoiceDone(t)
    BY <2>4 DEF PressVoiceDone, VoiceStartOver
  <2>5. CASE PressActivate(t)
    BY <2>5 DEF PressActivate, NotifyAll
  <2>6. CASE PressEnd(t)
    BY <2>6 DEF PressEnd, EndCall
  <2>7. CASE PressSettle(t)
    BY <2>7 DEF PressSettle, KeptAfterEnd, NotifyAll
  <2> QED
    BY <1>3, <2>1, <2>2, <2>3, <2>4, <2>5, <2>6, <2>7 DEF PressStep
<1>4. ASSUME NEW t \in Threads, VoicePressStep(t) PROVE AuthorizedTypeOK'
  BY <1>4 DEF VoicePressStep, VoicePress, StartMicrophone, MicrophoneReturns, VoiceActivate,
              VoiceCancel, VoiceUnpublish, VoiceSettle, MayActivate, VoiceNotifyAll,
              MustUnpublish, BeginStop, FinishStop
<1>5. ASSUME NEW t \in Threads, ReleaseStep(t) PROVE AuthorizedTypeOK'
  BY <1>5 DEF ReleaseStep, ReleaseEnter, ReleaseWait, ReleaseEnd, ReleaseSettle, ReleaseReturns,
              StopsFrom, Sleep, EndCall, KeptAfterEnd, NotifyAll
<1>6. ASSUME NEW t \in Threads, VoiceReleaseStep(t) PROVE AuthorizedTypeOK'
  BY <1>6 DEF VoiceReleaseStep, VoiceReleaseEnter, VoiceReleaseWait, VoiceReleaseStop,
              VoiceReleaseUnpublish, VoiceReleaseSettle, BeginStop, FinishStop, VoiceNotifyAll
<1>7. ASSUME NEW t \in Threads, DisconnectStep(t) PROVE AuthorizedTypeOK'
  <2>1. CASE RefreshAnswer(t)
    BY <2>1 DEF RefreshAnswer
  <2>2. CASE DisableAndRelease(t)
    BY <2>2 DEF DisableAndRelease
  <2>3. CASE EndInterrupted(t)
    BY <2>3 DEF EndInterrupted, EndCall, KeptAfterEnd
  <2>4. CASE VoiceDisconnect(t)
    BY <2>4 DEF VoiceDisconnect
  <2>5. CASE TransportDisconnect(t)
    BY <2>5 DEF TransportDisconnect, BeginStop
  <2>6. CASE TransportUnpublish(t)
    BY <2>6 DEF TransportUnpublish, FinishStop
  <2>11. CASE TransportStore(t)
    BY <2>11 DEF TransportStore
  <2>7. CASE TransportLeave(t)
    BY <2>7 DEF TransportLeave, OnTransportStateChanged, VoiceNotifyAll
  <2>8. CASE FinishDisconnect(t)
    BY <2>8 DEF FinishDisconnect
  <2>9. CASE RefreshConnect(t)
    BY <2>9 DEF RefreshConnect, VoiceConnect, TransportConnect
  <2>10. CASE RefreshFinish(t)
    BY <2>10 DEF RefreshFinish
  <2> QED
    BY <1>7, <2>1, <2>2, <2>3, <2>4, <2>5, <2>6, <2>7, <2>8, <2>9, <2>10, <2>11 DEF DisconnectStep
<1>8. ASSUME Confirmed PROVE AuthorizedTypeOK'
  BY <1>8 DEF Confirmed
<1>9. ASSUME NEW s \in TransportStates, ConnectionDrops(s) PROVE AuthorizedTypeOK'
  BY <1>9 DEF ConnectionDrops
<1>10. ASSUME Reconnected PROVE AuthorizedTypeOK'
  BY <1>10 DEF Reconnected
<1>11. ASSUME CallbackStep PROVE AuthorizedTypeOK'
  BY <1>11 DEF CallbackStep, CallbackUnpublish, CallbackStore, CallbackNotify,
               OnTransportStateChanged, VoiceNotifyAll
<1>12. ASSUME NEW i \in Ids, ForcedEnd(i) PROVE AuthorizedTypeOK'
  BY <1>12 DEF ForcedEnd
<1>13. CASE UNCHANGED vars
  BY <1>13 DEF vars
<1> QED
  BY <1>1, <1>2, <1>3, <1>4, <1>5, <1>6, <1>7, <1>8, <1>9, <1>10, <1>11, <1>12, <1>13
     DEF Next, ThreadStep

\* The types of VoiceClient: it starts no more often than AuthorizedVoiceClient.
LEMMA StepVoiceTyped ==
    VoiceTypeOK /\ ThreadTypeOK /\ AuthorizedTypeOK /\ RoomTypeOK /\ StartOK /\ [Next]_vars =>
    VoiceTypeOK'
<1> SUFFICES ASSUME VoiceTypeOK, ThreadTypeOK, AuthorizedTypeOK, RoomTypeOK, StartOK,
             [Next]_vars PROVE VoiceTypeOK'
  OBVIOUS
<1> USE BoundAssumption
        DEF VoiceTypeOK, ThreadTypeOK, AuthorizedTypeOK, RoomTypeOK, StartOK, PublicationStates,
            TransportStates, Results, Ops, At, Goto, Done, avcVars, vcVars, roomVars,
            callbackVars, serverVars, localVars, NoId, Ids, Threads, PCs
<1>1. ASSUME NEW t \in InputThreads, InputCall(t) PROVE VoiceTypeOK'
  BY <1>1 DEF InputCall, Press, Release, MayPress
<1>2. ASSUME NEW t \in ControlThreads, ControlCall(t) PROVE VoiceTypeOK'
  BY <1>2 DEF ControlCall, Connect, Refresh, Disconnect, VoiceConnect, TransportConnect
<1>3. ASSUME NEW t \in Threads, PressStep(t) PROVE VoiceTypeOK'
  BY <1>3 DEF PressStep, PressStarted, PressRefused, PressAdopt, PressVoiceDone, PressActivate,
              PressEnd, PressSettle, NotifyAll, Adopts, VoiceStartOver, EndCall, KeptAfterEnd
<1>4. ASSUME NEW t \in Threads, VoicePressStep(t) PROVE VoiceTypeOK'
  BY <1>4 DEF VoicePressStep, VoicePress, StartMicrophone, MicrophoneReturns, VoiceActivate,
              VoiceCancel, VoiceUnpublish, VoiceSettle, MayActivate, VoiceNotifyAll,
              MustUnpublish, BeginStop, FinishStop
<1>5. ASSUME NEW t \in Threads, ReleaseStep(t) PROVE VoiceTypeOK'
  BY <1>5 DEF ReleaseStep, ReleaseEnter, ReleaseWait, ReleaseEnd, ReleaseSettle, ReleaseReturns,
              StopsFrom, Sleep, EndCall, KeptAfterEnd, NotifyAll
<1>6. ASSUME NEW t \in Threads, VoiceReleaseStep(t) PROVE VoiceTypeOK'
  BY <1>6 DEF VoiceReleaseStep, VoiceReleaseEnter, VoiceReleaseWait, VoiceReleaseStop,
              VoiceReleaseUnpublish, VoiceReleaseSettle, BeginStop, FinishStop, VoiceNotifyAll
<1>7. ASSUME NEW t \in Threads, DisconnectStep(t) PROVE VoiceTypeOK'
  BY <1>7 DEF DisconnectStep, RefreshAnswer, DisableAndRelease, EndInterrupted, VoiceDisconnect,
              TransportDisconnect, TransportUnpublish, TransportStore, TransportLeave,
              FinishDisconnect, RefreshConnect, RefreshFinish, EndCall, KeptAfterEnd, BeginStop, FinishStop,
              OnTransportStateChanged, VoiceConnect, VoiceNotifyAll, TransportConnect
<1>8. ASSUME Confirmed PROVE VoiceTypeOK'
  BY <1>8 DEF Confirmed
<1>9. ASSUME NEW s \in TransportStates, ConnectionDrops(s) PROVE VoiceTypeOK'
  BY <1>9 DEF ConnectionDrops
<1>10. ASSUME Reconnected PROVE VoiceTypeOK'
  BY <1>10 DEF Reconnected
<1>11. ASSUME CallbackStep PROVE VoiceTypeOK'
  BY <1>11 DEF CallbackStep, CallbackUnpublish, CallbackStore, CallbackNotify,
               OnTransportStateChanged, VoiceNotifyAll
<1>12. ASSUME NEW i \in Ids, ForcedEnd(i) PROVE VoiceTypeOK'
  BY <1>12 DEF ForcedEnd
<1>13. CASE UNCHANGED vars
  BY <1>13 DEF vars
<1> QED
  BY <1>1, <1>2, <1>3, <1>4, <1>5, <1>6, <1>7, <1>8, <1>9, <1>10, <1>11, <1>12, <1>13
     DEF Next, ThreadStep

\* The types of the transport and its callback.
LEMMA StepRoomTyped == RoomTypeOK /\ [Next]_vars => RoomTypeOK'
<1> SUFFICES ASSUME RoomTypeOK, [Next]_vars PROVE RoomTypeOK'
  OBVIOUS
<1> USE BoundAssumption
        DEF RoomTypeOK, PublicationStates, TransportStates, Results, Ops, At, Goto, Done,
            avcVars, vcVars, roomVars, callbackVars, serverVars, localVars, NoId, Ids, Threads,
            PCs
<1>1. ASSUME NEW t \in InputThreads, InputCall(t) PROVE RoomTypeOK'
  BY <1>1 DEF InputCall, Press, Release, MayPress
<1>2. ASSUME NEW t \in ControlThreads, ControlCall(t) PROVE RoomTypeOK'
  BY <1>2 DEF ControlCall, Connect, Refresh, Disconnect, VoiceConnect, TransportConnect
<1>3. ASSUME NEW t \in Threads, PressStep(t) PROVE RoomTypeOK'
  BY <1>3 DEF PressStep, PressStarted, PressRefused, PressAdopt, PressVoiceDone, PressActivate,
              PressEnd, PressSettle, NotifyAll, Adopts, VoiceStartOver, EndCall, KeptAfterEnd
<1>4. ASSUME NEW t \in Threads, VoicePressStep(t) PROVE RoomTypeOK'
  BY <1>4 DEF VoicePressStep, VoicePress, StartMicrophone, MicrophoneReturns, VoiceActivate,
              VoiceCancel, VoiceUnpublish, VoiceSettle, MayActivate, VoiceNotifyAll,
              MustUnpublish, BeginStop, FinishStop
<1>5. ASSUME NEW t \in Threads, ReleaseStep(t) PROVE RoomTypeOK'
  BY <1>5 DEF ReleaseStep, ReleaseEnter, ReleaseWait, ReleaseEnd, ReleaseSettle, ReleaseReturns,
              StopsFrom, Sleep, EndCall, KeptAfterEnd, NotifyAll
<1>6. ASSUME NEW t \in Threads, VoiceReleaseStep(t) PROVE RoomTypeOK'
  BY <1>6 DEF VoiceReleaseStep, VoiceReleaseEnter, VoiceReleaseWait, VoiceReleaseStop,
              VoiceReleaseUnpublish, VoiceReleaseSettle, BeginStop, FinishStop, VoiceNotifyAll
<1>7. ASSUME NEW t \in Threads, DisconnectStep(t) PROVE RoomTypeOK'
  <2>1. CASE RefreshAnswer(t) \/ DisableAndRelease(t) \/ EndInterrupted(t) \/ VoiceDisconnect(t)
    BY <2>1 DEF RefreshAnswer, DisableAndRelease, EndInterrupted, VoiceDisconnect
  <2>2. CASE TransportDisconnect(t) \/ TransportUnpublish(t)
    BY <2>2 DEF TransportDisconnect, TransportUnpublish, BeginStop, FinishStop
  <2>3. CASE TransportStore(t)
    <3>1. joined' \in BOOLEAN
      BY <2>3, Zenon DEF TransportStore
    <3> QED
      BY <2>3, <3>1 DEF TransportStore
  <2>4. CASE TransportLeave(t)
    BY <2>4 DEF TransportLeave, OnTransportStateChanged, VoiceNotifyAll
  <2>5. CASE FinishDisconnect(t) \/ RefreshFinish(t)
    BY <2>5 DEF FinishDisconnect, RefreshFinish
  <2>6. CASE RefreshConnect(t)
    <3>1. joined' \in BOOLEAN
      BY <2>6, Zenon DEF RefreshConnect, VoiceConnect, TransportConnect
    <3> QED
      BY <2>6, <3>1 DEF RefreshConnect, VoiceConnect, TransportConnect
  <2> QED
    BY <1>7, <2>1, <2>2, <2>3, <2>4, <2>5, <2>6 DEF DisconnectStep
<1>8. ASSUME Confirmed PROVE RoomTypeOK'
  BY <1>8 DEF Confirmed
<1>9. ASSUME NEW s \in TransportStates, ConnectionDrops(s) PROVE RoomTypeOK'
  BY <1>9 DEF ConnectionDrops
<1>10. ASSUME Reconnected PROVE RoomTypeOK'
  BY <1>10 DEF Reconnected
<1>11. ASSUME CallbackStep PROVE RoomTypeOK'
  BY <1>11 DEF CallbackStep, CallbackUnpublish, CallbackStore, CallbackNotify,
               OnTransportStateChanged, VoiceNotifyAll
<1>12. ASSUME NEW i \in Ids, ForcedEnd(i) PROVE RoomTypeOK'
  BY <1>12 DEF ForcedEnd
<1>13. CASE UNCHANGED vars
  BY <1>13 DEF vars
<1> QED
  BY <1>1, <1>2, <1>3, <1>4, <1>5, <1>6, <1>7, <1>8, <1>9, <1>10, <1>11, <1>12, <1>13
     DEF Next, ThreadStep

\* The types of the control plane: every transmission is named after a press.
LEMMA StepServerTyped ==
    ServerTypeOK /\ AuthorizedTypeOK /\ ThreadTypeOK /\ VoiceTypeOK /\ OwnerOK /\ StartOK /\
    [Next]_vars => ServerTypeOK'
<1> SUFFICES ASSUME ServerTypeOK, AuthorizedTypeOK, ThreadTypeOK, VoiceTypeOK, OwnerOK, StartOK,
             [Next]_vars PROVE ServerTypeOK'
  OBVIOUS
<1> USE BoundAssumption
        DEF ServerTypeOK, AuthorizedTypeOK, ThreadTypeOK, VoiceTypeOK, OwnerOK, StartOK,
            VoicePressing, VoiceReleasing, Pressing, Within, OwnsPublication, At, Goto, Done,
            avcVars, vcVars, roomVars, callbackVars, serverVars, localVars, NoId, Ids, Threads,
            PCs
<1>1. ASSUME NEW t \in InputThreads, InputCall(t) PROVE ServerTypeOK'
  BY <1>1 DEF InputCall, Press, Release, MayPress
<1>2. ASSUME NEW t \in ControlThreads, ControlCall(t) PROVE ServerTypeOK'
  BY <1>2 DEF ControlCall, Connect, Refresh, Disconnect, VoiceConnect, TransportConnect
<1>3. ASSUME NEW t \in Threads, PressStep(t) PROVE ServerTypeOK'
  <2>1. CASE PressStarted(t)
    <3>1. myGen[t] \in Ids
      BY <2>1 DEF PressStarted
    <3> QED
      BY <2>1, <3>1 DEF PressStarted
  <2>2. CASE PressRefused(t)
    <3>1. myGen[t] \in Ids
      BY <2>2 DEF PressRefused
    <3>2. CASE UNCHANGED serverVars
      BY <3>2
    <3>3. CASE failures < MaxFailures /\ failures' = failures + 1 /\ live' = live \cup {myGen[t]}
               /\ unanswered' = unanswered \cup {myGen[t]} /\ UNCHANGED confirmed
      <4>1. failures' \in 0..MaxFailures
        BY <3>3
      <4>2. live' \subseteq Ids /\ unanswered' \subseteq Ids /\ confirmed' \subseteq Ids
        BY <3>1, <3>3
      <4> QED
        BY <4>1, <4>2
    <3> QED
      BY <2>2, <3>2, <3>3 DEF PressRefused
  <2>3. CASE PressAdopt(t)
    BY <2>3 DEF PressAdopt, Adopts
  <2>4. CASE PressVoiceDone(t)
    BY <2>4 DEF PressVoiceDone, VoiceStartOver
  <2>5. CASE PressActivate(t)
    BY <2>5 DEF PressActivate, NotifyAll
  <2>6. CASE PressEnd(t)
    BY <2>6, EndCallTyped DEF PressEnd
  <2>7. CASE PressSettle(t)
    BY <2>7 DEF PressSettle, KeptAfterEnd, NotifyAll
  <2> QED
    BY <1>3, <2>1, <2>2, <2>3, <2>4, <2>5, <2>6, <2>7 DEF PressStep
<1>4. ASSUME NEW t \in Threads, VoicePressStep(t) PROVE ServerTypeOK'
  BY <1>4 DEF VoicePressStep, VoicePress, StartMicrophone, MicrophoneReturns, VoiceActivate,
              VoiceCancel, VoiceUnpublish, VoiceSettle, MayActivate, VoiceNotifyAll,
              MustUnpublish, BeginStop, FinishStop
<1>5. ASSUME NEW t \in Threads, ReleaseStep(t) PROVE ServerTypeOK'
  <2>1. CASE ReleaseEnter(t)
    BY <2>1 DEF ReleaseEnter, ReleaseReturns, StopsFrom, Sleep
  <2>2. CASE ReleaseWait(t)
    BY <2>2 DEF ReleaseWait, ReleaseReturns, Sleep
  <2>3. CASE ReleaseEnd(t)
    BY <2>3, EndCallTyped DEF ReleaseEnd
  <2>4. CASE ReleaseSettle(t)
    BY <2>4 DEF ReleaseSettle, KeptAfterEnd, NotifyAll, ReleaseReturns
  <2> QED
    BY <1>5, <2>1, <2>2, <2>3, <2>4 DEF ReleaseStep
<1>6. ASSUME NEW t \in Threads, VoiceReleaseStep(t) PROVE ServerTypeOK'
  BY <1>6 DEF VoiceReleaseStep, VoiceReleaseEnter, VoiceReleaseWait, VoiceReleaseStop,
              VoiceReleaseUnpublish, VoiceReleaseSettle, BeginStop, FinishStop, VoiceNotifyAll
<1>7. ASSUME NEW t \in Threads, DisconnectStep(t) PROVE ServerTypeOK'
  <2>1. CASE RefreshAnswer(t)
    BY <2>1 DEF RefreshAnswer
  <2>2. CASE DisableAndRelease(t)
    BY <2>2 DEF DisableAndRelease
  <2>3. CASE EndInterrupted(t)
    <3>1. CASE UNCHANGED serverVars
      BY <3>1
    <3>2. CASE \E ok \in BOOLEAN : EndCall(txn, ok)
      BY <3>2, EndCallTyped
    <3> QED
      BY <2>3, <3>1, <3>2 DEF EndInterrupted
  <2>4. CASE VoiceDisconnect(t)
    BY <2>4 DEF VoiceDisconnect
  <2>5. CASE TransportDisconnect(t)
    BY <2>5 DEF TransportDisconnect, BeginStop
  <2>6. CASE TransportUnpublish(t)
    BY <2>6 DEF TransportUnpublish, FinishStop
  <2>11. CASE TransportStore(t)
    BY <2>11 DEF TransportStore
  <2>7. CASE TransportLeave(t)
    BY <2>7 DEF TransportLeave, OnTransportStateChanged, VoiceNotifyAll
  <2>8. CASE FinishDisconnect(t)
    BY <2>8 DEF FinishDisconnect
  <2>9. CASE RefreshConnect(t)
    BY <2>9 DEF RefreshConnect, VoiceConnect, TransportConnect
  <2>10. CASE RefreshFinish(t)
    BY <2>10 DEF RefreshFinish
  <2> QED
    BY <1>7, <2>1, <2>2, <2>3, <2>4, <2>5, <2>6, <2>7, <2>8, <2>9, <2>10, <2>11 DEF DisconnectStep
<1>8. ASSUME Confirmed PROVE ServerTypeOK'
  BY <1>8 DEF Confirmed
<1>9. ASSUME NEW s \in TransportStates, ConnectionDrops(s) PROVE ServerTypeOK'
  BY <1>9 DEF ConnectionDrops
<1>10. ASSUME Reconnected PROVE ServerTypeOK'
  BY <1>10 DEF Reconnected
<1>11. ASSUME CallbackStep PROVE ServerTypeOK'
  BY <1>11 DEF CallbackStep, CallbackUnpublish, CallbackStore, CallbackNotify,
               OnTransportStateChanged, VoiceNotifyAll
<1>12. ASSUME NEW i \in Ids, ForcedEnd(i) PROVE ServerTypeOK'
  BY <1>12 DEF ForcedEnd
<1>13. CASE UNCHANGED vars
  BY <1>13 DEF vars
<1> QED
  BY <1>1, <1>2, <1>3, <1>4, <1>5, <1>6, <1>7, <1>8, <1>9, <1>10, <1>11, <1>12, <1>13
     DEF Next, ThreadStep

\* The types of what the threads carry.
LEMMA StepThreadTyped ==
    ThreadTypeOK /\ AuthorizedTypeOK /\ VoiceTypeOK /\ OwnerOK /\ StartOK /\ [Next]_vars =>
    ThreadTypeOK'
<1> SUFFICES ASSUME ThreadTypeOK, AuthorizedTypeOK, VoiceTypeOK, OwnerOK, StartOK, [Next]_vars
             PROVE ThreadTypeOK'
  OBVIOUS
<1> USE BoundAssumption
        DEF ThreadTypeOK, AuthorizedTypeOK, VoiceTypeOK, OwnerOK, StartOK, VoicePressing,
            VoiceReleasing, Pressing, Within, OwnsPublication, PublicationStates,
            TransportStates, Results, Ops, At, Goto, Done, avcVars, vcVars, roomVars,
            callbackVars, serverVars, localVars, NoId, Ids, Threads, PCs
<1>1. ASSUME NEW t \in InputThreads, InputCall(t) PROVE ThreadTypeOK'
  BY <1>1 DEF InputCall, Press, Release, MayPress
<1>2. ASSUME NEW t \in ControlThreads, ControlCall(t) PROVE ThreadTypeOK'
  BY <1>2 DEF ControlCall, Connect, Refresh, Disconnect, VoiceConnect, TransportConnect
<1>3. ASSUME NEW t \in Threads, PressStep(t) PROVE ThreadTypeOK'
  <2>1. CASE PressStarted(t)
    BY <2>1 DEF PressStarted
  <2>2. CASE PressRefused(t)
    BY <2>2 DEF PressRefused, NotifyAll
  <2>3. CASE PressAdopt(t)
    BY <2>3 DEF PressAdopt, Adopts
  <2>4. CASE PressVoiceDone(t)
    BY <2>4 DEF PressVoiceDone, VoiceStartOver
  <2>5. CASE PressActivate(t)
    <3>1. CASE Done(t)
      BY <3>1, DoneTyped
    <3>2. CASE Goto(t, "vr_enter")
      BY <2>5, <3>2 DEF PressActivate
    <3> QED
      BY <2>5, <3>1, <3>2 DEF PressActivate
  <2>6. CASE PressEnd(t)
    BY <2>6 DEF PressEnd, EndCall
  <2>7. CASE PressSettle(t)
    BY <2>7 DEF PressSettle, KeptAfterEnd, NotifyAll
  <2> QED
    BY <1>3, <2>1, <2>2, <2>3, <2>4, <2>5, <2>6, <2>7 DEF PressStep
<1>4. ASSUME NEW t \in Threads, VoicePressStep(t) PROVE ThreadTypeOK'
  BY <1>4 DEF VoicePressStep, VoicePress, StartMicrophone, MicrophoneReturns, VoiceActivate,
              VoiceCancel, VoiceUnpublish, VoiceSettle, MayActivate, VoiceNotifyAll,
              MustUnpublish, BeginStop, FinishStop
<1>5. ASSUME NEW t \in Threads, ReleaseStep(t) PROVE ThreadTypeOK'
  <2>1. CASE ReleaseEnter(t)
    <3>1. CASE ReleaseReturns(t, FALSE)
      BY <3>1, ReleaseReturnsTyped
    <3>2. CASE pub \in StopsFrom /\ txn # NoId
      BY <2>1, <3>2 DEF ReleaseEnter, StopsFrom
    <3>3. CASE pub = "starting" /\ voiceStart
      BY <2>1, <3>3 DEF ReleaseEnter, StopsFrom
    <3>4. CASE /\ Goto(t, "r_wait")
               /\ myGen' = [myGen EXCEPT ![t] = gen]
               /\ UNCHANGED <<op, myVgen, id, ret, vres, endOk>>
      BY <3>4
    <3> QED
      BY <2>1, <3>1, <3>2, <3>3, <3>4 DEF ReleaseEnter
  <2>2. CASE ReleaseWait(t)
    BY <2>2, ReleaseReturnsTyped DEF ReleaseWait
  <2>3. CASE ReleaseEnd(t)
    BY <2>3 DEF ReleaseEnd, EndCall
  <2>4. CASE ReleaseSettle(t)
    BY <2>4, ReleaseReturnsTyped DEF ReleaseSettle
  <2> QED
    BY <1>5, <2>1, <2>2, <2>3, <2>4 DEF ReleaseStep
<1>6. ASSUME NEW t \in Threads, VoiceReleaseStep(t) PROVE ThreadTypeOK'
  BY <1>6 DEF VoiceReleaseStep, VoiceReleaseEnter, VoiceReleaseWait, VoiceReleaseStop,
              VoiceReleaseUnpublish, VoiceReleaseSettle, BeginStop, FinishStop, VoiceNotifyAll
<1>7. ASSUME NEW t \in Threads, DisconnectStep(t) PROVE ThreadTypeOK'
  <2>1. CASE RefreshAnswer(t)
    <3>1. CASE Done(t)
      BY <3>1, DoneTyped
    <3>2. CASE Goto(t, "d_enter") /\ UNCHANGED <<op, localVars>>
      BY <3>2, GotoTyped
    <3> QED
      BY <2>1, <3>1, <3>2 DEF RefreshAnswer
  <2>2. CASE DisableAndRelease(t)
    BY <2>2 DEF DisableAndRelease
  <2>3. CASE EndInterrupted(t)
    <3>1. CASE Done(t)
      BY <3>1, DoneTyped
    <3>2. CASE Goto(t, "d_voice") /\ UNCHANGED <<op, localVars>>
      BY <3>2, GotoTyped
    <3> QED
      BY <2>3, <3>1, <3>2 DEF EndInterrupted
  <2>4. CASE VoiceDisconnect(t)
    BY <2>4 DEF VoiceDisconnect
  <2>5. CASE TransportDisconnect(t)
    <3>1. CASE Done(t)
      BY <3>1, DoneTyped
    <3>2. CASE /\ BeginStop(t, "d_unpublish", "d_store", "ok")
               /\ UNCHANGED <<op, myGen, myVgen, id, ret, endOk>>
      BY <3>2 DEF BeginStop
    <3> QED
      BY <2>5, <3>1, <3>2 DEF TransportDisconnect
  <2>6. CASE TransportUnpublish(t)
    BY <2>6 DEF TransportUnpublish, FinishStop
  <2>11. CASE TransportStore(t)
    BY <2>11 DEF TransportStore
  <2>7. CASE TransportLeave(t)
    BY <2>7 DEF TransportLeave, OnTransportStateChanged, VoiceNotifyAll
  <2>8. CASE FinishDisconnect(t)
    <3>1. CASE Done(t)
      BY <3>1, DoneTyped
    <3>2. CASE Goto(t, "f_connect") /\ UNCHANGED <<op, localVars>>
      BY <3>2, GotoTyped
    <3> QED
      BY <2>8, <3>1, <3>2 DEF FinishDisconnect
  <2>9. CASE RefreshConnect(t)
    <3>1. CASE Done(t)
      BY <3>1, DoneTyped
    <3>2. CASE Goto(t, "f_finish") /\ UNCHANGED <<op, localVars>>
      BY <3>2, GotoTyped
    <3> QED
      BY <2>9, <3>1, <3>2 DEF RefreshConnect
  <2>10. CASE RefreshFinish(t)
    BY <2>10 DEF RefreshFinish
  <2> QED
    BY <1>7, <2>1, <2>2, <2>3, <2>4, <2>5, <2>6, <2>7, <2>8, <2>9, <2>10, <2>11 DEF DisconnectStep
<1>8. ASSUME Confirmed PROVE ThreadTypeOK'
  BY <1>8 DEF Confirmed
<1>9. ASSUME NEW s \in TransportStates, ConnectionDrops(s) PROVE ThreadTypeOK'
  BY <1>9 DEF ConnectionDrops
<1>10. ASSUME Reconnected PROVE ThreadTypeOK'
  BY <1>10 DEF Reconnected
<1>11. ASSUME CallbackStep PROVE ThreadTypeOK'
  BY <1>11 DEF CallbackStep, CallbackUnpublish, CallbackStore, CallbackNotify,
               OnTransportStateChanged, VoiceNotifyAll
<1>12. ASSUME NEW i \in Ids, ForcedEnd(i) PROVE ThreadTypeOK'
  BY <1>12 DEF ForcedEnd
<1>13. CASE UNCHANGED vars
  BY <1>13 DEF vars
<1> QED
  BY <1>1, <1>2, <1>3, <1>4, <1>5, <1>6, <1>7, <1>8, <1>9, <1>10, <1>11, <1>12, <1>13
     DEF Next, ThreadStep

-----------------------------------------------------------------------------
(* The inductive invariant of the client. *)
ClientInv ==
    /\ TypeOK /\ ReturnsOK /\ ControlOK /\ OwnerOK /\ StartOK /\ LedgerOK
    /\ NoOrphanedTransmission /\ VoiceOwnerOK /\ CoveredOK /\ MicrophoneOK

\* The first state satisfies it: nobody is in a call, nothing is published.
LEMMA InitClient == Init => ClientInv
<1> SUFFICES ASSUME Init PROVE ClientInv
  OBVIOUS
<1> USE BoundAssumption DEF Init, NoId, Ids, Threads
<1>1. TypeOK
  <2>1. AuthorizedTypeOK
    <3>1. /\ voiceStart \in BOOLEAN /\ lastOk \in BOOLEAN
          /\ enabled \in BOOLEAN /\ member \in BOOLEAN
      BY Zenon
    <3>2. pub \in PublicationStates /\ gen \in 0..MaxPresses /\ txn \in Ids \cup {NoId}
      BY DEF PublicationStates
    <3> QED
      BY <3>1, <3>2 DEF AuthorizedTypeOK
  <2>2. VoiceTypeOK
    BY DEF VoiceTypeOK, PublicationStates, TransportStates, Results
  <2>3. RoomTypeOK /\ ServerTypeOK
    <3>1. joined \in BOOLEAN
      BY Zenon
    <3> QED
      BY <3>1 DEF RoomTypeOK, ServerTypeOK, PublicationStates, TransportStates
  <2>4. ThreadTypeOK
    BY DEF ThreadTypeOK, PCs, Ops, Results
  <2> QED
    BY <2>1, <2>2, <2>3, <2>4 DEF TypeOK
<1>2. ReturnsOK /\ ControlOK /\ OwnerOK /\ StartOK
  BY DEF ReturnsOK, ControlOK, OwnerOK, StartOK, VoicePressing, VoiceReleasing, Pressing,
         CleaningUp, Within, OwnsPublication, Cancels, CleansUp
<1>3. LedgerOK /\ NoOrphanedTransmission
  BY DEF LedgerOK, NoOrphanedTransmission, VoicePressing, VoiceReleasing, Pressing, Within,
         OwnsPublication
<1>4. VoiceOwnerOK /\ CoveredOK /\ MicrophoneOK
  BY DEF VoiceOwnerOK, CoveredOK, MicrophoneOK, OwnsVoice, VoicePressing, VoiceReleasing
<1> QED
  BY <1>1, <1>2, <1>3, <1>4 DEF ClientInv

\* Every reachable state satisfies it.
LEMMA ClientInvariance == Spec => []ClientInv
<1>1. ClientInv /\ [Next]_vars => ClientInv'
  <2> SUFFICES ASSUME ClientInv, [Next]_vars PROVE ClientInv'
    OBVIOUS
  <2>1. AuthorizedTypeOK' /\ VoiceTypeOK' /\ RoomTypeOK' /\ ServerTypeOK' /\ ThreadTypeOK'
    BY StepAuthorizedTyped, StepVoiceTyped, StepRoomTyped, StepServerTyped, StepThreadTyped
       DEF ClientInv, TypeOK
  <2>2. OwnerOK' /\ StartOK'
    BY StepOwner, StepStart DEF ClientInv
  <2>3. (voiceStart => pub \in {"starting", "stopping"})'
    BY <2>2 DEF OwnerOK, StartOK, OwnsPublication, Within, Pressing, VoicePressing
  <2> QED
    BY <2>1, <2>2, <2>3, StepReturns, StepControl, StepLedger, StepNoOrphan, StepVoiceOwner,
       StepCovered, StepMicrophone DEF ClientInv, TypeOK
<1> QED
  BY <1>1, InitClient, PTL DEF Spec

\* AuthorizedVoiceClient, VoiceClient and the transport keep their types, and a voice
\* start is in progress only while a publication is starting or stopping.
THEOREM ClientTypeCorrect == Spec => []TypeOK
<1>1. ClientInv => TypeOK
  BY DEF ClientInv
<1> QED
  BY <1>1, ClientInvariance, PTL

\* Whatever cancels a press, and whether or not ending it fails, the client does not
\* forget a transmission that is active on the server and whose start was answered
\* (pressPushToTalk, releasePushToTalk, endInterruptedTransmission).
THEOREM ClientForgetsNoTransmission == Spec => []NoOrphanedTransmission
<1>1. ClientInv => NoOrphanedTransmission
  BY DEF ClientInv
<1> QED
  BY <1>1, ClientInvariance, PTL

\* The paths that cancel a press (its own failure, a release, a disconnect, a refresh)
\* never call the end endpoint twice for one transmission.
THEOREM ClientEndsOnce == Spec => []EndpointCalledOnce
<1>1. ASSUME ClientInv PROVE EndpointCalledOnce
  <2> SUFFICES ASSUME NEW i \in Ids
               PROVE  /\ Cardinality(Ending(i) \cup Cleaning(i)) <= 1
                      /\ i \in confirmed => Ending(i) \cup Cleaning(i) = {}
    BY DEF EndpointCalledOnce
  <2> DEFINE E == Ending(i) \cup Cleaning(i)
  <2> USE <1>1 DEF ClientInv, At, VoicePressing, VoiceReleasing, Pressing, CleaningUp, Within,
                   OwnsPublication, CleansUp
  <2>1. \A t \in Ending(i) : OwnsPublication(t) /\ pc[t] \in {"p_end", "r_end"} /\ txn = i
    BY DEF Ending, LedgerOK
  <2>2. \A t \in Cleaning(i) : t \in ControlThreads /\ pub = "idle" /\ txn = i
    BY DEF Cleaning, ControlOK
  <2>3. \A t, u \in E : t = u
    BY <2>1, <2>2, SerialControlAssumption DEF Ending, Cleaning, OwnerOK
  <2>4. Cardinality(E) <= 1
    <3>1. CASE E = {}
      BY <3>1, FS_EmptySet
    <3>2. CASE E # {}
      <4>1. PICK t \in E : TRUE
        BY <3>2
      <4>2. E = {t}
        BY <4>1, <2>3
      <4> QED
        BY <4>2, FS_Singleton
    <3> QED
      BY <3>1, <3>2
  <2>5. ASSUME i \in confirmed PROVE E = {}
    <3>1. ASSUME NEW t \in E PROVE FALSE
      <4>1. PICK u \in Threads : pc[u] \in {"p_settle", "r_settle"}
        BY <2>1, <2>2, <2>5, <3>1 DEF LedgerOK
      <4>2. OwnsPublication(u) /\ pub # "idle"
        BY <4>1 DEF OwnerOK
      <4>3. t \in Ending(i)
        BY <2>2, <4>2
      <4> QED
        BY <2>1, <4>1, <4>2, <4>3 DEF Ending, OwnerOK
    <3> QED
      BY <3>1
  <2> QED
    BY <2>4, <2>5
<1> QED
  BY <1>1, ClientInvariance, PTL

\* While the room connection holds, the microphone is on only under a transmission the
\* server authorized, and when no call is in progress only if both layers above it are
\* transmitting (releasePushToTalk, startMicrophone, stopMicrophoneIfActive).
THEOREM MicrophoneIsAuthorized == Spec => []MicrophoneFollowsTransmission
<1>1. ASSUME ClientInv PROVE MicrophoneFollowsTransmission
  <2> SUFFICES ASSUME drops = 0, mic \in {"starting", "active"}
               PROVE  txn # NoId /\ (Quiet => pub = "active" /\ vpub = "active")
    BY DEF MicrophoneFollowsTransmission
  <2> USE <1>1 DEF ClientInv
  <2>1. vpub = "active" \/ \E t \in Threads : HandlesMicrophone(t)
    BY DEF MicrophoneOK
  <2>2. vpub # "idle"
    BY <2>1 DEF VoiceOwnerOK, HandlesMicrophone, OwnsVoice, VoicePressing
  <2>3. pub = "active" \/ \E t \in Threads : Speaks(t)
    BY <2>2 DEF CoveredOK
  <2>4. txn # NoId
    BY <2>3 DEF LedgerOK, Speaks, OwnsPublication, Within, Pressing, VoicePressing,
                VoiceReleasing
  <2>5. ASSUME Quiet PROVE pub = "active" /\ vpub = "active"
    BY <2>1, <2>3, <2>5 DEF Quiet, HandlesMicrophone, Speaks, Within, VoicePressing,
                            VoiceReleasing
  <2> QED
    BY <2>4, <2>5
<1> QED
  BY <1>1, ClientInvariance, PTL

=============================================================================
