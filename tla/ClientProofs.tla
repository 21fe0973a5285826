---------------------------- MODULE ClientProofs ----------------------------
(***************************************************************************)
(* What holds of the playout of remote audio for every number of buffers,  *)
(* frames and changes of the gain, of the client core for every number of  *)
(* callback threads, calls of the host and callbacks, of the sample queue  *)
(* for every capacity, batch and interleaving of its two threads, and of   *)
(* the voice session for every number of scopes, versions and requests.    *)
(***************************************************************************)
EXTENDS AudioPlayout, ClientCore, SampleQueue, VoiceSession, TLAPS

-----------------------------------------------------------------------------
(* The playout of remote audio. *)

(* A frame that was not handed to the platform has no buffer yet: the ones that
   were not read, and the one the reader holds.  One the reader has registered is
   its own until it submits it. *)
FreshFrames ==
    /\ \A f \in Frames : f > frames => f \notin buffered /\ freed[f] = 0
    /\ reader = "writing" => frames \in Frames /\ frames \notin buffered /\ freed[frames] = 0
    /\ reader = "registered" =>
         /\ frames \in Frames /\ backend = "xaudio2"
         /\ frames \in buffered /\ frames # ending
         /\ \A i \in DOMAIN playing : playing[i] # frames

(* XAudio2 holds every buffer once, in its queue or in the callback that runs. *)
HeldOnce ==
    /\ backend = "xaudio2" =>
         /\ \A i \in DOMAIN playing : playing[i] \in buffered /\ playing[i] # ending
         /\ \A i, j \in DOMAIN playing : playing[i] = playing[j] => i = j
         /\ ending # 0 => ending \in buffered
    /\ backend = "pipewire" => buffered = {} /\ ending = 0

(* When the platform stream is destroyed, nobody uses buffers any more. *)
AfterDestruction ==
    /\ owner \in {"released", "gone"} => reader = "done" /\ playing = <<>> /\ ending = 0
    /\ owner = "gone" => buffered = {}

FreedAtMostOnce == \A f \in Frames : freed[f] + (IF f \in buffered THEN 1 ELSE 0) <= 1

BufferInv == PlayoutTypeOK /\ FreshFrames /\ HeldOnce /\ AfterDestruction /\ FreedAtMostOnce

\* Nothing is buffered, held or freed at first.
LEMMA InitBuffers == PlayoutInit => BufferInv
<1> SUFFICES ASSUME PlayoutInit PROVE BufferInv
  OBVIOUS
<1>1. PlayoutTypeOK
  <2>1. closed \in BOOLEAN /\ setting \in BOOLEAN
    BY Zenon DEF PlayoutInit
  <2>2. freed \in [Frames -> Nat]
    BY DEF PlayoutInit
  <2> QED
    BY <2>1, <2>2, PlayoutAssumption DEF PlayoutInit, PlayoutTypeOK
<1>2. FreshFrames /\ FreedAtMostOnce
  BY DEF PlayoutInit, FreshFrames, FreedAtMostOnce
<1>3. HeldOnce /\ AfterDestruction
  BY DEF PlayoutInit, HeldOnce, AfterDestruction
<1> QED
  BY <1>1, <1>2, <1>3 DEF BufferInv

\* The parts of the invariant that a step leaves alone when it touches no buffer and the
\* reader holds no other frame than before.
LEMMA BuffersUntouched ==
    ASSUME BufferInv, UNCHANGED <<backend, frames>>, UNCHANGED bufferVars,
           reader' \in {"writing", "registered"} => reader' = reader,
           reader = "done" => reader' = "done",
           owner' \in {"released", "gone"} => owner' = owner
    PROVE  FreshFrames' /\ HeldOnce' /\ AfterDestruction' /\ FreedAtMostOnce'
  BY DEF BufferInv, FreshFrames, HeldOnce, AfterDestruction, FreedAtMostOnce, bufferVars

\* Every step keeps the buffers accounted for.
LEMMA StepBuffers == BufferInv /\ [PlayoutNext]_playoutVars => BufferInv'
<1> SUFFICES ASSUME BufferInv, [PlayoutNext]_playoutVars PROVE BufferInv'
  OBVIOUS
<1> USE PlayoutAssumption DEF BufferInv
<1>1. ASSUME NEW kind \in FrameKinds, Read(kind) PROVE BufferInv'
  <2>1. PlayoutTypeOK'
    BY <1>1 DEF Read, OpenSink, UseSink, VolumeOfNewVoice, PlayoutTypeOK, Backends, bufferVars
  <2>2. /\ frames' = frames + 1 /\ frames' \in Frames /\ reader = "reading"
        /\ UNCHANGED <<backend, owner, buffered, playing, ending, freed>>
    BY <1>1 DEF Read, PlayoutTypeOK, Frames, bufferVars
  <2>4. reader' # "registered"
    BY <1>1 DEF Read, OpenSink, UseSink
  <2>3. FreshFrames'
    BY <2>2, <2>4 DEF FreshFrames, PlayoutTypeOK, Frames
  <2> QED
    BY <2>1, <2>2, <2>3 DEF HeldOnce, AfterDestruction, FreedAtMostOnce
<1>2. CASE ReadEnds
  <2>1. PlayoutTypeOK'
    BY <1>2 DEF ReadEnds, PlayoutTypeOK, bufferVars, gainVars
  <2> QED
    BY <1>2, <2>1, BuffersUntouched DEF ReadEnds
<1>14. CASE ReaderFails
  <2>1. PlayoutTypeOK'
    BY <1>14 DEF ReaderFails, PlayoutTypeOK, bufferVars, gainVars
  <2> QED
    BY <1>14, <2>1, BuffersUntouched DEF ReaderFails
<1>15. CASE RegisterBuffer
  <2>1. /\ UNCHANGED <<backend, sink, owner, closed, frames, gain, volume, setting>>
        /\ UNCHANGED <<playing, ending, freed>>
    BY <1>15 DEF RegisterBuffer, gainVars
  <2>2. frames \in Frames /\ frames \notin buffered /\ freed[frames] = 0 /\ reader = "writing"
    BY <1>15 DEF RegisterBuffer, FreshFrames
  <2>3. owner \notin {"released", "gone"} /\ backend = "xaudio2"
    BY <1>15 DEF RegisterBuffer, AfterDestruction
  <2>4. CASE reader' = "done" /\ buffered' = buffered
    BY <2>1, <2>4, BuffersUntouched DEF PlayoutTypeOK, bufferVars
  <2>5. CASE reader' = "registered" /\ buffered' = buffered \cup {frames}
    <3>1. PlayoutTypeOK'
      BY <2>1, <2>2, <2>5 DEF PlayoutTypeOK
    <3>2. FreshFrames'
      <4>1. \A i \in DOMAIN playing : playing[i] # frames
        BY <2>2, <2>3 DEF HeldOnce
      <4>2. ending # frames
        BY <2>2, <2>3 DEF HeldOnce, Frames
      <4>3. \A f \in Frames : f > frames => f # frames
        BY DEF Frames, PlayoutTypeOK
      <4> QED
        BY <2>1, <2>2, <2>3, <2>5, <4>1, <4>2, <4>3 DEF FreshFrames
    <3>3. HeldOnce' /\ AfterDestruction' /\ FreedAtMostOnce'
      BY <2>1, <2>2, <2>3, <2>5 DEF HeldOnce, AfterDestruction, FreedAtMostOnce
    <3> QED
      BY <3>1, <3>2, <3>3
  <2> QED
    BY <1>15, <2>4, <2>5 DEF RegisterBuffer
<1>3. CASE SubmitBuffer
  <2>1. UNCHANGED <<backend, sink, owner, closed, frames, ending, gain, volume, setting>>
    BY <1>3 DEF SubmitBuffer, gainVars
  <2>2. /\ reader = "registered" /\ backend = "xaudio2"
        /\ frames \in Frames /\ frames \in buffered /\ frames # ending
        /\ \A i \in DOMAIN playing : playing[i] # frames
    BY <1>3 DEF SubmitBuffer, FreshFrames
  <2>3. owner \notin {"released", "gone"}
    BY <1>3 DEF SubmitBuffer, AfterDestruction
  <2>4. \A f \in Frames : f > frames => f # frames
    BY DEF Frames, PlayoutTypeOK
  <2>5. CASE /\ reader' = "reading" /\ playing' = Append(playing, frames)
             /\ UNCHANGED <<buffered, freed>>
    <3>1. PlayoutTypeOK'
      BY <2>1, <2>2, <2>5 DEF PlayoutTypeOK
    <3>2. FreshFrames' /\ AfterDestruction' /\ FreedAtMostOnce'
      BY <2>1, <2>3, <2>5 DEF FreshFrames, AfterDestruction, FreedAtMostOnce
    <3>3. HeldOnce'
      BY <2>1, <2>2, <2>5 DEF HeldOnce, PlayoutTypeOK
    <3> QED
      BY <3>1, <3>2, <3>3
  <2>6. CASE reader' = "done" /\ ReleaseBuffer(frames) /\ UNCHANGED playing
    <3>1. buffered' = buffered \ {frames} /\ freed' = [freed EXCEPT ![frames] = @ + 1]
      BY <2>2, <2>6 DEF ReleaseBuffer
    <3>2. PlayoutTypeOK'
      BY <2>1, <2>2, <2>6, <3>1 DEF PlayoutTypeOK
    <3>3. freed'[frames] = freed[frames] + 1 /\ \A f \in Frames \ {frames} : freed'[f] = freed[f]
      BY <2>2, <3>1 DEF PlayoutTypeOK
    <3>4. FreshFrames' /\ FreedAtMostOnce'
      BY <2>1, <2>2, <2>4, <2>6, <3>1, <3>3 DEF FreshFrames, FreedAtMostOnce, PlayoutTypeOK
    <3>5. HeldOnce' /\ AfterDestruction'
      BY <2>1, <2>2, <2>3, <2>6, <3>1 DEF HeldOnce, AfterDestruction
    <3> QED
      BY <3>2, <3>4, <3>5
  <2> QED
    BY <1>3, <2>5, <2>6 DEF SubmitBuffer
<1>4. CASE PushFrame
  <2>1. UNCHANGED <<backend, sink, owner, closed, frames, buffered, ending, freed>>
    BY <1>4 DEF PushFrame
  <2>2. /\ reader = "writing" /\ backend = "pipewire" /\ reader' \in {"reading", "done"}
        /\ playing' \in {playing, Append(playing, frames)}
    BY <1>4 DEF PushFrame
  <2>3. PlayoutTypeOK'
    BY <1>4, <2>2 DEF PushFrame, PlayoutTypeOK, FreshFrames, gainVars
  <2> QED
    BY <2>1, <2>2, <2>3 DEF FreshFrames, HeldOnce, AfterDestruction, FreedAtMostOnce
<1>5. CASE BufferPlayed
  <2>1. /\ UNCHANGED <<backend, reader, sink, owner, closed, frames, buffered, freed>>
        /\ UNCHANGED <<gain, volume, setting>>
        /\ backend = "xaudio2" /\ playing # <<>>
        /\ ending' = Head(playing) /\ playing' = Tail(playing)
    BY <1>5 DEF BufferPlayed, gainVars
  <2>2. PlayoutTypeOK'
    BY <2>1 DEF PlayoutTypeOK, Frames
  <2>3. HeldOnce'
    <3>1. 1 \in DOMAIN playing /\ ending' = playing[1]
      BY <2>1 DEF PlayoutTypeOK
    <3>2. \A i \in DOMAIN playing' : i + 1 \in DOMAIN playing /\ i + 1 # 1
                                     /\ playing'[i] = playing[i + 1]
      BY <2>1 DEF PlayoutTypeOK
    <3>3. /\ \A i \in DOMAIN playing' : playing'[i] \in buffered' /\ playing'[i] # ending'
          /\ ending' \in buffered'
      BY <2>1, <3>1, <3>2 DEF HeldOnce
    <3>4. ASSUME NEW i \in DOMAIN playing', NEW j \in DOMAIN playing', playing'[i] = playing'[j]
          PROVE  i = j
      <4>1. i + 1 = j + 1
        BY <2>1, <3>2, <3>4 DEF HeldOnce
      <4>2. i \in Int /\ j \in Int
        BY <2>2, SMTT(30) DEF PlayoutTypeOK
      <4> QED
        BY <4>1, <4>2
    <3> QED
      BY <2>1, <3>3, <3>4 DEF HeldOnce
  <2>4. FreshFrames' /\ FreedAtMostOnce'
    BY <2>1 DEF FreshFrames, FreedAtMostOnce
  <2>5. AfterDestruction'
    BY <2>1 DEF AfterDestruction
  <2> QED
    BY <2>2, <2>3, <2>4, <2>5
<1>6. CASE OnBufferEnd
  <2>1. /\ UNCHANGED <<backend, reader, sink, owner, closed, frames, playing>>
        /\ UNCHANGED <<gain, volume, setting>>
        /\ ending # 0 /\ ending' = 0 /\ backend = "xaudio2"
        /\ ending \in buffered /\ ending \in Frames
        /\ buffered' = buffered \ {ending}
        /\ freed' = [freed EXCEPT ![ending] = @ + 1]
    BY <1>6 DEF OnBufferEnd, ReleaseBuffer, gainVars, HeldOnce, PlayoutTypeOK, Backends
  <2>2. PlayoutTypeOK'
    BY <2>1 DEF PlayoutTypeOK
  <2>3. ending <= frames /\ (reader \in {"writing", "registered"} => ending # frames)
    BY <2>1 DEF FreshFrames, Frames, PlayoutTypeOK
  <2>4. FreshFrames' /\ FreedAtMostOnce'
    BY <2>1, <2>3 DEF FreshFrames, FreedAtMostOnce, PlayoutTypeOK, Frames
  <2>5. HeldOnce'
    BY <2>1 DEF HeldOnce, PlayoutTypeOK, Frames
  <2>6. AfterDestruction'
    BY <2>1 DEF AfterDestruction
  <2> QED
    BY <2>2, <2>4, <2>5, <2>6
<1>7. CASE OnProcess
  <2>1. PlayoutTypeOK'
    BY <1>7 DEF OnProcess, PlayoutTypeOK, gainVars
  <2>2. /\ UNCHANGED <<backend, reader, owner, frames, buffered, ending, freed>>
        /\ backend = "pipewire" /\ playing # <<>>
    BY <1>7 DEF OnProcess
  <2> QED
    BY <2>1, <2>2 DEF FreshFrames, HeldOnce, AfterDestruction, FreedAtMostOnce
<1>8. CASE StoreGain
  <2>1. PlayoutTypeOK'
    BY <1>8 DEF StoreGain, PlayoutTypeOK, bufferVars
  <2> QED
    BY <1>8, <2>1, BuffersUntouched DEF StoreGain
<1>9. CASE TellVoice
  <2>1. PlayoutTypeOK'
    BY <1>9 DEF TellVoice, PlayoutTypeOK, bufferVars
  <2> QED
    BY <1>9, <2>1, BuffersUntouched DEF TellVoice
<1>10. CASE BeginDestroy \/ RequestStop
  <2>1. PlayoutTypeOK'
    BY <1>10 DEF BeginDestroy, RequestStop, Close, PlayoutTypeOK, bufferVars, gainVars
  <2> QED
    BY <1>10, <2>1, BuffersUntouched DEF BeginDestroy, RequestStop
<1>11. CASE DestroySink
  <2>1. PICK late \in SUBSET {playing[i] : i \in DOMAIN playing} :
          /\ buffered' = buffered \ late
          /\ freed' = [f \in Frames |-> freed[f] + IF f \in late \cap buffered THEN 1 ELSE 0]
    BY <1>11 DEF DestroySink
  <2>2. /\ UNCHANGED <<backend, reader, closed, frames, ending, gain, volume, setting>>
        /\ reader = "done" /\ ending = 0 /\ playing' = <<>>
        /\ owner' = "released" /\ sink' = "destroyed"
    BY <1>11 DEF DestroySink, gainVars
  <2>3. PlayoutTypeOK'
    BY <2>1, <2>2 DEF PlayoutTypeOK
  <2>4. FreshFrames' /\ FreedAtMostOnce'
    BY <2>1, <2>2 DEF FreshFrames, FreedAtMostOnce, PlayoutTypeOK
  <2>5. HeldOnce' /\ AfterDestruction'
    BY <2>1, <2>2 DEF HeldOnce, AfterDestruction
  <2> QED
    BY <2>3, <2>4, <2>5
<1>12. CASE ReleasePendingBuffers
  <2>1. /\ UNCHANGED <<backend, reader, sink, closed, frames, playing, ending>>
        /\ UNCHANGED <<gain, volume, setting>>
        /\ owner = "released" /\ owner' = "gone" /\ buffered' = {}
        /\ freed' = [f \in Frames |-> freed[f] + IF f \in buffered THEN 1 ELSE 0]
    BY <1>12 DEF ReleasePendingBuffers, gainVars
  <2>2. PlayoutTypeOK'
    BY <2>1 DEF PlayoutTypeOK
  <2>3. FreshFrames' /\ FreedAtMostOnce'
    BY <2>1 DEF FreshFrames, FreedAtMostOnce, AfterDestruction, PlayoutTypeOK
  <2>4. HeldOnce' /\ AfterDestruction'
    BY <2>1 DEF HeldOnce, AfterDestruction
  <2> QED
    BY <2>2, <2>3, <2>4
<1>13. CASE UNCHANGED playoutVars
  BY <1>13 DEF playoutVars, PlayoutTypeOK, FreshFrames, HeldOnce, AfterDestruction,
               FreedAtMostOnce
<1> QED
  BY <1>1, <1>2, <1>3, <1>4, <1>5, <1>6, <1>7, <1>8, <1>9, <1>10, <1>11, <1>12, <1>13,
     <1>14, <1>15 DEF PlayoutNext, ReaderStep, PlatformStep, OwnerStep

\* Every reachable state satisfies the invariant of the buffers.
LEMMA BufferInvariance == PlayoutSpec => []BufferInv
  BY InitBuffers, StepBuffers, PTL DEF PlayoutSpec

\* The playout keeps its types from its construction to its destruction.
THEOREM PlayoutTypeCorrect == PlayoutSpec => []PlayoutTypeOK
<1>1. BufferInv => PlayoutTypeOK
  BY DEF BufferInv
<1> QED
  BY <1>1, BufferInvariance, PTL

\* A buffer is registered as long as XAudio2 may read it, is deleted at most once, and
\* none is left when the playout is gone, whatever the order of OnBufferEnd, a failed
\* submission and the destructor (releaseBuffer, releasePendingBuffers).
THEOREM PlayoutFreesBuffersOnce == PlayoutSpec => []BuffersFreedOnce
<1>1. BufferInv => BuffersFreedOnce
  BY DEF BufferInv, HeldOnce, AfterDestruction, FreedAtMostOnce, BuffersFreedOnce
<1> QED
  BY <1>1, BufferInvariance, PTL

-----------------------------------------------------------------------------
(* The client core. *)

Events ==
    [kind : {"membership"}, version : Nat] \cup [kind : {"error"}]
    \cup [kind : {"voice"}, what : CallbackKinds]

CoreShape ==
    /\ back \in [CoreThreads ->
                    {Outside} \cup [at : {"wrapper", "table", "client", "report", "emit"},
                                    what : CallbackKinds]]
    /\ told \in Seq(Events)
    /\ call \in {NoReport, Error, Connecting} \cup [kind : {"membership"}, version : Nat]
    /\ sequence = Len(told) + 1
    /\ membership \in Nat

(* The transport calls back only while it has an observer, and it has none once
   the core is gone. *)
CalledBack ==
    /\ ~hostObs => \A t \in CoreThreads : back[t].at = "out"
    /\ handle = "freed" => ~hostObs

(* A call that stored a membership has still to tell it, and nobody else tells one. *)
ToldInOrder ==
    \A i, j \in Memberships :
        i < j /\ (\A k \in Memberships : k <= i \/ k >= j) =>
            told[j].version = 0 \/ told[j].version > told[i].version

ToldLast ==
    IF call.kind = "membership"
    THEN /\ call.version = membership
         /\ \A i \in Memberships : IsLast(i) => call.version = 0 \/ call.version > told[i].version
    ELSE /\ \A i \in Memberships : IsLast(i) => told[i].version = membership
         /\ Memberships = {} => membership = 0

CoreInv == CoreTypeOK /\ CoreShape /\ CalledBack /\ ToldInOrder /\ ToldLast

\* A core that does not exist yet has told nothing.
LEMMA InitCore == CoreInit => CoreInv
<1> SUFFICES ASSUME CoreInit PROVE CoreInv
  OBVIOUS
<1> USE DEF CoreInit
<1>1. CoreShape
  BY DEF CoreShape, Outside
<1>2. CoreTypeOK
  <2>1. wrapperObs \in BOOLEAN /\ hostObs \in BOOLEAN /\ tableObs \in BOOLEAN /\ clientObs \in BOOLEAN
    OBVIOUS
  <2> QED
    BY <2>1 DEF CoreTypeOK, CoreStates, Outside
<1>3. CalledBack
  BY DEF CalledBack, Outside
<1>4. ToldInOrder /\ ToldLast
  BY DEF ToldInOrder, ToldLast, Memberships, NoReport
<1> QED
  BY <1>1, <1>2, <1>3, <1>4 DEF CoreInv

\* The types of the core, and who calls it back.
LEMMA StepCoreTypes ==
    ASSUME CoreInv, [CoreNext]_coreVars
    PROVE  CoreTypeOK' /\ CoreShape' /\ CalledBack'
<1> USE CoreAssumption DEF CoreInv, CoreTypeOK, CoreShape, CalledBack, observerVars, eventVars
<1>1. CASE Create
  BY <1>1 DEF Create
<1>2. ASSUME NEW ok \in BOOLEAN, Attached(ok) PROVE CoreTypeOK' /\ CoreShape' /\ CalledBack'
  BY <1>2 DEF Attached
<1>3. CASE Created
  BY <1>3 DEF Created
<1>4. CASE Destroy
  BY <1>4 DEF Destroy
<1>5. CASE Detach
  BY <1>5 DEF Detach
<1>6. CASE Freed
  BY <1>6 DEF Freed, CallbacksEnded
<1>7. ASSUME NEW v \in HostVersions, UpdateMembership(v)
      PROVE  CoreTypeOK' /\ CoreShape' /\ CalledBack'
  BY <1>7 DEF UpdateMembership, Reports, Update, Error
<1>8. CASE ClearMembership
  BY <1>8 DEF ClearMembership, Reports, Update
<1>9. ASSUME NEW ok \in BOOLEAN, ConnectCore(ok) PROVE CoreTypeOK' /\ CoreShape' /\ CalledBack'
  BY <1>9 DEF ConnectCore, Reports, CoreStates
<1>17. ASSUME NEW ok \in BOOLEAN, ConnectReturns(ok)
       PROVE  CoreTypeOK' /\ CoreShape' /\ CalledBack'
  BY <1>17 DEF ConnectReturns, CoreStates
<1>10. ASSUME NEW ok \in BOOLEAN, DisconnectCore(ok)
       PROVE  CoreTypeOK' /\ CoreShape' /\ CalledBack'
  BY <1>10 DEF DisconnectCore, Reports, CoreStates
<1>11. ASSUME NEW ok \in BOOLEAN, PushToTalk(ok) PROVE CoreTypeOK' /\ CoreShape' /\ CalledBack'
  BY <1>11 DEF PushToTalk, Reports
<1>12. CASE ReportCall
  <2>1. call \in Events
    BY <1>12 DEF ReportCall, Events, Error, Connecting
  <2> QED
    BY <1>12, <2>1 DEF ReportCall
<1>13. ASSUME NEW t \in CoreThreads, NEW what \in CallbackKinds, Callback(t, what)
       PROVE  CoreTypeOK' /\ CoreShape' /\ CalledBack'
  BY <1>13 DEF Callback
<1>14. ASSUME NEW t \in CoreThreads,
              ReadWrapper(t) \/ ReadTable(t) \/ InClient(t) \/ EmitBack(t)
       PROVE  CoreTypeOK' /\ CoreShape' /\ CalledBack'
  <2>1. CASE ReadWrapper(t)
    BY <2>1 DEF ReadWrapper, Goes, Leaves, At, Outside
  <2>2. CASE ReadTable(t)
    BY <2>2 DEF ReadTable, Goes, Leaves, At, Outside
  <2>3. CASE EmitBack(t)
    BY <2>3 DEF EmitBack, Leaves, At, Outside
  <2>4. CASE InClient(t)
    BY <2>4 DEF InClient, Goes, Leaves, At, Outside, CoreStates
  <2> QED
    BY <1>14, <2>1, <2>2, <2>3, <2>4
<1>15. ASSUME NEW t \in CoreThreads, ReportBack(t) PROVE CoreTypeOK' /\ CoreShape' /\ CalledBack'
  <2>1. [kind |-> "voice", what |-> back[t].what] \in Events
    BY <1>15 DEF ReportBack, At, Events, Outside
  <2> QED
    BY <1>15, <2>1 DEF ReportBack, Goes, At, Outside
<1>16. CASE UNCHANGED coreVars
  BY <1>16 DEF coreVars
<1> QED
  BY <1>1, <1>2, <1>3, <1>4, <1>5, <1>6, <1>7, <1>8, <1>9, <1>10, <1>11, <1>12, <1>13, <1>14,
     <1>15, <1>16, <1>17 DEF CoreNext

\* An event that is told comes last; one that is no membership changes none of them.
LEMMA Told ==
    ASSUME told \in Seq(Events), NEW e \in Events, told' = Append(told, e)
    PROVE  /\ \A i \in Memberships : i \in Nat /\ i <= Len(told) /\ told'[i] = told[i]
           /\ e.kind # "membership" => Memberships' = Memberships
           /\ e.kind = "membership" => /\ Memberships' = Memberships \cup {Len(told) + 1}
                                       /\ told'[Len(told) + 1] = e
  BY DEF Memberships

\* Memberships are told in the order in which they were stored.
LEMMA StepCoreTells ==
    ASSUME CoreInv, [CoreNext]_coreVars
    PROVE  ToldInOrder' /\ ToldLast'
<1> USE CoreAssumption DEF CoreInv, CoreShape, ToldInOrder, ToldLast, IsLast, observerVars, eventVars
<1>1. CASE UNCHANGED <<told, call, membership>>
  BY <1>1 DEF Memberships
<1>2. CASE UNCHANGED <<told, membership>> /\ call = NoReport /\ call' \in {Error, Connecting}
  BY <1>2 DEF Memberships, NoReport, Error, Connecting
<1>3. ASSUME NEW v \in HostVersions, UpdateMembership(v), v # 0 /\ IsNewer(v)
      PROVE  ToldInOrder' /\ ToldLast'
  BY <1>3 DEF Memberships, UpdateMembership, MayCall, IsNewer, NoReport, Reports, Update
<1>4. CASE ClearMembership
  BY <1>4 DEF Memberships, ClearMembership, MayCall, NoReport, Reports, Update
<1>5. CASE ReportCall
  <2>1. call \in Events /\ told' = Append(told, call) /\ call' = NoReport /\ UNCHANGED membership
    BY <1>5 DEF ReportCall, Events, Error, Connecting
  <2>2. /\ \A i \in Memberships : i \in Nat /\ i <= Len(told) /\ told'[i] = told[i]
        /\ call.kind # "membership" => Memberships' = Memberships
        /\ call.kind = "membership" => /\ Memberships' = Memberships \cup {Len(told) + 1}
                                       /\ told'[Len(told) + 1] = call
    BY <2>1, Told
  <2>3. CASE call.kind # "membership"
    BY <2>1, <2>2, <2>3 DEF NoReport
  <2>4. CASE call.kind = "membership"
    <3>1. Len(told) \in Nat
      OBVIOUS
    <3> DEFINE n == Len(told) + 1
    <3>2. /\ Memberships' = Memberships \cup {n} /\ told'[n] = call /\ n \in Nat
          /\ \A i \in Memberships : i \in Nat /\ i < n /\ told'[i] = told[i]
      BY <2>2, <2>4, <3>1
    <3> HIDE DEF n
    <3>3. ASSUME NEW i \in Memberships', NEW j \in Memberships', i < j,
                 \A k \in Memberships' : k <= i \/ k >= j
          PROVE  told'[j].version = 0 \/ told'[j].version > told'[i].version
      <4>1. i \in Memberships
        BY <3>2, <3>3
      <4>2. CASE j = n
        <5>1. IsLast(i)
          BY <3>2, <3>3, <4>1, <4>2
        <5> QED
          BY <2>4, <3>2, <4>1, <4>2, <5>1
      <4>3. CASE j # n
        BY <3>2, <3>3, <4>1, <4>3
      <4> QED
        BY <4>2, <4>3
    <3>4. ASSUME NEW i \in Memberships', \A k \in Memberships' : k <= i
          PROVE  told'[i].version = membership'
      <4>1. n <= i
        BY <3>2, <3>4
      <4>2. i = n
        BY <3>2, <4>1
      <4>3. call.version = membership
        BY <2>4
      <4> QED
        BY <2>1, <3>2, <4>2, <4>3
    <3> QED
      BY <2>1, <3>2, <3>3, <3>4 DEF NoReport
  <2> QED
    BY <2>3, <2>4
<1>6. ASSUME NEW t \in CoreThreads, ReportBack(t) PROVE ToldInOrder' /\ ToldLast'
  <2> DEFINE e == [kind |-> "voice", what |-> back[t].what]
  <2>1. e \in Events /\ e.kind # "membership"
    BY <1>6 DEF ReportBack, At, Events, Outside
  <2>2. told' = Append(told, e) /\ UNCHANGED <<call, membership>>
    BY <1>6 DEF ReportBack
  <2>3. /\ \A i \in Memberships : i \in Nat /\ i <= Len(told) /\ told'[i] = told[i]
        /\ Memberships' = Memberships
    BY <2>1, <2>2, Told
  <2> QED
    BY <2>2, <2>3
<1>7. ASSUME NEW v \in HostVersions, UpdateMembership(v), ~(v # 0 /\ IsNewer(v))
      PROVE  UNCHANGED <<told, membership>> /\ call = NoReport /\ call' = Error
  BY <1>7 DEF UpdateMembership, MayCall, Reports
<1>8. ASSUME NEW ok \in BOOLEAN,
             Attached(ok) \/ ConnectCore(ok) \/ DisconnectCore(ok) \/ PushToTalk(ok)
      PROVE  /\ UNCHANGED <<told, membership>>
             /\ call' = call \/ (call = NoReport /\ call' \in {Error, Connecting})
  BY <1>8 DEF Attached, ConnectCore, DisconnectCore, PushToTalk, MayCall, Reports
<1>12. ASSUME NEW ok \in BOOLEAN, ConnectReturns(ok) PROVE ToldInOrder' /\ ToldLast'
  <2>1. /\ call.kind # "membership" /\ call'.kind # "membership"
        /\ UNCHANGED <<told, membership>>
    BY <1>12 DEF ConnectReturns, Connecting, NoReport, Error
  <2> QED
    BY <2>1 DEF Memberships
<1>9. CASE Create \/ Created \/ Destroy \/ Detach \/ Freed
  BY <1>1, <1>9 DEF Create, Created, Destroy, Detach, Freed
<1>10. ASSUME NEW t \in CoreThreads,
              \/ \E what \in CallbackKinds : Callback(t, what)
              \/ ReadWrapper(t) \/ ReadTable(t) \/ InClient(t) \/ EmitBack(t)
       PROVE  UNCHANGED <<told, call, membership>>
  BY <1>10 DEF Callback, ReadWrapper, ReadTable, InClient, EmitBack
<1>11. CASE UNCHANGED coreVars
  BY <1>1, <1>11 DEF coreVars
<1> QED
  BY <1>1, <1>2, <1>3, <1>4, <1>5, <1>6, <1>7, <1>8, <1>9, <1>10, <1>11, <1>12 DEF CoreNext

LEMMA CoreInvariance == CoreSpec => []CoreInv
<1>1. CoreInv /\ [CoreNext]_coreVars => CoreInv'
  BY StepCoreTypes, StepCoreTells DEF CoreInv
<1> QED
  BY InitCore, <1>1, PTL DEF CoreSpec

\* The variables of the core have their types.
THEOREM CoreTypeCorrect == CoreSpec => []CoreTypeOK
<1>1. CoreInv => CoreTypeOK
  BY DEF CoreInv
<1> QED
  BY CoreInvariance, <1>1, PTL

\* No callback of the transport runs in a core that hvc_client_core_destroy has freed,
\* and the host is told of every membership it stored, in the order it stored them,
\* whatever callbacks report in between.
THEOREM CoreAlwaysTellsTheHost == CoreSpec => []CoreTellsTheHost
<1>1. ASSUME CoreInv PROVE CoreTellsTheHost
  BY <1>1 DEF CoreInv, CalledBack, ToldInOrder, ToldLast, NoReport, CoreTellsTheHost
<1> QED
  BY CoreInvariance, <1>1, PTL

-----------------------------------------------------------------------------
(* The ring of the audio frame source: it is safe, and it implements the
   first-in-first-out queue. *)

(* Two positions less than a capacity apart are in different slots. *)
LEMMA SlotsDiffer ==
  ASSUME NEW i \in Nat, NEW j \in Nat, i < j, j - i < QueueCapacity
  PROVE  Slot(i) # Slot(j)
<1> DEFINE C == QueueCapacity
<1>1. C \in Nat \ {0}  BY QueueAssumption
<1>2. /\ i = C * (i \div C) + (i % C)
      /\ j = C * (j \div C) + (j % C)
      /\ i \div C \in Int /\ j \div C \in Int
      /\ i % C \in Int /\ j % C \in Int
  BY <1>1
<1>3. SUFFICES ASSUME i % C = j % C PROVE FALSE  BY DEF Slot
<1> DEFINE a == i \div C
           b == j \div C
<1>4. a \in Int /\ b \in Int /\ j - i = C * b - C * a  BY <1>2, <1>3, <1>1
<1> HIDE DEF a, b, C
<1>5. C * b - C * a = C * (b - a)  BY <1>1, <1>4
<1>6. CASE b - a >= 1
  <2>1. C * (b - a) >= C  BY <1>1, <1>4, <1>6
  <2>2. C * (b - a) \in Int /\ j - i = C * (b - a) /\ j - i < C  BY <1>1, <1>4, <1>5 DEF C
  <2>3. QED  BY <2>1, <2>2, <1>1
<1>7. CASE b - a < 1
  <2>1. b - a <= 0  BY <1>4, <1>7
  <2>2. C * (b - a) <= 0  BY <1>1, <1>4, <2>1
  <2>3. QED  BY <2>2, <1>4, <1>5
<1>8. QED  BY <1>4, <1>6, <1>7

LEMMA SlotType ==
  ASSUME NEW i \in Nat
  PROVE  Slot(i) \in 0..(QueueCapacity - 1)
BY QueueAssumption DEF Slot

(* The inductive invariant of the two threads. *)
QueueInv == QueueTypeOK /\ RingIsSafe

LEMMA QueueInitInv == QueueInit => QueueInv
<1> SUFFICES ASSUME QueueInit PROVE QueueInv  OBVIOUS
<1> USE QueueAssumption DEF QueueInit
<1>1. QueueTypeOK  BY DEF QueueTypeOK
<1>2. Positions  BY DEF Positions
<1>3. Contents  BY DEF Contents
<1>4. QED  BY <1>1, <1>2, <1>3 DEF QueueInv, RingIsSafe

LEMMA PushBeginInv ==
  ASSUME NEW samples \in Batches, NEW factor \in Gains, QueueInv, PushBegin(samples, factor)
  PROVE  QueueInv'
<1> USE QueueAssumption
<1>1. samples \in Seq(Samples)  BY DEF Batches
<1> DEFINE n == Least(Len(samples), Available)
<1>0. Len(stored) = writePosition /\ batch = <<>> /\ readPosition \in Nat
      /\ writePosition \in Nat
  BY DEF QueueInv, QueueTypeOK, RingIsSafe, Positions, PushBegin
<1>0a. /\ Len(stored) + Len(batch) <= readPosition + QueueCapacity
       /\ readPosition <= writePosition
  BY DEF QueueInv, RingIsSafe, Positions
<1>2. Available \in Nat /\ Available = readPosition + QueueCapacity - Len(stored)
  BY <1>0, <1>0a DEF Available
<1>3. n \in Nat /\ n <= Available /\ n <= Len(samples)  BY <1>1, <1>2 DEF Least
<1>4. \A i \in 1..n : Scaled(samples[i], factor) \in Samples
  <2>1. ASSUME NEW i \in 1..n PROVE Scaled(samples[i], factor) \in Samples
    <3>1. samples[i] \in Samples  BY <1>1, <1>3, <2>1
    <3>2. QED  BY <3>1 DEF Scaled
  <2>2. QED  BY <2>1
<1>5. batch' = [i \in 1..n |-> Scaled(samples[i], factor)]  BY DEF PushBegin
<1> HIDE DEF n
<1>6. batch' \in Seq(Samples) /\ Len(batch') = n  BY <1>3, <1>4, <1>5
<1>7. QueueTypeOK'  BY <1>6 DEF QueueInv, QueueTypeOK, PushBegin, consumerVars
<1>8. Positions'
  <2>1. /\ pushing' = TRUE
        /\ UNCHANGED <<writePosition, stored, readPosition, popLimit, popping, copied>>
    BY DEF PushBegin, consumerVars
  <2>2. Len(stored) + n <= readPosition + QueueCapacity  BY <1>0, <1>2, <1>3
  <2>3. QED  BY <2>1, <2>2, <1>6 DEF QueueInv, RingIsSafe, Positions
<1>9. Contents'
  BY DEF QueueInv, RingIsSafe, Contents, PushBegin, consumerVars, Slot
<1>10. QED  BY <1>7, <1>8, <1>9 DEF QueueInv, RingIsSafe

LEMMA PushSampleInv ==
  ASSUME QueueInv, PushSample
  PROVE  QueueInv'
<1> USE QueueAssumption
<1> DEFINE s == Head(batch)
           n == Len(stored)
<1>1. /\ s \in Samples
      /\ Tail(batch) \in Seq(Samples)
      /\ Len(Tail(batch)) = Len(batch) - 1
      /\ Len(batch) >= 1
  BY DEF QueueInv, QueueTypeOK, PushSample
<1>2. /\ stored' \in Seq(Samples)
      /\ Len(stored') = n + 1
      /\ stored'[n + 1] = s
      /\ \A i \in 1..n : stored'[i] = stored[i]
  BY <1>1 DEF QueueInv, QueueTypeOK, PushSample
<1>3. n \in Nat  BY DEF QueueInv, QueueTypeOK
<1>4. ring' = [ring EXCEPT ![Slot(n)] = s] /\ batch' = Tail(batch)  BY DEF PushSample
<1> HIDE DEF s, n
<1>5. Slot(n) \in 0..(QueueCapacity - 1)  BY <1>3, SlotType
<1>6. QueueTypeOK'
  BY <1>1, <1>2, <1>4, <1>5 DEF QueueInv, QueueTypeOK, PushSample, consumerVars
<1>7. Positions'
  BY <1>1, <1>2, <1>4
  DEF QueueInv, QueueTypeOK, RingIsSafe, Positions, PushSample, consumerVars, n
<1>8. Contents'
  <2>1. ASSUME NEW i \in readPosition'..(Len(stored') - 1)
        PROVE  ring'[Slot(i)] = stored'[i + 1]
    <3>1. i \in Nat /\ i <= n /\ readPosition <= i
      BY <1>2, <1>3, <2>1 DEF QueueInv, QueueTypeOK, PushSample, consumerVars
    <3>2. CASE i = n
      BY <1>2, <1>4, <1>5, <3>2 DEF QueueInv, QueueTypeOK
    <3>3. CASE i < n
      <4>1. n - i < QueueCapacity
        BY <1>1, <1>3, <3>1 DEF QueueInv, QueueTypeOK, RingIsSafe, Positions, n
      <4>2. Slot(i) # Slot(n)  BY <1>3, <3>1, <3>3, <4>1, SlotsDiffer
      <4>3. ring'[Slot(i)] = ring[Slot(i)]
        BY <1>4, <4>2, <3>1, SlotType DEF QueueInv, QueueTypeOK
      <4>4. ring[Slot(i)] = stored[i + 1]
        BY <1>3, <3>1, <3>3 DEF QueueInv, RingIsSafe, Contents, n, QueueTypeOK
      <4>5. QED  BY <1>2, <1>3, <3>1, <3>3, <4>3, <4>4
    <3>4. QED  BY <1>3, <3>1, <3>2, <3>3
  <2>2. ASSUME NEW k \in 1..Len(copied')
        PROVE  copied'[k] = stored'[readPosition' + k]
    <3>1. copied' = copied /\ readPosition' = readPosition
      BY DEF PushSample, consumerVars
    <3>2. copied # <<>>  BY <2>2, <3>1 DEF QueueInv, QueueTypeOK
    <3>3. readPosition + k \in 1..n
      BY <2>2, <3>1, <3>2 DEF QueueInv, QueueTypeOK, RingIsSafe, Positions, n
    <3>4. copied[k] = stored[readPosition + k]
      BY <2>2, <3>1 DEF QueueInv, RingIsSafe, Contents
    <3>5. QED  BY <1>2, <3>1, <3>3, <3>4
  <2>3. QED  BY <2>1, <2>2 DEF Contents
<1>9. QED  BY <1>6, <1>7, <1>8 DEF QueueInv, RingIsSafe

LEMMA PushEndInv ==
  ASSUME QueueInv, PushEnd
  PROVE  QueueInv'
<1>0. pushing' = FALSE /\ writePosition' = Len(stored) /\ Len(stored) \in Nat
  BY DEF QueueInv, QueueTypeOK, PushEnd
<1>1. QueueTypeOK'
  BY <1>0 DEF QueueInv, QueueTypeOK, PushEnd, consumerVars
<1>2. Positions'
  BY QueueAssumption DEF QueueInv, QueueTypeOK, RingIsSafe, Positions, PushEnd, consumerVars
<1>3. Contents'
  BY DEF QueueInv, RingIsSafe, Contents, PushEnd, consumerVars, Slot
<1>4. QED  BY <1>1, <1>2, <1>3 DEF QueueInv, RingIsSafe

LEMMA PopBeginInv ==
  ASSUME NEW size \in 0..MaxBatch, QueueInv, PopBegin(size)
  PROVE  QueueInv'
<1> USE QueueAssumption
<1>1. /\ Readable(size) \in Nat
      /\ Readable(size) <= writePosition - readPosition
  BY DEF QueueInv, QueueTypeOK, RingIsSafe, Positions, Readable, Least
<1>2. QueueTypeOK'
  BY <1>1 DEF QueueInv, QueueTypeOK, PopBegin, producerVars
<1>3. Positions'
  BY <1>1 DEF QueueInv, QueueTypeOK, RingIsSafe, Positions, PopBegin, producerVars
<1>4. Contents'
  BY DEF QueueInv, RingIsSafe, Contents, PopBegin, producerVars, Slot
<1>5. QED  BY <1>2, <1>3, <1>4 DEF QueueInv, RingIsSafe

LEMMA PopSampleInv ==
  ASSUME QueueInv, PopSample
  PROVE  QueueInv'
<1> USE QueueAssumption
<1> DEFINE p == readPosition + Len(copied)
           v == ring[Slot(p)]
<1>1. /\ p \in Nat /\ readPosition <= p /\ p < popLimit
      /\ popLimit <= Len(stored) /\ popLimit \in Nat
      /\ readPosition \in Nat /\ Len(copied) \in Nat
  BY DEF QueueInv, QueueTypeOK, RingIsSafe, Positions, PopSample
<1>2. v = stored[p + 1] /\ v \in Samples
  BY <1>1 DEF QueueInv, QueueTypeOK, RingIsSafe, Contents
<1>3. copied' = Append(copied, v)  BY DEF PopSample
<1> HIDE DEF v
<1>4. /\ copied' \in Seq(Samples)
      /\ Len(copied') = Len(copied) + 1
      /\ copied'[Len(copied) + 1] = v
      /\ \A k \in 1..Len(copied) : copied'[k] = copied[k]
  BY <1>2, <1>3 DEF QueueInv, QueueTypeOK
<1>5. QueueTypeOK'
  BY <1>4 DEF QueueInv, QueueTypeOK, PopSample, producerVars
<1>6. Positions'
  BY <1>1, <1>4
  DEF QueueInv, QueueTypeOK, RingIsSafe, Positions, PopSample, producerVars
<1>7. Contents'
  <2>1. ASSUME NEW k \in 1..Len(copied')
        PROVE  copied'[k] = stored[readPosition + k]
    <3>1. CASE k \in 1..Len(copied)
      BY <1>4, <3>1 DEF QueueInv, RingIsSafe, Contents
    <3>2. CASE k = Len(copied) + 1
      <4>1. readPosition + k = p + 1  BY <1>1, <3>2
      <4>2. QED  BY <4>1, <1>2, <1>4, <3>2
    <3>3. QED  BY <1>1, <1>4, <2>1, <3>1, <3>2
  <2>2. QED
    BY <2>1 DEF QueueInv, RingIsSafe, Contents, PopSample, producerVars, Slot
<1>8. QED  BY <1>5, <1>6, <1>7 DEF QueueInv, RingIsSafe

LEMMA PopEndInv ==
  ASSUME QueueInv, PopEnd
  PROVE  QueueInv'
<1> USE QueueAssumption
<1>0. popping' = FALSE /\ copied' = <<>> /\ popped' = copied /\ readPosition' = popLimit
  BY DEF PopEnd
<1>1. QueueTypeOK'
  <2>1. <<>> \in Seq(Samples)  OBVIOUS
  <2>2. UNCHANGED <<popLimit, ring, writePosition, batch, pushing, stored>>
    BY DEF PopEnd, producerVars
  <2>3. QED  BY <1>0, <2>1, <2>2 DEF QueueInv, QueueTypeOK
<1>2. Positions'
  BY DEF QueueInv, QueueTypeOK, RingIsSafe, Positions, PopEnd, producerVars
<1>3. Contents'
  <2>1. /\ readPosition \in Nat /\ popLimit \in Nat /\ readPosition <= popLimit
        /\ stored' = stored /\ ring' = ring /\ Len(stored) \in Nat
    BY DEF QueueInv, QueueTypeOK, RingIsSafe, Positions, PopEnd, producerVars
  <2>2. \A i \in popLimit..(Len(stored) - 1) : ring[Slot(i)] = stored[i + 1]
    BY <2>1 DEF QueueInv, RingIsSafe, Contents
  <2>3. QED  BY <1>0, <2>1, <2>2 DEF Contents, Slot
<1>4. QED  BY <1>1, <1>2, <1>3 DEF QueueInv, RingIsSafe

LEMMA QueueNextInv == QueueInv /\ [QueueNext]_queueVars => QueueInv'
<1> SUFFICES ASSUME QueueInv, [QueueNext]_queueVars PROVE QueueInv'  OBVIOUS
<1>1. CASE \E samples \in Batches, factor \in Gains : PushBegin(samples, factor)
  BY <1>1, PushBeginInv
<1>2. CASE PushSample  BY <1>2, PushSampleInv
<1>3. CASE PushEnd  BY <1>3, PushEndInv
<1>4. CASE \E size \in 0..MaxBatch : PopBegin(size)  BY <1>4, PopBeginInv
<1>5. CASE PopSample  BY <1>5, PopSampleInv
<1>6. CASE PopEnd  BY <1>6, PopEndInv
<1>7. CASE UNCHANGED queueVars
  BY <1>7 DEF QueueInv, QueueTypeOK, RingIsSafe, Positions, Contents, queueVars, Slot
<1>8. QED  BY <1>1, <1>2, <1>3, <1>4, <1>5, <1>6, <1>7 DEF QueueNext

\* For every capacity and every interleaving of push and pop, the two threads
\* never meet in a slot and samples are copied out in the order they went in.
THEOREM RingAlwaysSafe == QueueSpec => []RingIsSafe
<1>1. QueueInv => RingIsSafe  BY DEF QueueInv
<1>2. QED  BY <1>1, QueueInitInv, QueueNextInv, PTL DEF QueueSpec

(* The samples between two positions of a sequence. *)
LEMMA Between ==
  ASSUME NEW r \in Nat, NEW w \in Nat, NEW st \in Seq(Samples), r <= w, w <= Len(st)
  PROVE  LET q == [i \in 1..(w - r) |-> st[r + i]]
         IN  q \in Seq(Samples) /\ Len(q) = w - r
<1> DEFINE n == w - r
<1>1. n \in Nat  OBVIOUS
<1>2. \A i \in 1..n : st[r + i] \in Samples  OBVIOUS
<1> HIDE DEF n
<1>3. [i \in 1..n |-> st[r + i]] \in Seq(Samples) /\ Len([i \in 1..n |-> st[r + i]]) = n
  BY <1>1, <1>2
<1>4. QED  BY <1>3 DEF n

LEMMA Widens ==
  ASSUME NEW r \in Nat, NEW w \in Nat, NEW v \in Nat, w <= v
  PROVE  w - r <= v - r /\ (1..(w - r)) \subseteq (1..(v - r))
OBVIOUS

(* The queue's users see the samples between the two stored positions. *)
WaitingFacts ==
    /\ readPosition \in Nat /\ writePosition \in Nat
    /\ readPosition <= writePosition
    /\ writePosition - readPosition <= QueueCapacity
    /\ Waiting \in Seq(Samples)
    /\ Len(Waiting) = writePosition - readPosition
    /\ \A i \in 1..(writePosition - readPosition) : Waiting[i] = stored[readPosition + i]

LEMMA WaitingType == QueueInv => WaitingFacts
<1> SUFFICES ASSUME QueueInv PROVE WaitingFacts  OBVIOUS
<1>1. /\ readPosition \in Nat /\ writePosition \in Nat /\ readPosition <= writePosition
      /\ writePosition <= Len(stored) /\ stored \in Seq(Samples)
      /\ writePosition - readPosition <= QueueCapacity
  BY QueueAssumption DEF QueueInv, QueueTypeOK, RingIsSafe, Positions
<1>2. Waiting \in Seq(Samples) /\ Len(Waiting) = writePosition - readPosition
  BY <1>1, Between DEF Waiting
<1>3. QED  BY <1>1, <1>2 DEF Waiting, WaitingFacts

\* The ring implements the bounded first-in-first-out queue (IsFifo): a step of
\* either thread is a step of the queue or leaves what its users see unchanged.
THEOREM RingIsFifo == QueueSpec => IsFifo
<1>0. QueueInv' => WaitingFacts'  BY WaitingType, PTL
<1>1. QueueInit => Fifo!FifoInit
  BY DEF QueueInit, Fifo!FifoInit, Waiting
<1>2. QueueInv /\ QueueInv' /\ [QueueNext]_queueVars
        => [Fifo!FifoPush \/ Fifo!FifoPop]_<<Waiting, popped>>
  <2> SUFFICES ASSUME QueueInv, QueueInv', [QueueNext]_queueVars
               PROVE  [Fifo!FifoPush \/ Fifo!FifoPop]_<<Waiting, popped>>
    OBVIOUS
  <2>0. WaitingFacts /\ WaitingFacts'  BY <1>0, WaitingType
  <2> DEFINE Seen == <<readPosition, writePosition, popped>>
  <2>1. ASSUME UNCHANGED Seen,
               \A i \in 1..Len(stored) : stored'[i] = stored[i]
        PROVE  UNCHANGED <<Waiting, popped>>
    <3>1. /\ readPosition \in Nat /\ writePosition \in Nat
          /\ writePosition <= Len(stored) /\ Len(stored) \in Nat
      BY DEF QueueInv, QueueTypeOK, RingIsSafe, Positions
    <3>2. \A i \in 1..(writePosition - readPosition) :
            stored'[readPosition + i] = stored[readPosition + i]
      BY <2>1, <3>1
    <3>3. QED  BY <2>1, <3>2 DEF Waiting
  <2>2. CASE \E samples \in Batches, factor \in Gains : PushBegin(samples, factor)
    BY <2>1, <2>2 DEF PushBegin, consumerVars
  <2>3. CASE PushSample
    <3>1. \A i \in 1..Len(stored) : stored'[i] = stored[i]
      BY <2>3 DEF PushSample, QueueInv, QueueTypeOK
    <3>2. QED  BY <2>1, <2>3, <3>1 DEF PushSample, consumerVars
  <2>4. CASE PushEnd
    <3>1. /\ readPosition' = readPosition /\ stored' = stored /\ popped' = popped
          /\ writePosition <= writePosition'
          /\ writePosition \in Nat /\ writePosition' \in Nat /\ readPosition \in Nat
      BY <2>4 DEF PushEnd, consumerVars, QueueInv, QueueTypeOK, RingIsSafe, Positions
    <3>2. /\ Len(Waiting) <= Len(Waiting')
          /\ \A i \in 1..Len(Waiting) : Waiting'[i] = Waiting[i]
      <4>1. Len(Waiting) <= Len(Waiting')
        <5>1. /\ Len(Waiting) = writePosition - readPosition
              /\ Len(Waiting') = writePosition' - readPosition'
          BY <2>0 DEF WaitingFacts
        <5>2. writePosition - readPosition <= writePosition' - readPosition  BY <3>1, Widens
        <5>3. QED  BY <3>1, <5>1, <5>2
      <4>2. ASSUME NEW i \in 1..Len(Waiting) PROVE Waiting'[i] = Waiting[i]
        <5>1. i \in 1..(writePosition - readPosition)  BY <2>0 DEF WaitingFacts
        <5>2. i \in 1..(writePosition' - readPosition)  BY <3>1, <5>1, Widens
        <5>3. Waiting[i] = stored[readPosition + i]  BY <5>1, <2>0 DEF WaitingFacts
        <5>4. Waiting'[i] = stored'[readPosition' + i]  BY <3>1, <5>2, <2>0 DEF WaitingFacts
        <5>5. QED  BY <3>1, <5>3, <5>4
      <4>3. QED  BY <4>1, <4>2
    <3>3. QED  BY <3>1, <3>2, <2>0 DEF Fifo!FifoPush, WaitingFacts
  <2>5. CASE \E size \in 0..MaxBatch : PopBegin(size)
    BY <2>1, <2>5 DEF PopBegin, producerVars
  <2>6. CASE PopSample
    BY <2>1, <2>6 DEF PopSample, producerVars
  <2>7. CASE PopEnd
    <3>1. /\ UNCHANGED <<writePosition, stored>>
          /\ readPosition' = readPosition + Len(copied)
          /\ popped' = copied /\ copied \in Seq(Samples)
          /\ readPosition \in Nat /\ writePosition \in Nat
          /\ readPosition' <= writePosition
      BY <2>7 DEF PopEnd, producerVars, QueueInv, QueueTypeOK, RingIsSafe, Positions
    <3>2. Len(Waiting) = Len(popped') + Len(Waiting')
      BY <3>1, <2>0 DEF WaitingFacts
    <3>3. \A k \in 1..Len(copied) : copied[k] = stored[readPosition + k]
      BY DEF QueueInv, RingIsSafe, Contents
    <3>4. \A i \in 1..Len(popped') : popped'[i] = Waiting[i]
      <4> SUFFICES ASSUME NEW i \in 1..Len(popped')
                   PROVE  popped'[i] = Waiting[i]
        OBVIOUS
      <4>1. popped'[i] = stored[readPosition + i]
        BY <3>1, <3>3
      <4>2. i \in 1..Len(Waiting)
        BY <3>1, <3>2, <2>0 DEF WaitingFacts
      <4>3. Waiting[i] = stored[readPosition + i]
        BY <4>2, <2>0 DEF WaitingFacts
      <4> QED
        BY <4>1, <4>3
    <3>5. \A i \in 1..Len(Waiting') : Waiting'[i] = Waiting[Len(popped') + i]
      <4> SUFFICES ASSUME NEW i \in 1..Len(Waiting')
                   PROVE  Waiting'[i] = Waiting[Len(popped') + i]
        OBVIOUS
      <4> DEFINE j == Len(copied) + i
      <4>1. i \in 1..(writePosition' - readPosition')  BY <2>0 DEF WaitingFacts
      <4>2. Waiting'[i] = stored'[readPosition' + i]  BY <4>1, <2>0 DEF WaitingFacts
      <4>3. j \in 1..(writePosition - readPosition)  BY <3>1, <4>1
      <4>4. readPosition' + i = readPosition + j  BY <3>1, <4>1
      <4>5. Waiting[j] = stored[readPosition + j]  BY <4>3, <2>0 DEF WaitingFacts
      <4>6. QED  BY <3>1, <4>2, <4>4, <4>5
    <3>6. QED  BY <3>1, <3>2, <3>4, <3>5, <2>0 DEF Fifo!FifoPop, WaitingFacts
  <2>8. CASE UNCHANGED queueVars
    BY <2>1, <2>8 DEF queueVars
  <2>9. QED  BY <2>2, <2>3, <2>4, <2>5, <2>6, <2>7, <2>8 DEF QueueNext
<1>3. QED
  BY <1>1, <1>2, QueueInitInv, QueueNextInv, PTL DEF QueueSpec, IsFifo, Fifo!FifoSpec

-----------------------------------------------------------------------------
(* The voice session.  The inductive invariant is the conjunction of the invariants of
   VoiceSession with NewestInFlight (the request in flight is the last one issued) and
   VersionKnown (a version is held exactly after a refresh). *)

NewestInFlight == tx # "idle" => ctx.req = issued /\ issued # 0

VersionKnown == version # 0 <=> conn \in {"restoring_subscriptions", "ready"}

IndInv ==
    /\ TypeOK
    /\ InFlightOnCurrentMembership
    /\ HoldsOwnGrant
    /\ NewestInFlight
    /\ VersionKnown

\* The first state of the voice session satisfies the inductive invariant.
LEMMA InitEstablishes == Init => IndInv
  BY ScopeAssumption, BoundAssumption
     DEF Init, IndInv, TypeOK, InFlightOnCurrentMembership, HoldsOwnGrant,
         NewestInFlight, VersionKnown, ConnectionStates, TransmissionStates, StopReasons,
         NoContext, Contexts, Requests

\* Every handler of VoiceSessionStateMachine preserves the inductive invariant.
LEMMA StepPreserves == IndInv /\ [Next]_vars => IndInv'
<1> USE ScopeAssumption, BoundAssumption
        DEF IndInv, TypeOK, InFlightOnCurrentMembership, HoldsOwnGrant, NewestInFlight,
            VersionKnown, ConnectionStates, TransmissionStates, StopReasons, Contexts, NoContext,
            Requests, Versions, connVars, txVars, serverVars
<1> SUFFICES ASSUME IndInv, [Next]_vars PROVE IndInv'
  OBVIOUS
<1>1. CASE BeginConnect
  BY <1>1 DEF BeginConnect
<1>2. CASE TransportConnected
  BY <1>2 DEF TransportConnected
<1>3. ASSUME NEW v \in Versions, MembershipRefreshed(v) PROVE IndInv'
  BY <1>3 DEF MembershipRefreshed
<1>4. ASSUME NEW v \in Versions, SubscriptionsRestored(v) PROVE IndInv'
  BY <1>4 DEF SubscriptionsRestored
<1>5. ASSUME NEW v \in Versions, MembershipChanged(v) PROVE IndInv'
  BY <1>5, SMTT(30) DEF MembershipChanged, Interrupt, Finish
<1>6. CASE ConnectionLost
  BY <1>6, SMTT(30) DEF ConnectionLost, Interrupt, Finish
<1>7. CASE Disconnect
  BY <1>7, SMTT(30) DEF Disconnect, Interrupt, Finish
<1>8. ASSUME NEW s \in Scopes, SelectScope(s) PROVE IndInv'
  BY <1>8 DEF SelectScope
<1>9. CASE RequestTransmission
  BY <1>9 DEF RequestTransmission
<1>10. CASE EndTransmission
  BY <1>10, SMTT(30) DEF EndTransmission, Finish
<1>11. ASSUME NEW r \in Requests, TransmissionAccepted(r) PROVE IndInv'
  BY <1>11 DEF TransmissionAccepted, AnswersRequest
<1>12. ASSUME NEW r \in Requests, TransmissionRejected(r) PROVE IndInv'
  BY <1>12 DEF TransmissionRejected, Finish
<1>13. ASSUME NEW t \in Requests, TransmissionEnded(t) PROVE IndInv'
  BY <1>13 DEF TransmissionEnded, Finish
<1>14. ASSUME NEW reason \in {"permission_revoked", "timed_out", "transport_error"},
              ForcedStop(reason)
       PROVE IndInv'
  BY <1>14 DEF ForcedStop, Finish
<1>15. ASSUME NEW r \in Requests, NEW t \in Requests, ServerGrants(r, t) PROVE IndInv'
  BY <1>15, SMTT(30) DEF ServerGrants
<1>16. ASSUME NEW r \in Requests, ServerRefuses(r) PROVE IndInv'
  BY <1>16 DEF ServerRefuses
<1>17. ASSUME NEW t \in Requests, ServerEnds(t) PROVE IndInv'
  BY <1>17 DEF ServerEnds
<1>18. CASE UNCHANGED vars
  BY <1>18 DEF vars
<1>19. QED
  BY <1>1, <1>2, <1>3, <1>4, <1>5, <1>6, <1>7, <1>8, <1>9, <1>10, <1>11, <1>12, <1>13,
     <1>14, <1>15, <1>16, <1>17, <1>18 DEF Next

\* The inductive invariant holds in every reachable state.
LEMMA Invariance == Spec => []IndInv
  BY InitEstablishes, StepPreserves, PTL DEF Spec

\* Type correctness of the session, for every value of the constants.
THEOREM SessionTypeCorrect == Spec => []TypeOK
  BY Invariance, PTL DEF IndInv

\* No transmission outlives its connection or its membership version.
THEOREM SessionInFlight == Spec => []InFlightOnCurrentMembership
  BY Invariance, PTL DEF IndInv

\* The client never holds a transmission id granted to another request.
THEOREM SessionHoldsOwnGrant == Spec => []HoldsOwnGrant
  BY Invariance, PTL DEF IndInv

\* Late answers never bring an older request to life: only the newest request
\* goes live, and with the id the server gave to it.
THEOREM SessionOnlyNewest == Spec => OnlyNewestRequestGoesLive
<1>1. IndInv /\ [Next]_vars =>
        [tx # "transmitting" /\ tx' = "transmitting"
            => /\ tx = "requesting"
               /\ ctx.req = issued
               /\ ctx'.tid = grant[issued]]_vars
  <2> SUFFICES ASSUME IndInv, Next, tx # "transmitting", tx' = "transmitting"
               PROVE /\ tx = "requesting"
                     /\ ctx.req = issued
                     /\ ctx'.tid = grant[issued]
    OBVIOUS
  <2>1. PICK r \in Requests : TransmissionAccepted(r)
    BY DEF Next, BeginConnect, TransportConnected, MembershipRefreshed,
           SubscriptionsRestored, MembershipChanged, ConnectionLost, Disconnect,
           SelectScope, RequestTransmission, EndTransmission, TransmissionRejected,
           TransmissionEnded, ForcedStop, ServerGrants, ServerRefuses, ServerEnds,
           Interrupt, Finish, txVars
  <2>2. QED
    BY <2>1 DEF IndInv, NewestInFlight, TransmissionAccepted, AnswersRequest, TypeOK, Contexts
<1>2. QED
  BY Invariance, <1>1, PTL DEF Spec, OnlyNewestRequestGoesLive

\* A transmission the server accepted is only reported as released after the
\* server ended it.
THEOREM SessionReleaseConfirmed == Spec => ReleaseConfirmedByServer
<1>1. [Next]_vars =>
        [(/\ tx \in {"transmitting", "ending"}
          /\ tx' = "idle"
          /\ lastStop' = "push_to_talk_released")
          => ctx.tid \in ended]_vars
  BY DEF Next, BeginConnect, TransportConnected, MembershipRefreshed,
         SubscriptionsRestored, MembershipChanged, ConnectionLost, Disconnect,
         SelectScope, RequestTransmission, EndTransmission, TransmissionAccepted,
         TransmissionRejected, AnswersRequest, EndsTransmission,
         TransmissionEnded, ForcedStop, ServerGrants, ServerRefuses, ServerEnds,
         Interrupt, Finish, txVars, vars
<1>2. QED
  BY <1>1, PTL DEF Spec, ReleaseConfirmedByServer

\* A membership version is never replaced by an older one.
THEOREM SessionVersionMonotone == Spec => VersionNeverGoesBack
<1>1. IndInv /\ [Next]_vars => [version # 0 /\ version' # 0 => version' >= version]_vars
  <2> SUFFICES ASSUME IndInv, Next, version # 0, version' # 0 PROVE version' >= version
    OBVIOUS
  <2>1. CASE \E v \in Versions : MembershipRefreshed(v)
    \* a refresh only happens while the version is unknown
    BY <2>1 DEF MembershipRefreshed, IndInv, VersionKnown
  <2>2. CASE \E v \in Versions : MembershipChanged(v)
    BY <2>2, BoundAssumption DEF MembershipChanged, IndInv, TypeOK, Versions
  <2>3. QED
    BY <2>1, <2>2, BoundAssumption
       DEF IndInv, TypeOK, Next, BeginConnect, TransportConnected, SubscriptionsRestored,
           ConnectionLost, Disconnect, SelectScope, RequestTransmission, EndTransmission,
           TransmissionAccepted, TransmissionRejected, TransmissionEnded, ForcedStop,
           ServerGrants, ServerRefuses, ServerEnds, connVars
<1>2. QED
  BY Invariance, <1>1, PTL DEF Spec, VersionNeverGoesBack
=============================================================================
