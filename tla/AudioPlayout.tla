---------------------------- MODULE AudioPlayout ----------------------------
(***************************************************************************)
(* One remote playout, from its construction to its destruction: the       *)
(* thread that reads decoded frames from the LiveKit stream, the platform  *)
(* that plays them on a thread of its own, and the owner that changes the  *)
(* gain and destroys the playout.  XAudio2 is handed buffers it frees      *)
(* through a callback; PipeWire takes samples from a SampleQueue, modelled *)
(* in SampleQueue and abstracted here to the frames waiting in it.         *)
(***************************************************************************)
EXTENDS Integers, Sequences, FiniteSets

CONSTANTS
    MaxBuffers,   \* maximum_queued_audio_frames, or the frames a SampleQueue holds
    MaxFrames,   \* bound on the frames read from the stream
    MaxGains     \* bound on the changes of the gain

ASSUME PlayoutAssumption == MaxBuffers \in Nat \ {0} /\ MaxFrames \in Nat /\ MaxGains \in Nat

Backends == {"xaudio2", "pipewire"}
Frames == 1..MaxFrames
FrameKinds == {"voice", "empty", "other format"}

VARIABLES
    backend,       \* the platform of the build
    reader,        \* the reader thread: reading, writing (holds a frame), registered, or done
    sink,          \* voice_ or stream_: none, open, or destroyed
    owner,         \* the destructor: alive, closing, joining, released, gone
    closed,        \* stream_->close() was called
    frames,        \* how many frames were read
    buffered,       \* pending_buffers_
    playing,       \* buffers submitted to the platform, oldest first
    ending,        \* the buffer whose OnBufferEnd is running, 0 for none
    freed,         \* how often each buffer was deleted
    gain,          \* gain_
    volume,        \* what the voice was told last
    setting        \* setGain has stored the gain and not yet told the voice

playoutVars == <<backend, reader, sink, owner, closed, frames, buffered, playing, ending, freed,
                 gain, volume, setting>>

bufferVars == <<buffered, playing, ending, freed>>
gainVars == <<gain, volume, setting>>

\* Type invariant.
PlayoutTypeOK ==
    /\ backend \in Backends
    /\ reader \in {"reading", "writing", "registered", "done"}
    /\ sink \in {"none", "open", "destroyed"}
    /\ owner \in {"alive", "closing", "joining", "released", "gone"}
    /\ closed \in BOOLEAN
    /\ frames \in 0..MaxFrames
    /\ buffered \in SUBSET Frames
    /\ playing \in Seq(Frames)
    /\ ending \in 0..MaxFrames
    /\ freed \in [Frames -> Nat]
    /\ gain \in 0..MaxGains
    /\ volume \in 0..MaxGains
    /\ setting \in BOOLEAN

PlayoutInit ==
    /\ backend \in Backends
    /\ reader = "reading"
    /\ sink = "none"
    /\ owner = "alive"
    /\ closed = FALSE
    /\ frames = 0
    /\ buffered = {}
    /\ playing = <<>>
    /\ ending = 0
    /\ freed = [f \in Frames |-> 0]
    /\ gain = 0
    /\ volume = 0
    /\ setting = FALSE

-----------------------------------------------------------------------------
(* The reader thread. *)

(* ensureVoice tells a new voice the gain of the moment, under the lock that
   setGain takes to tell it. *)
VolumeOfNewVoice == gain

(* The frame opens the platform stream when there is none.  XAudio2 tries again
   with the next frame; PipeWire gives up, and so it does on another format. *)
OpenSink ==
    /\ sink = "none"
    /\ \/ sink' = "open" /\ reader' = "writing" /\ volume' = VolumeOfNewVoice
       \/ /\ sink' = "none"
          /\ reader' = IF backend = "xaudio2" THEN "reading" ELSE "done"
          /\ UNCHANGED volume

UseSink(kind) ==
    /\ sink = "open"
    /\ UNCHANGED <<sink, volume>>
    /\ reader' = IF kind = "voice" THEN "writing"
                 ELSE IF backend = "xaudio2" THEN "reading" ELSE "done"

(* stream_->read(event), and what is done with the frame before it is queued. *)
Read(kind) ==
    /\ reader = "reading"
    /\ ~closed
    /\ frames < MaxFrames
    /\ frames' = frames + 1
    /\ IF kind = "empty" THEN UNCHANGED <<reader, sink, volume>> ELSE OpenSink \/ UseSink(kind)
    /\ closed' = (reader' = "done")
    /\ UNCHANGED <<backend, owner, gain, setting>>
    /\ UNCHANGED bufferVars

(* read returns false on a closed stream. *)
ReadEnds ==
    /\ reader = "reading"
    /\ closed
    /\ reader' = "done"
    /\ UNCHANGED <<backend, sink, owner, closed, frames>>
    /\ UNCHANGED bufferVars
    /\ UNCHANGED gainVars

StopRequested == owner # "alive" /\ owner # "closing"

(* catch (...) of the two threads: the stream or an allocation fails, and the
   thread closes its stream. *)
ReaderFails ==
    /\ reader \in {"reading", "writing"}
    /\ reader' = "done"
    /\ closed' = TRUE
    /\ UNCHANGED <<backend, sink, owner, frames>>
    /\ UNCHANGED bufferVars
    /\ UNCHANGED gainVars

(* The buffer is deleted whether or not it is still registered. *)
SlipReleaseBuffer(b) ==
    /\ buffered' = buffered
    /\ freed' = [freed EXCEPT ![b] = @ + 1]

(* releaseBuffer: only who unregisters a buffer deletes it. *)
ReleaseBuffer(b) ==
    /\ buffered' = buffered \ {b}
    /\ freed' = IF b \in buffered THEN [freed EXCEPT ![b] = @ + 1] ELSE freed

(* run of XAudio2: waitForQueue polls for room and for the stop token; then the
   buffer is registered, under buffers_mutex_. *)
RegisterBuffer ==
    /\ reader = "writing"
    /\ backend = "xaudio2"
    /\ \/ /\ StopRequested
          /\ reader' = "done"
          /\ UNCHANGED buffered
       \/ /\ ~StopRequested
          /\ Len(playing) < MaxBuffers
          /\ reader' = "registered"
          /\ buffered' = buffered \cup {frames}
    /\ UNCHANGED <<backend, sink, owner, closed, frames, playing, ending, freed>>
    /\ UNCHANGED gainVars

(* And then submitted, under voice_mutex_; a submission that fails releases the
   buffer and ends the thread. *)
SubmitBuffer ==
    /\ reader = "registered"
    /\ \/ /\ reader' = "reading"
          /\ playing' = Append(playing, frames)
          /\ UNCHANGED <<buffered, freed>>
       \/ /\ reader' = "done"
          /\ ReleaseBuffer(frames)
          /\ UNCHANGED playing
    /\ UNCHANGED <<backend, sink, owner, closed, frames, ending>>
    /\ UNCHANGED gainVars

(* read of PipeWire: what does not fit into the sample queue is dropped. *)
PushFrame ==
    /\ reader = "writing"
    /\ backend = "pipewire"
    /\ reader' = IF StopRequested THEN "done" ELSE "reading"
    /\ playing' = IF Len(playing) < MaxBuffers THEN Append(playing, frames) ELSE playing
    /\ UNCHANGED <<backend, sink, owner, closed, frames, buffered, ending, freed>>
    /\ UNCHANGED gainVars

-----------------------------------------------------------------------------
(* The platform's thread. *)

(* XAudio2 has played a buffer and calls OnBufferEnd. *)
BufferPlayed ==
    /\ backend = "xaudio2"
    /\ sink = "open"
    /\ ending = 0
    /\ playing # <<>>
    /\ ending' = Head(playing)
    /\ playing' = Tail(playing)
    /\ UNCHANGED <<backend, reader, sink, owner, closed, frames, buffered, freed>>
    /\ UNCHANGED gainVars

OnBufferEnd ==
    /\ ending # 0
    /\ ReleaseBuffer(ending)
    /\ ending' = 0
    /\ UNCHANGED <<backend, reader, sink, owner, closed, frames, playing>>
    /\ UNCHANGED gainVars

(* onProcess of PipeWire takes what there is and fills up with silence. *)
OnProcess ==
    /\ backend = "pipewire"
    /\ sink = "open"
    /\ playing # <<>>
    /\ playing' = Tail(playing)
    /\ UNCHANGED <<backend, reader, sink, owner, closed, frames, buffered, ending, freed>>
    /\ UNCHANGED gainVars

-----------------------------------------------------------------------------
(* The owner: setGain, and the destructor. *)

StoreGain ==
    /\ owner = "alive"
    /\ ~setting
    /\ gain < MaxGains
    /\ gain' = gain + 1
    /\ setting' = TRUE
    /\ UNCHANGED <<backend, reader, sink, owner, closed, frames, volume>>
    /\ UNCHANGED bufferVars

TellVoice ==
    /\ setting
    /\ setting' = FALSE
    /\ volume' = IF sink = "open" THEN gain ELSE volume
    /\ UNCHANGED <<backend, reader, sink, owner, closed, frames, gain>>
    /\ UNCHANGED bufferVars

(* The destructor asks the thread to stop and does not close its stream. *)
SlipClose == closed' = closed

(* Closing the stream is what wakes a reader that waits for a frame. *)
Close == closed' = TRUE

BeginDestroy ==
    /\ owner = "alive"
    /\ ~setting
    /\ owner' = "closing"
    /\ Close
    /\ UNCHANGED <<backend, reader, sink, frames>>
    /\ UNCHANGED bufferVars
    /\ UNCHANGED gainVars

RequestStop ==
    /\ owner = "closing"
    /\ owner' = "joining"
    /\ UNCHANGED <<backend, reader, sink, closed, frames>>
    /\ UNCHANGED bufferVars
    /\ UNCHANGED gainVars

(* The thread is joined; then the platform stream is stopped, flushed and
   destroyed, which waits for a callback that is running.  A flushed buffer may
   or may not get its callback. *)
DestroySink ==
    /\ owner = "joining"
    /\ reader = "done"
    /\ ending = 0
    /\ owner' = "released"
    /\ sink' = "destroyed"
    /\ playing' = <<>>
    /\ \E late \in SUBSET {playing[i] : i \in DOMAIN playing} :
         /\ buffered' = buffered \ late
         /\ freed' = [f \in Frames |-> freed[f] + IF f \in late \cap buffered THEN 1 ELSE 0]
    /\ UNCHANGED <<backend, reader, closed, frames, ending>>
    /\ UNCHANGED gainVars

ReleasePendingBuffers ==
    /\ owner = "released"
    /\ owner' = "gone"
    /\ buffered' = {}
    /\ freed' = [f \in Frames |-> freed[f] + IF f \in buffered THEN 1 ELSE 0]
    /\ UNCHANGED <<backend, reader, sink, closed, frames, playing, ending>>
    /\ UNCHANGED gainVars

ReaderStep == (\E kind \in FrameKinds : Read(kind)) \/ ReadEnds \/ ReaderFails
              \/ RegisterBuffer \/ SubmitBuffer \/ PushFrame
PlatformStep == BufferPlayed \/ OnBufferEnd \/ OnProcess
OwnerStep == TellVoice \/ RequestStop \/ DestroySink \/ ReleasePendingBuffers

PlayoutNext == ReaderStep \/ PlatformStep \/ OwnerStep \/ StoreGain \/ BeginDestroy

PlayoutSpec == PlayoutInit /\ [][PlayoutNext]_playoutVars

(* The scheduler runs every thread; a frame need not ever arrive, but a reader
   that holds one or whose stream is closed goes on. *)
PlayoutFairness ==
    /\ WF_playoutVars(ReadEnds \/ RegisterBuffer \/ SubmitBuffer \/ PushFrame)
    /\ WF_playoutVars(PlatformStep)
    /\ WF_playoutVars(OwnerStep)

-----------------------------------------------------------------------------
(* Properties. *)

\* A buffer is registered as long as XAudio2 may read it, is deleted at most
\* once, and none is left when the playout is gone: whatever the order of
\* OnBufferEnd, a failed submission and the destructor.
BuffersFreedOnce ==
    /\ backend = "xaudio2" =>
         {playing[i] : i \in DOMAIN playing} \cup ({ending} \ {0}) \subseteq buffered
    /\ \A f \in Frames : freed[f] + (IF f \in buffered THEN 1 ELSE 0) <= 1
    /\ owner = "gone" => buffered = {}

\* The destructor ends: the reader it joins is not left waiting for a frame or
\* for room in the queue.
DestructionEnds == owner = "closing" ~> owner = "gone"
=============================================================================
