----------------------------- MODULE SampleQueue -----------------------------
(***************************************************************************)
(* SampleQueue, the lock-free ring between the thread that decodes or      *)
(* captures audio and the thread that plays or publishes it.  One thread   *)
(* pushes and one pops; each loads the position of the other, copies       *)
(* sample by sample, and only then stores its own position.  The positions *)
(* count samples for ever; a sample is at its position modulo the size.    *)
(***************************************************************************)
EXTENDS Integers, Sequences

CONSTANTS
    Samples,         \* values of a sample, small integers
    Gains,           \* gains of a playout: 0 is silence, 1 is unchanged
    QueueCapacity,   \* sample_queue_capacity
    MaxBatch,        \* bound on the samples of one push or pop
    MaxAccepted      \* bound on the samples accepted in a behaviour

ASSUME QueueAssumption ==
    /\ QueueCapacity \in Nat \ {0}
    /\ MaxBatch \in Nat
    /\ MaxAccepted \in Nat
    /\ Samples \subseteq Int
    /\ Gains \subseteq {0, 1}
    /\ \A s \in Samples : \A g \in Gains : s * g \in Samples

VARIABLES
    ring,            \* samples_
    writePosition,   \* write_position_
    readPosition,    \* read_position_
    batch,           \* what the push in progress still has to copy
    pushing,         \* a push is in progress
    popLimit,        \* the write position the pop in progress loaded, or stops at
    popping,         \* a pop is in progress
    copied,          \* what the pop in progress has copied
    popped,          \* what the last finished pop copied
    stored           \* history: every sample written into the ring, in order

producerVars == <<ring, writePosition, batch, pushing, stored>>
consumerVars == <<readPosition, popLimit, popping, copied, popped>>
queueVars == <<ring, writePosition, batch, pushing, stored,
               readPosition, popLimit, popping, copied, popped>>

Least(a, b) == IF a < b THEN a ELSE b

(* The sample scaled by the gain, which is at most one: it cannot leave the
   range of a sample, so the clamp has no effect. *)
Scaled(sample, gain) == sample * gain

(* A slot of the ring. *)
Slot(position) == position % QueueCapacity

\* Type invariant.
QueueTypeOK ==
    /\ ring \in [0..(QueueCapacity - 1) -> Samples \cup {0}]
    /\ writePosition \in Nat
    /\ readPosition \in Nat
    /\ batch \in Seq(Samples)
    /\ pushing \in BOOLEAN
    /\ popLimit \in Nat
    /\ popping \in BOOLEAN
    /\ copied \in Seq(Samples)
    /\ popped \in Seq(Samples)
    /\ stored \in Seq(Samples)

QueueInit ==
    /\ ring = [i \in 0..(QueueCapacity - 1) |-> 0]
    /\ writePosition = 0
    /\ readPosition = 0
    /\ batch = <<>>
    /\ pushing = FALSE
    /\ popLimit = 0
    /\ popping = FALSE
    /\ copied = <<>>
    /\ popped = <<>>
    /\ stored = <<>>

(* An off-by-one in the space left. *)
SlipAvailable == QueueCapacity - (writePosition - readPosition) + 1

(* The space left, from the position of the consumer as loaded now. *)
Available == QueueCapacity - (writePosition - readPosition)

(* push: what does not fit is not accepted.  The gain is applied on the way in,
   so a later change of the gain does not reach samples already queued. *)
PushBegin(samples, gain) ==
    /\ ~pushing
    /\ Len(stored) + Len(samples) <= MaxAccepted
    /\ pushing' = TRUE
    /\ batch' = [i \in 1..Least(Len(samples), Available) |-> Scaled(samples[i], gain)]
    /\ UNCHANGED <<ring, writePosition, stored>>
    /\ UNCHANGED consumerVars

PushSample ==
    /\ pushing
    /\ batch # <<>>
    /\ ring' = [ring EXCEPT ![Slot(Len(stored))] = Head(batch)]
    /\ stored' = Append(stored, Head(batch))
    /\ batch' = Tail(batch)
    /\ UNCHANGED <<writePosition, pushing>>
    /\ UNCHANGED consumerVars

(* The position is published after the samples. *)
PushEnd ==
    /\ pushing
    /\ batch = <<>>
    /\ writePosition' = Len(stored)
    /\ pushing' = FALSE
    /\ UNCHANGED <<ring, batch, stored>>
    /\ UNCHANGED consumerVars

(* The consumer trusts samples the producer has not published. *)
SlipReadable(size) == Least(size, Len(stored) - readPosition)

(* How many samples a pop of that size copies. *)
Readable(size) == Least(size, writePosition - readPosition)

(* pop *)
PopBegin(size) ==
    /\ ~popping
    /\ popping' = TRUE
    /\ popLimit' = readPosition + Readable(size)
    /\ copied' = <<>>
    /\ UNCHANGED <<readPosition, popped>>
    /\ UNCHANGED producerVars

PopSample ==
    /\ popping
    /\ readPosition + Len(copied) < popLimit
    /\ copied' = Append(copied, ring[Slot(readPosition + Len(copied))])
    /\ UNCHANGED <<readPosition, popLimit, popping, popped>>
    /\ UNCHANGED producerVars

PopEnd ==
    /\ popping
    /\ readPosition + Len(copied) = popLimit
    /\ readPosition' = popLimit
    /\ popping' = FALSE
    /\ popped' = copied
    /\ copied' = <<>>
    /\ UNCHANGED popLimit
    /\ UNCHANGED producerVars

Batches == UNION {[1..n -> Samples] : n \in 0..MaxBatch}

QueueNext ==
    \/ \E samples \in Batches, gain \in Gains : PushBegin(samples, gain)
    \/ PushSample
    \/ PushEnd
    \/ \E size \in 0..MaxBatch : PopBegin(size)
    \/ PopSample
    \/ PopEnd

QueueSpec == QueueInit /\ [][QueueNext]_queueVars

-----------------------------------------------------------------------------
(* Properties. *)

(* The slots between the consumer's position and the producer's cursor hold
   what was stored there, the copied samples are the oldest ones, and neither
   thread runs into the other.  This is the inductive invariant. *)
Positions ==
    /\ readPosition <= writePosition
    /\ writePosition <= Len(stored)
    /\ Len(stored) + Len(batch) <= readPosition + QueueCapacity
    /\ ~pushing => Len(stored) = writePosition /\ batch = <<>>
    /\ popping => readPosition + Len(copied) <= popLimit /\ popLimit <= writePosition
    /\ ~popping => copied = <<>>

Contents ==
    /\ \A i \in readPosition..(Len(stored) - 1) : ring[Slot(i)] = stored[i + 1]
    /\ \A k \in 1..Len(copied) : copied[k] = stored[readPosition + k]

\* The producer never writes into a slot from which the consumer is about to
\* read, and what the consumer has copied are the oldest samples in order:
\* push and pop of SampleQueue need no lock.
RingIsSafe == Positions /\ Contents

(* The queue as its users see it: published and not yet released. *)
Waiting == [i \in 1..(writePosition - readPosition) |-> stored[readPosition + i]]

Fifo == INSTANCE SampleFifo WITH waiting <- Waiting, taken <- popped

\* The ring implements the bounded first-in-first-out queue: a push becomes
\* visible when its position is stored, a pop when its position is.
IsFifo == Fifo!FifoSpec
=============================================================================
