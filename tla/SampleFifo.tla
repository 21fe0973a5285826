----------------------------- MODULE SampleFifo -----------------------------
(***************************************************************************)
(* What a sample queue promises to the two threads it joins: samples come  *)
(* out in the order they went in, each of them once, and never more than   *)
(* the queue holds are waiting.  A push may accept less than it was given. *)
(***************************************************************************)
EXTENDS Integers, Sequences

CONSTANTS Samples, QueueCapacity

VARIABLES
    waiting,   \* the samples accepted and not yet taken
    taken      \* the samples the last pop copied out

FifoInit == waiting = <<>> /\ taken = <<>>

(* Samples are added at the end. *)
FifoPush ==
    /\ waiting' \in Seq(Samples)
    /\ Len(waiting') <= QueueCapacity
    /\ Len(waiting) <= Len(waiting')
    /\ \A i \in 1..Len(waiting) : waiting'[i] = waiting[i]
    /\ UNCHANGED taken

(* The oldest samples are handed over; the others stay as they are. *)
FifoPop ==
    /\ taken' \in Seq(Samples)
    /\ waiting' \in Seq(Samples)
    /\ Len(waiting) = Len(taken') + Len(waiting')
    /\ \A i \in 1..Len(taken') : taken'[i] = waiting[i]
    /\ \A i \in 1..Len(waiting') : waiting'[i] = waiting[Len(taken') + i]

FifoSpec == FifoInit /\ [][FifoPush \/ FifoPop]_<<waiting, taken>>
=============================================================================
