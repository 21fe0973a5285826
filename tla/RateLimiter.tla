---------------------------- MODULE RateLimiter -----------------------------
(***************************************************************************)
(* InMemoryTransmissionRateLimiter                                         *)
(* (libs/application/src/in_memory_control_plane.cpp): a sliding window of *)
(* the requests it let pass.  The starts and the ends of each player have  *)
(* a history and a limit of their own, so one history is modelled.         *)
(*                                                                         *)
(* The time of a request is read when the HTTP worker takes it, before the *)
(* session lookup and before the limiter's mutex, so requests of one       *)
(* player reach the history out of time order.  The history is kept in     *)
(* order of arrival and expired from its front only.                       *)
(***************************************************************************)
EXTENDS Integers, Sequences

CONSTANTS
    RateWorkers, \* HTTP workers
    MaxInWindow, \* maximum_requests
    Window,      \* window
    MaxTime,     \* bound of the clock
    MaxPassed    \* bound of the requests let pass

(* The constructor of TransmissionRateLimit throws unless both are positive. *)
ASSUME RateAssumption ==
    /\ MaxInWindow \in Nat \ {0}
    /\ Window \in Nat \ {0}
    /\ MaxTime \in Nat
    /\ MaxPassed \in Nat

VARIABLES
    rateClock, \* the time
    stamp,     \* by worker, the time of the request it carries, or NoStamp
    requests,  \* the deque of one history
    passed     \* auxiliary: the requests let pass, each with the latest time allow had been called with

rateVars == <<rateClock, stamp, requests, passed>>

NoStamp == -1

RateInit ==
    /\ rateClock = 0
    /\ stamp = [w \in RateWorkers |-> NoStamp]
    /\ requests = <<>>
    /\ passed = <<>>

RateTypeOK ==
    /\ rateClock \in 0..MaxTime
    /\ stamp \in [RateWorkers -> 0..MaxTime \cup {NoStamp}]
    /\ requests \in Seq(0..MaxTime)
    /\ Len(requests) <= MaxInWindow
    /\ passed \in Seq([at : 0..MaxTime, latest : 0..MaxTime])

Tick ==
    /\ rateClock < MaxTime
    /\ rateClock' = rateClock + 1
    /\ UNCHANGED <<stamp, requests, passed>>

(* A worker takes a request and reads the clock. *)
TakeRequest(w) ==
    /\ stamp[w] = NoStamp
    /\ stamp' = [stamp EXCEPT ![w] = rateClock]
    /\ UNCHANGED <<rateClock, requests, passed>>

(* discardExpiredRequests stops at the first request that is not expired. *)
Unexpired(now) ==
    LET kept == {k \in 1..Len(requests) : requests[k] > now - Window}
    IN IF kept = {} THEN <<>>
       ELSE SubSeq(requests, CHOOSE k \in kept : \A j \in kept : k <= j, Len(requests))

SlipHistoryFull(history) == Len(history) > MaxInWindow

HistoryFull(history) == Len(history) >= MaxInWindow

(* The latest time the history has been expired with: an auxiliary. *)
Latest(now) ==
    IF passed = <<>> \/ passed[Len(passed)].latest < now THEN now ELSE passed[Len(passed)].latest

(* allow: expired requests are discarded whether or not the request passes. *)
Allow(w) ==
    /\ stamp[w] # NoStamp
    /\ ~HistoryFull(Unexpired(stamp[w]))
    /\ Len(passed) < MaxPassed
    /\ requests' = Append(Unexpired(stamp[w]), stamp[w])
    /\ passed' = Append(passed, [at |-> stamp[w], latest |-> Latest(stamp[w])])
    /\ stamp' = [stamp EXCEPT ![w] = NoStamp]
    /\ UNCHANGED rateClock

Refuse(w) ==
    /\ stamp[w] # NoStamp
    /\ HistoryFull(Unexpired(stamp[w]))
    /\ requests' = Unexpired(stamp[w])
    /\ stamp' = [stamp EXCEPT ![w] = NoStamp]
    /\ UNCHANGED <<rateClock, passed>>

RateNext ==
    \/ Tick
    \/ \E w \in RateWorkers : TakeRequest(w) \/ Allow(w) \/ Refuse(w)

RateSpec == RateInit /\ [][RateNext]_rateVars

-----------------------------------------------------------------------------
(* One request more than the limit passes only when a window has gone by   *)
(* since the first of them, by the latest time a passed request carried:   *)
(* however the workers reorder the requests of a player, a burst is        *)
(* limited (InMemoryTransmissionRateLimiter::allow).                       *)
RateIsBounded ==
    \A k \in 1..Len(passed) - MaxInWindow :
        passed[k + MaxInWindow].latest >= passed[k].at + Window
=============================================================================
