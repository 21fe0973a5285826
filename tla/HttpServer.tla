----------------------------- MODULE HttpServer -----------------------------
(***************************************************************************)
(* runLinuxHttpServer: the thread that accepts connections, a bounded      *)
(* queue of accepted connections, and the pool of worker threads that take *)
(* them from the queue.  The mutex makes a critical section one step; the  *)
(* condition variable is modelled by its wait set: a worker whose          *)
(* predicate is false goes to sleep in the step that evaluated it, and     *)
(* sleeps until it is notified or wakes spuriously.  Notifications happen  *)
(* after the lock is released, in steps of their own.                      *)
(***************************************************************************)
EXTENDS Integers, Sequences, FiniteSets

CONSTANTS
    Workers,         \* options.worker_count threads
    Capacity,        \* options.maximum_queued_connections
    MaxConnections   \* bound on the connections clients open

ASSUME LimitsAssumption ==
    /\ Workers # {}
    /\ Capacity \in Nat \ {0}
    /\ MaxConnections \in Nat

Connections == 1..MaxConnections
NoConnection == 0

VARIABLES
    accepted,   \* how many connections accept() has returned, in order
    queue,      \* queue
    stopping,   \* stopping
    shutdown,   \* shutdown_requested, set by the signal handler
    apc,        \* where the accepting thread is
    client,     \* the connection the accepting thread holds
    wpc,        \* where each worker is
    serving,    \* the connection a worker is processing
    answered,   \* connections processClient is done with
    refused     \* connections that got 503 server_overloaded

vars == <<accepted, queue, stopping, shutdown, apc, client, wpc, serving, answered, refused>>
workerVars == <<wpc, serving, answered>>

AcceptorPCs == {"loop", "polling", "accepted", "queued", "full", "leaving", "stopping", "joining",
                "stopped"}
WorkerPCs == {"ready", "asleep", "working", "returned"}

\* Type invariant; the queue never grows beyond its configured capacity.
TypeOK ==
    /\ accepted \in 0..MaxConnections
    /\ queue \in Seq(Connections)
    /\ Len(queue) <= Capacity
    /\ stopping \in BOOLEAN
    /\ shutdown \in BOOLEAN
    /\ apc \in AcceptorPCs
    /\ client \in Connections \cup {NoConnection}
    /\ wpc \in [Workers -> WorkerPCs]
    /\ serving \in [Workers -> Connections \cup {NoConnection}]
    /\ answered \in SUBSET Connections
    /\ refused \in SUBSET Connections

Init ==
    /\ accepted = 0
    /\ queue = <<>>
    /\ stopping = FALSE
    /\ shutdown = FALSE
    /\ apc = "loop"
    /\ client = NoConnection
    /\ wpc = [w \in Workers |-> "ready"]
    /\ serving = [w \in Workers |-> NoConnection]
    /\ answered = {}
    /\ refused = {}

-----------------------------------------------------------------------------
(* The accepting thread.  Operators whose names begin with Slip are plausible
   mistakes in the definition that follows them; no specification uses them. *)

RequestShutdown ==
    /\ ~shutdown
    /\ shutdown' = TRUE
    /\ UNCHANGED <<accepted, queue, stopping, apc, client, workerVars, refused>>

CheckShutdown ==
    /\ apc = "loop"
    /\ apc' = IF shutdown THEN "leaving" ELSE "polling"
    /\ UNCHANGED <<accepted, queue, stopping, shutdown, client, workerVars, refused>>

(* poll finds nothing, or poll or accept is interrupted by a signal. *)
PollAgain ==
    /\ apc = "polling"
    /\ apc' = "loop"
    /\ UNCHANGED <<accepted, queue, stopping, shutdown, client, workerVars, refused>>

(* poll or accept fails: the server shuts down with an exit code of 1. *)
PollFails ==
    /\ apc = "polling"
    /\ apc' = "leaving"
    /\ UNCHANGED <<accepted, queue, stopping, shutdown, client, workerVars, refused>>

Accept ==
    /\ apc = "polling"
    /\ accepted < MaxConnections
    /\ accepted' = accepted + 1
    /\ client' = accepted + 1
    /\ apc' = "accepted"
    /\ UNCHANGED <<queue, stopping, shutdown, workerVars, refused>>

SlipHasRoom == Len(queue) <= Capacity

HasRoom == Len(queue) < Capacity

PushBack == queue' = Append(queue, client)

Enqueue ==
    /\ apc = "accepted"
    /\ \/ /\ HasRoom
          /\ PushBack
          /\ client' = NoConnection
          /\ apc' = "queued"
       \/ /\ ~HasRoom
          /\ apc' = "full"
          /\ UNCHANGED <<queue, client>>
    /\ UNCHANGED <<accepted, stopping, shutdown, workerVars, refused>>

Wake(w) == wpc' = [wpc EXCEPT ![w] = "ready"]

SlipNotifyNobody ==
    /\ apc = "queued"
    /\ apc' = "loop"
    /\ UNCHANGED <<accepted, queue, stopping, shutdown, client, workerVars, refused>>

(* notify_one wakes one sleeping worker, if there is one. *)
NotifyOne ==
    /\ apc = "queued"
    /\ apc' = "loop"
    /\ \/ \E w \in Workers : wpc[w] = "asleep" /\ Wake(w)
       \/ (\A w \in Workers : wpc[w] # "asleep") /\ UNCHANGED wpc
    /\ UNCHANGED <<accepted, queue, stopping, shutdown, client, serving, answered, refused>>

(* sendOverloadResponse: whether or not it throws, the connection is closed. *)
Overloaded ==
    /\ apc = "full"
    /\ refused' = refused \cup {client}
    /\ client' = NoConnection
    /\ apc' = "loop"
    /\ UNCHANGED <<accepted, queue, stopping, shutdown, workerVars>>

SetStopping ==
    /\ apc = "leaving"
    /\ stopping' = TRUE
    /\ apc' = "stopping"
    /\ UNCHANGED <<accepted, queue, shutdown, client, workerVars, refused>>

NotifyAll ==
    /\ apc = "stopping"
    /\ wpc' = [w \in Workers |-> IF wpc[w] = "asleep" THEN "ready" ELSE wpc[w]]
    /\ apc' = "joining"
    /\ UNCHANGED <<accepted, queue, stopping, shutdown, client, serving, answered, refused>>

Join ==
    /\ apc = "joining"
    /\ \A w \in Workers : wpc[w] = "returned"
    /\ apc' = "stopped"
    /\ UNCHANGED <<accepted, queue, stopping, shutdown, client, workerVars, refused>>

-----------------------------------------------------------------------------
(* A worker, holding the lock. *)
MustReturn == stopping /\ queue = <<>>

SlipMustSleep == queue = <<>>

MustSleep == ~stopping /\ queue = <<>>

Sleep(w) ==
    /\ wpc[w] = "ready"
    /\ MustSleep
    /\ wpc' = [wpc EXCEPT ![w] = "asleep"]
    /\ UNCHANGED <<accepted, queue, stopping, shutdown, apc, client, serving, answered, refused>>

SpuriousWakeup(w) ==
    /\ wpc[w] = "asleep"
    /\ Wake(w)
    /\ UNCHANGED <<accepted, queue, stopping, shutdown, apc, client, serving, answered, refused>>

Return(w) ==
    /\ wpc[w] = "ready"
    /\ MustReturn
    /\ wpc' = [wpc EXCEPT ![w] = "returned"]
    /\ UNCHANGED <<accepted, queue, stopping, shutdown, apc, client, serving, answered, refused>>

SlipPopFront == queue' = queue

PopFront == queue' = Tail(queue)

Take(w) ==
    /\ wpc[w] = "ready"
    /\ ~MustSleep
    /\ ~MustReturn
    /\ serving' = [serving EXCEPT ![w] = Head(queue)]
    /\ PopFront
    /\ wpc' = [wpc EXCEPT ![w] = "working"]
    /\ UNCHANGED <<accepted, stopping, shutdown, apc, client, answered, refused>>

(* processClient: socket timeouts and size limits bound it, and it lets no
   exception escape. *)
ProcessClient(w) ==
    /\ wpc[w] = "working"
    /\ answered' = answered \cup {serving[w]}
    /\ serving' = [serving EXCEPT ![w] = NoConnection]
    /\ wpc' = [wpc EXCEPT ![w] = "ready"]
    /\ UNCHANGED <<accepted, queue, stopping, shutdown, apc, client, refused>>

-----------------------------------------------------------------------------
AcceptorStep ==
    \/ CheckShutdown
    \/ PollAgain
    \/ Accept
    \/ Enqueue
    \/ NotifyOne
    \/ Overloaded
    \/ SetStopping
    \/ NotifyAll
    \/ Join

WorkerStep(w) == Sleep(w) \/ Return(w) \/ Take(w) \/ ProcessClient(w)

(* main returns: nothing happens any more. *)
Stopped == apc = "stopped" /\ UNCHANGED vars

Next ==
    \/ RequestShutdown
    \/ AcceptorStep
    \/ PollFails
    \/ \E w \in Workers : WorkerStep(w)
    \/ \E w \in Workers : SpuriousWakeup(w)
    \/ Stopped

Spec == Init /\ [][Next]_vars

(* The operating system runs every thread that can run; poll returns after at
   most 500 ms.  No signal has to come, poll need not fail, and no sleeping
   worker has to wake unless it is notified. *)
Fairness == WF_vars(AcceptorStep) /\ \A w \in Workers : WF_vars(WorkerStep(w))

FairSpec == Spec /\ Fairness

-----------------------------------------------------------------------------
(* Safety. *)

Queued(c) == {i \in DOMAIN queue : queue[i] = c}
ServedBy(c) == {w \in Workers : serving[w] = c}

\* Every accepted connection is in exactly one place: held by the accepting
\* thread, at one position of the queue, with one worker, processed or refused.
\* So no request is handled twice and no socket is dropped without an answer.
EachConnectionOnce ==
    \A c \in Connections :
        (IF client = c THEN 1 ELSE 0)
        + Cardinality(Queued(c))
        + Cardinality(ServedBy(c))
        + (IF c \in answered THEN 1 ELSE 0)
        + (IF c \in refused THEN 1 ELSE 0)
        = IF c <= accepted THEN 1 ELSE 0

\* No wakeup is lost: while connections are queued the pool is never all asleep,
\* unless the accepting thread is about to notify; and once shutdown has been
\* announced to the pool nobody sleeps.
NoLostWakeup ==
    /\ queue # <<>> /\ apc \notin {"queued", "stopping"}
            => \E w \in Workers : wpc[w] \in {"ready", "working"}
    /\ apc \in {"joining", "stopped"} => \A w \in Workers : wpc[w] # "asleep"

\* Workers leave only when accepting is over and the queue is drained, so when
\* the server has stopped every connection it accepted was processed or refused
\* (server-runtime.md: accepted requests are still worked off).
StoppedIsDrained ==
    /\ \A w \in Workers : wpc[w] = "returned" => stopping /\ queue = <<>>
    /\ apc = "stopped" => 1..accepted \subseteq answered \cup refused

-----------------------------------------------------------------------------
(* Liveness. *)

\* Every accepted connection is processed or refused in the end: as answered and
\* refused only grow and MaxConnections bounds accepted, it comes to a point again and
\* again where no connection that was accepted is still held, queued or being served.
ConnectionsAnswered == []<>(1..accepted \subseteq answered \cup refused)

\* A shutdown signal stops the server, whatever is queued.
ShutdownStops == shutdown ~> apc = "stopped"
=============================================================================
