----------------------------- MODULE ClientCore -----------------------------
(***************************************************************************)
(* The client core behind its C interface, with the C++ wrapper of the     *)
(* host.  The host serialises its own calls; the transport calls back on   *)
(* threads of its own, through the wrapper's observer, the C table's       *)
(* observer and the VoiceClient's observer, each read at its own moment,   *)
(* while the host may be creating or destroying the handle.                *)
(***************************************************************************)
EXTENDS Naturals, Sequences, FiniteSets

CONSTANTS
    CoreThreads,   \* the host transport's callback threads
    CallbackKinds, \* what the transport reports, states, "speaker", "track" and "error"
    HostVersions,  \* membership versions the host publishes, 0 an invalid one
    MaxCalls,      \* bound on the host's calls
    MaxCallbacks   \* bound on the transport's callbacks

CoreStates == {"disconnected", "connecting", "connected", "reconnecting"}

ASSUME CoreAssumption ==
    /\ CallbackKinds \subseteq CoreStates \cup {"speaker", "track", "error"}
    /\ HostVersions \subseteq Nat /\ MaxCalls \in Nat /\ MaxCallbacks \in Nat

VARIABLES
    handle,      \* none, attaching, open, detaching, freed
    wrapperObs,  \* ClientCore::transport_observer_ is set
    hostObs,     \* the host transport has an observer
    tableObs,    \* CVoiceTransport::observer_ is set
    clientObs,   \* VoiceClient::observer_ is the core
    coreState,   \* VoiceClient: state_
    membership,  \* core->membership: its version, 0 when there is none
    call,        \* the host's call: what it still has to report, or that it connects
    back,        \* per callback thread, where it is
    sequence,    \* next_sequence
    told,        \* history: the events, by their number
    hostCalls, callbacksMade

coreVars == <<handle, wrapperObs, hostObs, tableObs, clientObs, coreState, membership, call, back,
              sequence, told, hostCalls, callbacksMade>>
observerVars == <<wrapperObs, hostObs, tableObs, clientObs>>
eventVars == <<sequence, told>>

Outside == [at |-> "out"]
NoReport == [kind |-> "none"]

\* Type invariant.
CoreTypeOK ==
    /\ handle \in {"none", "attaching", "open", "detaching", "freed"}
    /\ wrapperObs \in BOOLEAN /\ hostObs \in BOOLEAN /\ tableObs \in BOOLEAN /\ clientObs \in BOOLEAN
    /\ coreState \in CoreStates /\ membership \in HostVersions \cup {0}
    /\ \A t \in CoreThreads : back[t].at \in {"out", "wrapper", "table", "client", "report", "emit"}
    /\ Len(told) < sequence

CoreInit ==
    /\ handle = "none"
    /\ wrapperObs = FALSE /\ hostObs = FALSE /\ tableObs = FALSE /\ clientObs = FALSE
    /\ coreState = "disconnected" /\ membership = 0
    /\ call = NoReport
    /\ back = [t \in CoreThreads |-> Outside]
    /\ sequence = 1 /\ told = <<>>
    /\ hostCalls = 0 /\ callbacksMade = 0

-----------------------------------------------------------------------------
(* Creation and destruction. *)

(* hvc_client_core_create: VoiceClient attaches itself to the table, the table
   to the wrapper, and the wrapper to the host transport. *)
Create ==
    /\ handle = "none"
    /\ handle' = "attaching"
    /\ tableObs' = TRUE
    /\ wrapperObs' = TRUE
    /\ UNCHANGED <<hostObs, clientObs, coreState, membership, call, back, eventVars, hostCalls,
                   callbacksMade>>

(* setObserverThunk, CVoiceTransport::setObserver: the transport may refuse. *)
Attached(ok) ==
    /\ handle = "attaching" /\ ~hostObs
    /\ hostObs' = ok
    /\ wrapperObs' = ok
    /\ tableObs' = ok
    /\ handle' = IF ok THEN "attaching" ELSE "freed"
    /\ UNCHANGED <<clientObs, coreState, membership, call, back, eventVars, hostCalls, callbacksMade>>

(* The core then observes its VoiceClient. *)
Created ==
    /\ handle = "attaching" /\ hostObs
    /\ clientObs' = TRUE
    /\ handle' = "open"
    /\ UNCHANGED <<wrapperObs, hostObs, tableObs, coreState, membership, call, back, eventVars,
                   hostCalls, callbacksMade>>

(* hvc_client_core_destroy, once the host has stopped its calls: the core stops
   observing, then ~VoiceClient detaches the table, and the wrapper. *)
Destroy ==
    /\ handle = "open" /\ call = NoReport
    /\ handle' = "detaching"
    /\ clientObs' = FALSE
    /\ UNCHANGED <<wrapperObs, hostObs, tableObs, coreState, membership, call, back, eventVars,
                   hostCalls, callbacksMade>>

Detach ==
    /\ handle = "detaching" /\ tableObs
    /\ tableObs' = FALSE
    /\ wrapperObs' = FALSE
    /\ UNCHANGED <<handle, hostObs, clientObs, coreState, membership, call, back, eventVars, hostCalls,
                   callbacksMade>>

(* The transport takes its observer off without waiting. *)
SlipCallbacksEnded == TRUE

(* setObserver(nullptr) returns when no callback is running. *)
CallbacksEnded == \A t \in CoreThreads : back[t].at = "out"

Freed ==
    /\ handle = "detaching" /\ ~tableObs
    /\ CallbacksEnded
    /\ hostObs' = FALSE
    /\ handle' = "freed"
    /\ UNCHANGED <<wrapperObs, tableObs, clientObs, coreState, membership, call, back, eventVars,
                   hostCalls, callbacksMade>>

-----------------------------------------------------------------------------
(* The host's calls. *)

MayCall == handle = "open" /\ call = NoReport /\ hostCalls < MaxCalls
Reports(r) == call' = r /\ hostCalls' = hostCalls + 1

Update(v) == [kind |-> "membership", version |-> v]
Error == [kind |-> "error"]
Connecting == [kind |-> "connect"]

(* A version has to increase strictly, except after a clear. *)
IsNewer(v) == membership = 0 \/ v > membership

(* hvc_client_core_update_membership: stored under the lock, told afterwards. *)
UpdateMembership(v) ==
    /\ MayCall
    /\ IF v # 0 /\ IsNewer(v)
       THEN membership' = v /\ Reports(Update(v))
       ELSE UNCHANGED membership /\ Reports(Error)
    /\ UNCHANGED <<handle, observerVars, coreState, back, eventVars, callbacksMade>>

(* hvc_client_core_clear_membership *)
ClearMembership ==
    /\ MayCall
    /\ membership' = 0
    /\ Reports(Update(0))
    /\ UNCHANGED <<handle, observerVars, coreState, back, eventVars, callbacksMade>>

(* hvc_client_core_connect: refused arguments or state are reported.  Otherwise
   the transport is called, and reports its states on its own threads. *)
ConnectCore(valid) ==
    /\ MayCall
    /\ IF valid /\ coreState = "disconnected"
       THEN coreState' = "connecting" /\ Reports(Connecting)
       ELSE UNCHANGED coreState /\ Reports(Error)
    /\ UNCHANGED <<handle, observerVars, membership, back, eventVars, callbacksMade>>

(* A transport that fails leaves the client disconnected, whatever it reported. *)
ConnectReturns(ok) ==
    /\ call = Connecting
    /\ IF ok THEN call' = NoReport /\ UNCHANGED coreState
       ELSE call' = Error /\ coreState' = "disconnected"
    /\ UNCHANGED <<handle, observerVars, membership, back, eventVars, hostCalls, callbacksMade>>

(* hvc_client_core_disconnect *)
DisconnectCore(ok) ==
    /\ MayCall
    /\ IF ok THEN coreState' = "disconnected" /\ call' = call /\ hostCalls' = hostCalls + 1
       ELSE UNCHANGED coreState /\ Reports(Error)
    /\ UNCHANGED <<handle, observerVars, membership, back, eventVars, callbacksMade>>

(* hvc_client_core_press_push_to_talk and release: the transport's answer. *)
PushToTalk(ok) ==
    /\ MayCall
    /\ IF ok /\ coreState = "connected" THEN call' = call /\ hostCalls' = hostCalls + 1
       ELSE Reports(Error)
    /\ UNCHANGED <<handle, observerVars, coreState, membership, back, eventVars, callbacksMade>>

(* initializeEvent and emit of the host's call. *)
ReportCall ==
    /\ call \notin {NoReport, Connecting}
    /\ told' = Append(told, call)
    /\ sequence' = sequence + 1
    /\ call' = NoReport
    /\ UNCHANGED <<handle, observerVars, coreState, membership, back, hostCalls, callbacksMade>>

-----------------------------------------------------------------------------
(* The transport's callbacks. *)

At(t, where) == back[t].at = where
Goes(t, where) == back' = [back EXCEPT ![t].at = where]
Leaves(t) == back' = [back EXCEPT ![t] = Outside]

(* The transport calls its observer: a state, a speaker, a remote track, which
   is no event of the core, or an error. *)
Callback(t, what) ==
    /\ At(t, "out") /\ hostObs /\ handle # "freed"
    /\ ~(handle = "detaching" /\ ~tableObs)
    /\ callbacksMade < MaxCallbacks
    /\ callbacksMade' = callbacksMade + 1
    /\ back' = [back EXCEPT ![t] = [at |-> "wrapper", what |-> what]]
    /\ UNCHANGED <<handle, observerVars, coreState, membership, call, eventVars, hostCalls>>

(* ClientCore::observer: the wrapper's copy of the table. *)
ReadWrapper(t) ==
    /\ At(t, "wrapper")
    /\ IF wrapperObs THEN Goes(t, "table") ELSE Leaves(t)
    /\ UNCHANGED <<handle, observerVars, coreState, membership, call, eventVars, hostCalls,
                   callbacksMade>>

(* CVoiceTransport::currentObserver; an argument that is not valid is dropped. *)
ReadTable(t) ==
    /\ At(t, "table")
    /\ \/ tableObs /\ Goes(t, "client")
       \/ Leaves(t)
    /\ UNCHANGED <<handle, observerVars, coreState, membership, call, eventVars, hostCalls,
                   callbacksMade>>

(* VoiceClient, under its lock: the new state, and the observer to tell. *)
InClient(t) ==
    /\ At(t, "client")
    /\ coreState' = IF back[t].what \in CoreStates THEN back[t].what ELSE coreState
    /\ IF clientObs /\ back[t].what # "track"
          /\ ~(back[t].what = "speaker" /\ coreState = "disconnected")
       THEN Goes(t, "report") ELSE Leaves(t)
    /\ UNCHANGED <<handle, observerVars, membership, call, eventVars, hostCalls, callbacksMade>>

(* initializeEvent, then emit, of the callback. *)
ReportBack(t) ==
    /\ At(t, "report")
    /\ told' = Append(told, [kind |-> "voice", what |-> back[t].what])
    /\ sequence' = sequence + 1
    /\ Goes(t, "emit")
    /\ UNCHANGED <<handle, observerVars, coreState, membership, call, hostCalls, callbacksMade>>

EmitBack(t) ==
    /\ At(t, "emit")
    /\ Leaves(t)
    /\ UNCHANGED <<handle, observerVars, coreState, membership, call, eventVars, hostCalls,
                   callbacksMade>>

CoreNext ==
    \/ Create \/ Created \/ Destroy \/ Detach \/ Freed
    \/ \E ok \in BOOLEAN : Attached(ok) \/ ConnectCore(ok) \/ ConnectReturns(ok)
                             \/ DisconnectCore(ok) \/ PushToTalk(ok)
    \/ \E v \in HostVersions : UpdateMembership(v)
    \/ ClearMembership \/ ReportCall
    \/ \E t \in CoreThreads :
         \/ \E what \in CallbackKinds : Callback(t, what)
         \/ ReadWrapper(t) \/ ReadTable(t) \/ InClient(t) \/ ReportBack(t) \/ EmitBack(t)

CoreSpec == CoreInit /\ [][CoreNext]_coreVars

-----------------------------------------------------------------------------
(* Properties. *)

(* The numbers of the events that tell a membership, and which of them is the last. *)
Memberships == {i \in DOMAIN told : told[i].kind = "membership"}
IsLast(i) == i \in Memberships /\ \A j \in Memberships : j <= i

\* A callback never runs in a core that is gone; the host learns of every
\* membership change, in order: between two clears the versions increase, and
\* when no call is in progress the last one told is the one stored.
CoreTellsTheHost ==
    /\ \A t \in CoreThreads :
         back[t].at \in {"table", "client", "report", "emit"} => handle # "freed"
    /\ \A i, j \in Memberships :
         i < j /\ (\A k \in Memberships : k <= i \/ k >= j) =>
            told[j].version = 0 \/ told[j].version > told[i].version
    /\ call = NoReport => /\ \A i \in Memberships : IsLast(i) => told[i].version = membership
                          /\ Memberships = {} => membership = 0
=============================================================================
