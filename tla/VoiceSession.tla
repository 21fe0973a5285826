---------------------------- MODULE VoiceSession ----------------------------
(***************************************************************************)
(* The client-side state machines of libs/domain: ConnectionStateMachine,  *)
(* TransmissionStateMachine and VoiceSessionStateMachine, which drives the *)
(* two together.  Every handler of the code returns false and changes      *)
(* nothing when its guard fails, so a rejected call is a stuttering step   *)
(* and each action below is the accepted case of one handler.              *)
(*                                                                         *)
(* The environment is a server whose answers may arrive late, more than    *)
(* once, in any order or never: what it decided is kept in grant, refused  *)
(* and ended, and an answer can be delivered in every later state.         *)
(***************************************************************************)
EXTENDS Integers

CONSTANTS
    Scopes,         \* the voice scopes a user can select
    DefaultScope,   \* VoiceScope::team
    MaxVersion,     \* bound on membership versions
    MaxRequests     \* bound on the client request ids that are issued

ASSUME ScopeAssumption == DefaultScope \in Scopes
ASSUME BoundAssumption == MaxVersion \in Nat /\ MaxRequests \in Nat

Versions == 1..MaxVersion
Requests == 1..MaxRequests   \* ClientTransmissionIds, and TransmissionIds

VARIABLES
    conn,      \* ConnectionStateMachine::state_
    version,   \* membership_version_, 0 for nullopt
    scope,     \* selected_scope_
    tx,        \* TransmissionStateMachine::state_
    ctx,       \* context_, NoContext for nullopt
    lastStop,  \* last_stop_reason_
    issued,    \* how many client request ids the caller has used
    grant,     \* the TransmissionId the server gave to a request, 0 for none
    refused,   \* the requests the server rejected
    ended      \* the TransmissionIds the server has ended

vars == <<conn, version, scope, tx, ctx, lastStop, issued, grant, refused, ended>>
connVars == <<conn, version>>
txVars == <<tx, ctx, lastStop>>
serverVars == <<grant, refused, ended>>

ConnectionStates == {"disconnected", "connecting_transport", "refreshing_membership",
                     "restoring_subscriptions", "ready", "reconnecting_transport"}
TransmissionStates == {"idle", "requesting", "transmitting", "ending"}
StopReasons == {"none", "rejected", "push_to_talk_released", "connection_lost",
                "membership_changed", "permission_revoked", "timed_out",
                "transport_error", "disconnected"}

NoContext == [req |-> 0, scope |-> DefaultScope, version |-> 0, tid |-> 0]
Contexts == [req : 0..MaxRequests, scope : Scopes, version : 0..MaxVersion,
             tid : 0..MaxRequests]

\* Type invariant of the three state machines and of the server's record; the
\* context exists exactly while a transmission is in flight.
TypeOK ==
    /\ conn \in ConnectionStates
    /\ version \in 0..MaxVersion
    /\ scope \in Scopes
    /\ tx \in TransmissionStates
    /\ ctx \in Contexts
    /\ lastStop \in StopReasons
    /\ issued \in 0..MaxRequests
    /\ grant \in [Requests -> 0..MaxRequests]
    /\ refused \in SUBSET Requests
    /\ ended \in SUBSET Requests
    /\ (tx = "idle") <=> (ctx = NoContext)

Init ==
    /\ conn = "disconnected"
    /\ version = 0
    /\ scope = DefaultScope
    /\ tx = "idle"
    /\ ctx = NoContext
    /\ lastStop = "none"
    /\ issued = 0
    /\ grant = [r \in Requests |-> 0]
    /\ refused = {}
    /\ ended = {}

-----------------------------------------------------------------------------
(* TransmissionStateMachine::finish and interrupt.  interrupt on an idle
   machine is refused and its caller ignores that.  Operators whose names begin
   with Slip are plausible mistakes in the definition that follows them; no
   specification uses them. *)
SlipFinishKeepsContext(reason) ==
    /\ tx' = "idle"
    /\ lastStop' = reason
    /\ UNCHANGED ctx

Finish(reason) ==
    /\ tx' = "idle"
    /\ ctx' = NoContext
    /\ lastStop' = reason

SlipInterruptSparesRequests(reason) ==
    IF tx \in {"idle", "requesting"} THEN UNCHANGED txVars ELSE Finish(reason)

Interrupt(reason) == IF tx = "idle" THEN UNCHANGED txVars ELSE Finish(reason)

(* The connection handlers. *)
BeginConnect ==
    /\ conn = "disconnected"
    /\ conn' = "connecting_transport"
    /\ UNCHANGED <<version, scope, txVars, issued, serverVars>>

TransportConnected ==
    /\ conn \in {"connecting_transport", "reconnecting_transport"}
    /\ conn' = "refreshing_membership"
    /\ version' = 0
    /\ UNCHANGED <<scope, txVars, issued, serverVars>>

MembershipRefreshed(v) ==
    /\ conn = "refreshing_membership"
    /\ v # 0
    /\ version' = v
    /\ conn' = "restoring_subscriptions"
    /\ UNCHANGED <<scope, txVars, issued, serverVars>>

SubscriptionsRestored(v) ==
    /\ conn = "restoring_subscriptions"
    /\ version # 0
    /\ v = version
    /\ conn' = "ready"
    /\ UNCHANGED <<version, scope, txVars, issued, serverVars>>

MembershipChanged(v) ==
    /\ conn = "ready"
    /\ version # 0
    /\ v > version
    /\ version' = v
    /\ conn' = "restoring_subscriptions"
    /\ Interrupt("membership_changed")
    /\ UNCHANGED <<scope, issued, serverVars>>

ConnectionLost ==
    /\ conn \notin {"disconnected", "reconnecting_transport"}
    /\ version' = 0
    /\ conn' = "reconnecting_transport"
    /\ Interrupt("connection_lost")
    /\ UNCHANGED <<scope, issued, serverVars>>

Disconnect ==
    /\ conn # "disconnected"
    /\ version' = 0
    /\ conn' = "disconnected"
    /\ Interrupt("disconnected")
    /\ UNCHANGED <<scope, issued, serverVars>>

-----------------------------------------------------------------------------
(* The user: selecting a scope, pressing and releasing push-to-talk.  The
   caller supplies a ClientTransmissionId it has not used before. *)
SelectScope(s) ==
    /\ scope' = s
    /\ UNCHANGED <<connVars, txVars, issued, serverVars>>

RequestTransmission ==
    /\ issued < MaxRequests
    /\ conn = "ready"
    /\ version # 0
    /\ tx = "idle"
    /\ issued' = issued + 1
    /\ ctx' = [req |-> issued + 1, scope |-> scope, version |-> version, tid |-> 0]
    /\ lastStop' = "none"
    /\ tx' = "requesting"
    /\ UNCHANGED <<connVars, scope, serverVars>>

EndTransmission ==
    /\ \/ /\ tx = "requesting"
          /\ Finish("push_to_talk_released")
       \/ /\ tx = "transmitting"
          /\ tx' = "ending"
          /\ UNCHANGED <<ctx, lastStop>>
    /\ UNCHANGED <<connVars, scope, issued, serverVars>>

-----------------------------------------------------------------------------
(* Answers of the server, delivered at any time after they were decided. *)
SlipAnswersAnyRequest(r) == tx = "requesting"

AnswersRequest(r) == tx = "requesting" /\ ctx.req = r

TransmissionAccepted(r) ==
    /\ grant[r] # 0
    /\ AnswersRequest(r)
    /\ ctx' = [ctx EXCEPT !.tid = grant[r]]
    /\ tx' = "transmitting"
    /\ UNCHANGED <<connVars, scope, lastStop, issued, serverVars>>

TransmissionRejected(r) ==
    /\ r \in refused
    /\ AnswersRequest(r)
    /\ Finish("rejected")
    /\ UNCHANGED <<connVars, scope, issued, serverVars>>

SlipEndsAnyTransmission(t) == tx = "ending" /\ ctx.tid # 0

EndsTransmission(t) == tx = "ending" /\ ctx.tid # 0 /\ ctx.tid = t

TransmissionEnded(t) ==
    /\ t \in ended
    /\ EndsTransmission(t)
    /\ Finish("push_to_talk_released")
    /\ UNCHANGED <<connVars, scope, issued, serverVars>>

(* permissionRevoked, transmissionTimedOut, transmissionTransportFailed. *)
ForcedStop(reason) ==
    /\ tx # "idle"
    /\ Finish(reason)
    /\ UNCHANGED <<connVars, scope, issued, serverVars>>

(* The server decides each request once and never reuses a TransmissionId. *)
ServerGrants(r, t) ==
    /\ r <= issued
    /\ grant[r] = 0
    /\ r \notin refused
    /\ \A q \in Requests : grant[q] # t
    /\ grant' = [grant EXCEPT ![r] = t]
    /\ UNCHANGED <<connVars, scope, txVars, issued, refused, ended>>

ServerRefuses(r) ==
    /\ r <= issued
    /\ grant[r] = 0
    /\ refused' = refused \cup {r}
    /\ UNCHANGED <<connVars, scope, txVars, issued, grant, ended>>

ServerEnds(t) ==
    /\ \E r \in Requests : grant[r] = t
    /\ ended' = ended \cup {t}
    /\ UNCHANGED <<connVars, scope, txVars, issued, grant, refused>>

-----------------------------------------------------------------------------
Next ==
    \/ BeginConnect
    \/ TransportConnected
    \/ \E v \in Versions : MembershipRefreshed(v)
    \/ \E v \in Versions : SubscriptionsRestored(v)
    \/ \E v \in Versions : MembershipChanged(v)
    \/ ConnectionLost
    \/ Disconnect
    \/ \E s \in Scopes : SelectScope(s)
    \/ RequestTransmission
    \/ EndTransmission
    \/ \E r \in Requests : TransmissionAccepted(r)
    \/ \E r \in Requests : TransmissionRejected(r)
    \/ \E t \in Requests : TransmissionEnded(t)
    \/ \E reason \in {"permission_revoked", "timed_out", "transport_error"} :
            ForcedStop(reason)
    \/ \E r, t \in Requests : ServerGrants(r, t)
    \/ \E r \in Requests : ServerRefuses(r)
    \/ \E t \in Requests : ServerEnds(t)

Spec == Init /\ [][Next]_vars

-----------------------------------------------------------------------------
(* Safety. *)

\* A transmission that is requested, live or ending belongs to a ready
\* connection and was authorised under the membership version the connection
\* holds now: every loss of the connection and every membership change ends it
\* in the same step (VoiceSessionStateMachine::membershipChanged,
\* connectionLost, disconnect).
InFlightOnCurrentMembership ==
    tx # "idle" => conn = "ready" /\ ctx.version = version /\ version # 0

\* The TransmissionId the client holds is the one the server gave to the
\* request the client is in, never the answer to an older request, and a live
\* or ending transmission has one (TransmissionStateMachine::accepted).
HoldsOwnGrant ==
    /\ tx \in {"transmitting", "ending"} => ctx.tid # 0
    /\ ctx.tid # 0 => ctx.req \in Requests /\ grant[ctx.req] = ctx.tid

\* Only the newest request can become a live transmission: after a release, an
\* interruption or a reconnect the machine goes live again only through a new
\* requestTransmission.
OnlyNewestRequestGoesLive ==
    [][tx # "transmitting" /\ tx' = "transmitting"
            => /\ tx = "requesting"
               /\ ctx.req = issued
               /\ ctx'.tid = grant[issued]]_vars

\* A transmission the server accepted is reported as released by the user only
\* after the server itself has ended that very transmission
\* (TransmissionStateMachine::ended compares the ids).
ReleaseConfirmedByServer ==
    [][(/\ tx \in {"transmitting", "ending"}
        /\ tx' = "idle"
        /\ lastStop' = "push_to_talk_released")
        => ctx.tid \in ended]_vars

\* Between a refresh and the next loss of the connection the membership version
\* only grows; a stale version never replaces a newer one
\* (ConnectionStateMachine::membershipChanged).
VersionNeverGoesBack ==
    [][version # 0 /\ version' # 0 => version' >= version]_vars

=============================================================================
