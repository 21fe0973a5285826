----------------------------- MODULE ServerApi ------------------------------
(***************************************************************************)
(* The HTTP API of the control plane (libs/network/src/                    *)
(* control_plane_http.cpp) with the client that calls it                   *)
(* (libs/client/src/control_plane_client.cpp).  A call is sent, an HTTP    *)
(* worker authenticates its session, the route's handler runs, and the     *)
(* answer is decoded by the client.  Between these steps other workers     *)
(* serve other calls, sessions expire and are erased, and the transport    *)
(* loses a request or an answer or an intermediary puts in one of its own. *)
(*                                                                         *)
(* The caller "user" calls through ControlPlaneClient.  "admin" is an      *)
(* administrator without the client library, whose requests may be         *)
(* incomplete.  The directory routes are in Directory; the interleavings   *)
(* inside the start or the end of a transmission are in ControlPlane,      *)
(* whose verdicts are a choice here.  An answer is a status, a code and a  *)
(* body; the texts are abstracted to the fields that are read.             *)
(***************************************************************************)
EXTENDS Routing, Sequences

CONSTANTS
    InitialMembership, \* function: the membership of each player at first
    Replacements,      \* memberships the administrator asks for
    MaxApiCalls,       \* bound of the calls
    MaxLogins,         \* bound of the sessions issued
    Expiring,          \* the sessions whose time runs out in a behaviour
    MaxApiVersion,     \* bound of the versions the callers name
    AskedScopes        \* scopes the user asks for

Callers == {"user", "admin"}
Library == {"user"}
ApiPlayers == DOMAIN InitialMembership

ASSUME ApiAssumption ==
    /\ Callers \subseteq ApiPlayers
    /\ MaxApiCalls \in Nat /\ MaxLogins \in Nat /\ MaxApiVersion \in Nat

VARIABLES
    apiSessions, \* the session repository: id -> [player, device]
    expired,     \* ids whose expires_at has passed
    logins,      \* session ids issued
    authority,   \* membership contexts by player, NoSnapshot where there is none
    speaking,    \* active transmissions: [id, session, device, player]
    held,        \* session_ of the client library, 0 for none
    calls        \* the calls made so far, see NewCall

apiVars == <<apiSessions, expired, logins, authority, speaking, held, calls>>

NoSnapshot == [version |-> 0]
Nothing == [what |-> "none"]
NoAnswer == [status |-> 0, code |-> "none", body |-> Nothing]

(* A call: what was asked (op, fault, arg) with which session; how far it  *)
(* is (sent, authenticated, read, answered); now and player are the time   *)
(* and the player the worker took it with; done is what the server did for *)
(* it, value the snapshot a PUT is about to write, outcome what the caller *)
(* is told in the end.                                                     *)
NewCall(c, op, fault, session, arg) ==
    [caller |-> c, op |-> op, fault |-> fault, session |-> session, arg |-> arg,
     phase |-> "sent", now |-> {}, player |-> c, answer |-> NoAnswer,
     done |-> Nothing, outcome |-> "none", value |-> Nothing]

(* A running system: both callers have a session, and the user may be speaking. *)
ApiInit ==
    /\ logins = 2
    /\ apiSessions = [s \in 1..2 |-> LET c == IF s = 1 THEN "user" ELSE "admin"
                                     IN [player |-> c, device |-> c]]
    /\ expired = {}
    /\ authority = [p \in ApiPlayers |-> [version |-> 1, members |-> InitialMembership]]
    /\ speaking \in {{}, {[id |-> 1, session |-> 1, device |-> "user", player |-> "user"]}}
    /\ held = 1
    /\ calls = <<>>

ApiTypeOK ==
    /\ logins \in 2..MaxLogins
    /\ DOMAIN apiSessions \subseteq 1..logins
    /\ expired \subseteq 1..logins
    /\ \A p \in ApiPlayers : authority[p] = NoSnapshot \/ SnapshotValid(authority[p])
    /\ \A t \in speaking : t.session \in 1..logins /\ t.device = t.player
    /\ held \in 0..logins
    /\ Len(calls) <= MaxApiCalls

-----------------------------------------------------------------------------
(* The callers. *)

Free(c) ==
    /\ Len(calls) < MaxApiCalls
    /\ \A n \in 1..Len(calls) : calls[n].caller = c => calls[n].outcome # "none"

Send(call) ==
    /\ calls' = Append(calls, call)
    /\ UNCHANGED <<apiSessions, expired, logins, authority, speaking, held>>

(* ControlPlaneClient refuses by itself what needs a session it does not have. *)
CallWithSession(op, arg) ==
    /\ Free("user")
    /\ Send(IF held = 0
            THEN [NewCall("user", op, "none", 0, arg) EXCEPT !.phase = "unsent", !.outcome = "invalid_state"]
            ELSE NewCall("user", op, "none", held, arg))

CallLogin == Free("user") /\ Send(NewCall("user", "login", "none", 0, Nothing))
CallMembership == CallWithSession("membership", Nothing)
CallGrants == CallWithSession("grants", Nothing)
CallEnd(id) == CallWithSession("end", [id |-> id])

CallStart(scope, version) ==
    IF held # 0 /\ version = 0
    THEN /\ Free("user")
         /\ Send([NewCall("user", "start", "none", held, [scope |-> scope, version |-> version])
                    EXCEPT !.phase = "unsent", !.outcome = "invalid_argument"])
    ELSE CallWithSession("start", [scope |-> scope, version |-> version])

ClearSession ==
    /\ held # 0
    /\ Free("user")
    /\ held' = 0
    /\ UNCHANGED <<apiSessions, expired, logins, authority, speaking, calls>>

(* What a caller without the library can leave out or get wrong, by route. *)
(* The session is looked at before the route is, so one route stands for   *)
(* the faults of the headers.                                              *)
FaultsOf(op) ==
    CASE op = "health" -> {"framing"}
      [] op = "login" -> {"scheme", "headers", "body"}
      [] op = "unknown" -> {"scheme", "headers"}
      [] op \in {"membership", "grants"} -> {"body"}
      [] op = "start" -> {"json", "unknown_field", "invalid_body"}
      [] op = "replace" -> {"path", "json", "unknown_field", "invalid_body"}
      [] op \in {"read", "remove", "interrupt"} -> {"path"}
      [] OTHER -> {}

RawArgs(op) ==
    CASE op = "interrupt" -> {[id |-> 1]}
      [] op = "replace" -> {[subject |-> "user", version |-> v, membership |-> m] :
                               v \in 0..MaxApiVersion, m \in Replacements}
      [] op \in {"read", "remove"} -> [subject : Callers]
      [] op \in {"health", "metrics", "membership", "unknown"} -> {Nothing}
      [] OTHER -> {}

(* The administrator's own session, or one that belongs to another device. *)
RawCall(op) ==
    /\ Free("admin")
    /\ \/ \E arg \in RawArgs(op) : Send(NewCall("admin", op, "none", 2, arg))
       \/ \E fault \in FaultsOf(op) :
             Send(NewCall("admin", op, fault, 2, Nothing))
       \/ op = "membership" /\ Send(NewCall("admin", op, "none", 1, Nothing))

-----------------------------------------------------------------------------
(* Answers. *)

(* Nobody reads the answer to a call whose transport has given up. *)
Answered(n, call, status, code, body) ==
    LET answer == [status |-> status, code |-> code, body |-> body]
    IN calls' = [calls EXCEPT ![n] =
                    [call EXCEPT !.phase = "answered", !.now = {}, !.value = Nothing,
                                 !.answer = IF call.outcome = "none" THEN answer ELSE NoAnswer]]

(* errorResponse: nothing else happens. *)
ErrorResponse(n, status, code) ==
    /\ Answered(n, calls[n], status, code, Nothing)
    /\ UNCHANGED <<apiSessions, expired, logins, authority, speaking, held>>

(* jsonResponse, after the handler did what done says. *)
JsonResponse(n, status, body, done) ==
    Answered(n, [calls[n] EXCEPT !.done = done], status, "none", body)

(* The status each code is answered with. *)
StatusOf(code) ==
    CASE code \in {"session_required", "credential_required", "invalid_session", "session_not_found",
                   "session_expired", "invalid_credentials"} -> 401
      [] code \in {"session_device_mismatch", "voice_scope_not_authorized", "voice_transmit_muted",
                   "transmission_not_owned", "not_authorized", "voice_grants_empty",
                   "device_not_allowed", "account_disabled"} -> 403
      [] code \in {"transmission_not_found", "route_not_found"} -> 404
      [] code = "rate_limited" -> 429
      [] code = "voice_control_unavailable" -> 502
      [] code = "server_overloaded" -> 503
      [] code = "too_large" -> 413
      [] code \in {"required_header_missing", "body_not_allowed", "invalid_json", "unknown_field",
                   "invalid_body", "invalid_transmission_path", "invalid_membership_path",
                   "invalid_membership", "unreadable", "request_read_failed"} -> 400
      [] OTHER -> 409

-----------------------------------------------------------------------------
(* Requests the HTTP server answers with a protocolError, before any handler. *)

(* readRequest: bytes that do not arrive within the socket's timeout, whoever *)
(* sends them; bytes that are no request or too many, from a caller without   *)
(* the library.  The eleven codes are told apart by their status only.        *)
ReadErrors(call) ==
    IF call.fault = "framing" THEN {"unreadable", "too_large"} ELSE {"request_read_failed"}

ReadRequestFails(n) ==
    /\ calls[n].phase = "sent"
    /\ \E error \in ReadErrors(calls[n]) : ErrorResponse(n, StatusOf(error), error)

(* sendOverloadResponse: the queue of connections was full (HttpServer). *)
SendOverloadResponse(n) ==
    calls[n].phase = "sent" /\ ErrorResponse(n, StatusOf("server_overloaded"), "server_overloaded")

-----------------------------------------------------------------------------
(* Session creation. *)

(* handle, POST /api/v1/sessions: what is wrong with the request, or "none". *)
CredentialError(call) ==
    CASE call.fault = "scheme" -> "credential_required"
      [] call.fault = "headers" -> "required_header_missing"
      [] call.fault = "body" -> "body_not_allowed"
      [] OTHER -> "none"

(* verify: the identity provider's verdict is a choice. *)
AuthenticatorErrors == {"invalid_credentials", "device_not_allowed", "account_disabled", "rate_limited"}

(* IdentitySessionAuthenticator::authenticate: the session is of the command's device. *)
NewSession(call) == [player |-> call.caller, device |-> call.caller]

PostSession(n) ==
    LET call == calls[n]
        session == NewSession(call)
    IN /\ call.phase = "sent" /\ call.op = "login"
       /\ \/ /\ CredentialError(call) # "none"
             /\ ErrorResponse(n, StatusOf(CredentialError(call)), CredentialError(call))
          \/ /\ CredentialError(call) = "none"
             /\ \E error \in AuthenticatorErrors : ErrorResponse(n, StatusOf(error), error)
          \/ /\ CredentialError(call) = "none"
             /\ logins < MaxLogins
             /\ logins' = logins + 1
             /\ apiSessions' = [s \in DOMAIN apiSessions \cup {logins + 1} |->
                                   IF s = logins + 1 THEN session ELSE apiSessions[s]]
             /\ JsonResponse(n, 201, [session |-> logins + 1, device |-> session.device,
                                      player |-> session.player],
                             [what |-> "login", session |-> logins + 1])
             /\ UNCHANGED <<expired, authority, speaking, held>>

-----------------------------------------------------------------------------
(* The session of a request (authenticateRequestSession). *)

SessionError(call) ==
    IF call.fault = "scheme" THEN "session_required"
    ELSE IF call.fault = "headers" THEN "required_header_missing"
    ELSE IF call.session \notin DOMAIN apiSessions \/ call.session \in expired THEN "invalid_session"
    ELSE IF apiSessions[call.session].device # call.caller THEN "session_device_mismatch"
    ELSE "none"

(* The time is read when the worker takes the request and used to the end. *)
AuthenticateRequestSession(n) ==
    LET call == calls[n]
    IN /\ call.phase = "sent" /\ call.op \notin {"login", "health", "metrics"}
       /\ \/ /\ SessionError(call) # "none"
             /\ ErrorResponse(n, StatusOf(SessionError(call)), SessionError(call))
          \/ /\ SessionError(call) = "none"
             /\ calls' = [calls EXCEPT ![n].phase = "authenticated",
                                       ![n].now = expired,
                                       ![n].player = apiSessions[call.session].player]
             /\ UNCHANGED <<apiSessions, expired, logins, authority, speaking, held>>

(* The services look the session up again, by the id and with the same time. *)
ServiceSessionError(call) ==
    IF call.session \notin DOMAIN apiSessions THEN "session_not_found"
    ELSE IF apiSessions[call.session].device # call.caller THEN "session_device_mismatch"
    ELSE IF call.session \in call.now THEN "session_expired"
    ELSE "none"

(* MembershipRoleAuthorizer::hasRole *)
HasRole(p, role) ==
    /\ authority[p] # NoSnapshot
    /\ Finds(authority[p], p)
    /\ role \in authority[p].members[p].roles

-----------------------------------------------------------------------------
(* Handlers. *)

(* parseFlatJsonObject, hasOnlyFields and the required fields: what is wrong with a body. *)
BodyError(call) ==
    CASE call.fault = "json" -> "invalid_json"
      [] call.fault \in {"unknown_field", "invalid_body"} -> call.fault
      [] OTHER -> "none"

Handles(n, op) == calls[n].phase = "authenticated" /\ calls[n].op = op

Health(n) ==
    /\ calls[n].phase = "sent" /\ calls[n].op = "health" /\ calls[n].fault = "none"
    /\ JsonResponse(n, 200, Nothing, Nothing)
    /\ UNCHANGED <<apiSessions, expired, logins, authority, speaking, held>>

(* RuntimeHttpHandler answers this one itself, to anyone. *)
Metrics(n) ==
    /\ calls[n].phase = "sent" /\ calls[n].op = "metrics"
    /\ JsonResponse(n, 200, [active |-> Cardinality(speaking)], Nothing)
    /\ UNCHANGED <<apiSessions, expired, logins, authority, speaking, held>>

UnknownRoute(n) == Handles(n, "unknown") /\ ErrorResponse(n, 404, "route_not_found")

(* membershipResponse *)
MembershipResponse(n, subject) ==
    \/ /\ authority[subject] = NoSnapshot
       /\ ErrorResponse(n, 404, "membership_unavailable")
    \/ /\ authority[subject] # NoSnapshot
       /\ ~Finds(authority[subject], subject)
       /\ ErrorResponse(n, 409, "membership_inconsistent")
    \/ /\ authority[subject] # NoSnapshot
       /\ Finds(authority[subject], subject)
       /\ JsonResponse(n, 200, [player |-> subject, version |-> authority[subject].version], Nothing)
       /\ UNCHANGED <<apiSessions, expired, logins, authority, speaking, held>>

Membership(n) ==
    /\ Handles(n, "membership")
    /\ \/ calls[n].fault = "body" /\ ErrorResponse(n, 400, "body_not_allowed")
       \/ calls[n].fault = "none" /\ MembershipResponse(n, calls[n].player)

SlipVoiceGrantError(call) ==
    LET session == ServiceSessionError(call)
        context == authority[call.player]
    IN IF session # "none"
       THEN IF session = "session_device_mismatch" THEN session ELSE "invalid_session"
       ELSE IF context = NoSnapshot THEN "membership_unavailable"
       ELSE GrantError(context, call.player)

(* VoiceGrantAuthorizationService::derive, as voiceGrantError answers it. *)
VoiceGrantError(call) ==
    LET session == ServiceSessionError(call)
        context == authority[call.player]
    IN IF session # "none"
       THEN IF session = "session_device_mismatch" THEN session ELSE "invalid_session"
       ELSE IF context = NoSnapshot THEN "membership_unavailable"
       ELSE IF GrantError(context, call.player) = "player_not_in_membership" THEN "membership_inconsistent"
       ELSE IF GrantError(context, call.player) # "none" THEN GrantError(context, call.player)
       ELSE IF Issue(context.members[call.player]) = {} THEN "voice_grants_empty"
       ELSE "none"

VoiceGrants(n) ==
    LET call == calls[n] IN
    /\ Handles(n, "grants")
    /\ \/ call.fault = "body" /\ ErrorResponse(n, 400, "body_not_allowed")
       \/ /\ call.fault = "none" /\ VoiceGrantError(call) # "none"
          /\ ErrorResponse(n, IF VoiceGrantError(call) = "membership_unavailable"
                              THEN 404 ELSE StatusOf(VoiceGrantError(call)),
                           VoiceGrantError(call))
       \/ /\ call.fault = "none" /\ VoiceGrantError(call) = "none"
          /\ JsonResponse(n, 201, [version |-> authority[call.player].version,
                                   grants |-> Issue(authority[call.player].members[call.player])],
                          [what |-> "grants"])
          /\ UNCHANGED <<apiSessions, expired, logins, authority, speaking, held>>

(* TransmissionApplicationService::start up to the activation. *)
AuthorizeStart(call) ==
    IF ServiceSessionError(call) # "none" THEN ServiceSessionError(call)
    ELSE IF authority[call.player] = NoSnapshot THEN "membership_unavailable"
    ELSE RoutingError(authority[call.player], call.player, call.arg.scope, call.arg.version)

(* What the activation may find besides; see ControlPlane. *)
StartVerdicts ==
    {"speaker_limit_reached", "voice_control_unavailable", "transmission_id_conflict"}

NextId == Cardinality({n \in 1..Len(calls) : calls[n].done.what = "start"}) + 2

PostTransmission(n) ==
    LET call == calls[n] IN
    /\ Handles(n, "start")
    /\ \/ BodyError(call) # "none" /\ ErrorResponse(n, 400, BodyError(call))
       \/ call.fault = "none" /\ ServiceSessionError(call) = "none" /\ ErrorResponse(n, 429, "rate_limited")
       \/ /\ call.fault = "none" /\ AuthorizeStart(call) # "none"
          /\ ErrorResponse(n, StatusOf(AuthorizeStart(call)), AuthorizeStart(call))
       \/ /\ call.fault = "none" /\ AuthorizeStart(call) = "none"
          /\ \/ \E error \in StartVerdicts : ErrorResponse(n, StatusOf(error), error)
             \/ /\ \E t \in speaking : t.player = call.player
                /\ ErrorResponse(n, 409, "sender_already_transmitting")
             \/ /\ \A t \in speaking : t.player # call.player
                /\ speaking' = speaking \cup {[id |-> NextId, session |-> call.session,
                                               device |-> call.caller, player |-> call.player]}
                /\ JsonResponse(n, 201, [id |-> NextId, scope |-> call.arg.scope,
                                         version |-> authority[call.player].version],
                                [what |-> "start", id |-> NextId])
                /\ UNCHANGED <<apiSessions, expired, logins, authority, held>>

(* TransmissionApplicationService::end *)
EndError(call) ==
    IF ServiceSessionError(call) # "none" THEN ServiceSessionError(call)
    ELSE IF \A t \in speaking : t.id # call.arg.id THEN "transmission_not_found"
    ELSE IF \E t \in speaking : /\ t.id = call.arg.id
                                /\ t.session # call.session \/ t.device # call.caller
         THEN "transmission_not_owned"
    ELSE "none"

DeleteTransmission(n) ==
    LET call == calls[n] IN
    /\ Handles(n, "end")
    /\ \/ EndError(call) # "none" /\ ErrorResponse(n, StatusOf(EndError(call)), EndError(call))
       \/ ServiceSessionError(call) = "none" /\ ErrorResponse(n, 429, "rate_limited")
       \/ /\ EndError(call) = "none"
          /\ speaking' = {t \in speaking : t.id # call.arg.id}
          /\ JsonResponse(n, 200, [id |-> call.arg.id], [what |-> "end", id |-> call.arg.id])
          /\ UNCHANGED <<apiSessions, expired, logins, authority, held>>

(* TransmissionApplicationService::interruptForModeration *)
ModerationError(call) ==
    IF ServiceSessionError(call) # "none" THEN ServiceSessionError(call)
    ELSE IF ~HasRole(call.player, "moderator") /\ ~HasRole(call.player, "administrator")
         THEN "not_authorized"
    ELSE IF \A t \in speaking : t.id # call.arg.id THEN "transmission_not_found"
    ELSE "none"

InterruptTransmission(n) ==
    LET call == calls[n] IN
    /\ Handles(n, "interrupt")
    /\ \/ call.fault = "path" /\ ErrorResponse(n, 400, "invalid_transmission_path")
       \/ /\ call.fault = "none" /\ ModerationError(call) # "none"
          /\ ErrorResponse(n, StatusOf(ModerationError(call)), ModerationError(call))
       \/ /\ call.fault = "none" /\ ModerationError(call) = "none"
          /\ speaking' = {t \in speaking : t.id # call.arg.id}
          /\ JsonResponse(n, 200, [id |-> call.arg.id], [what |-> "interrupt", id |-> call.arg.id])
          /\ UNCHANGED <<apiSessions, expired, logins, authority, held>>

-----------------------------------------------------------------------------
(* Administration of memberships. *)

AdministrationError(call) ==
    CASE call.fault = "path" -> "invalid_membership_path"
      [] ~HasRole(call.player, "administrator") /\ call.fault # "path" -> "not_authorized"
      [] OTHER -> "none"

AdminRefused(n) ==
    /\ calls[n].phase = "authenticated" /\ calls[n].op \in {"read", "remove", "replace"}
    /\ AdministrationError(calls[n]) # "none"
    /\ ErrorResponse(n, StatusOf(AdministrationError(calls[n])), AdministrationError(calls[n]))

ReadMembership(n) ==
    /\ Handles(n, "read")
    /\ AdministrationError(calls[n]) = "none"
    /\ MembershipResponse(n, calls[n].arg.subject)

DeleteMembership(n) ==
    LET call == calls[n] IN
    /\ Handles(n, "remove")
    /\ AdministrationError(call) = "none"
    /\ \/ /\ authority[call.arg.subject] = NoSnapshot
          /\ ErrorResponse(n, 404, "membership_unavailable")
       \/ /\ authority[call.arg.subject] # NoSnapshot
          /\ calls' = [calls EXCEPT ![n].phase = "found"]
          /\ UNCHANGED <<apiSessions, expired, logins, authority, speaking, held>>

(* removeMembership, a call of its own: the context may be gone by then, and what the player *)
(* transmits is interrupted. *)
RemoveMembership(n) ==
    LET subject == calls[n].arg.subject IN
    /\ calls[n].phase = "found"
    /\ authority' = [authority EXCEPT ![subject] = NoSnapshot]
    /\ speaking' = {t \in speaking : t.player # subject}
    /\ JsonResponse(n, 200, Nothing, [what |-> "remove"])
    /\ UNCHANGED <<apiSessions, expired, logins, held>>

(* replaceMembershipResponse reads the context and builds the snapshot that is to replace it: *)
(* the subject's membership is the one asked for, except that a ban stays. *)
Replacement(base, arg) ==
    [version |-> arg.version,
     members |-> [base.members EXCEPT ![arg.subject] = [arg.membership EXCEPT !.banned = base.members[arg.subject].banned]]]

ReplaceReads(n) ==
    LET call == calls[n]
        base == authority[call.arg.subject]
    IN /\ Handles(n, "replace")
       /\ AdministrationError(call) = "none"
       /\ \/ BodyError(call) # "none" /\ ErrorResponse(n, 400, BodyError(call))
          \/ /\ call.fault = "none" /\ base = NoSnapshot
             /\ ErrorResponse(n, 404, "membership_unavailable")
          \/ /\ call.fault = "none" /\ base # NoSnapshot
             /\ ~SnapshotValid(Replacement(base, call.arg))
             /\ ErrorResponse(n, 400, "invalid_membership")
          \/ /\ call.fault = "none" /\ base # NoSnapshot
             /\ SnapshotValid(Replacement(base, call.arg))
             /\ calls' = [calls EXCEPT ![n].phase = "read",
                                       ![n].value = Replacement(base, call.arg)]
             /\ UNCHANGED <<apiSessions, expired, logins, authority, speaking, held>>

(* replaceMembership compares with the context there is by then, if there still is one. *)
ReplaceWrites(n) ==
    LET call == calls[n]
        current == authority[call.arg.subject]
    IN /\ calls[n].phase = "read"
       /\ \/ /\ current # NoSnapshot /\ call.value.version <= current.version
             /\ ErrorResponse(n, 409, "membership_version_not_newer")
          \/ /\ current = NoSnapshot \/ call.value.version > current.version
             /\ authority' = [authority EXCEPT ![call.arg.subject] = call.value]
             /\ speaking' = {t \in speaking : t.player # call.arg.subject}
             /\ JsonResponse(n, 200, Nothing, [what |-> "replace"])
             /\ UNCHANGED <<apiSessions, expired, logins, held>>

-----------------------------------------------------------------------------
(* Time and the maintenance thread. *)

SessionExpires(s) ==
    /\ s \notin expired
    /\ s \in Expiring
    /\ expired' = expired \cup {s}
    /\ UNCHANGED <<apiSessions, logins, authority, speaking, held, calls>>

(* Maintenance ends what an expired session transmits and erases the session. *)
SweepSession(s) ==
    /\ s \in DOMAIN apiSessions \cap expired
    /\ apiSessions' = [t \in DOMAIN apiSessions \ {s} |-> apiSessions[t]]
    /\ speaking' = {t \in speaking : t.session # s}
    /\ UNCHANGED <<expired, logins, authority, held, calls>>

-----------------------------------------------------------------------------
(* Answers reach the caller (responseRoot and the decoding of each call). *)

(* What each call demands of a body beyond being well formed. *)
BodyMatches(call) ==
    LET body == call.answer.body IN
    CASE call.op = "login" -> body.device = call.caller
      [] call.op = "membership" -> body.version # 0 /\ body.player = call.player
      [] call.op = "grants" -> body.version # 0 /\ Cardinality(body.grants) \in 1..3
      [] call.op = "start" -> body.version = call.arg.version /\ body.scope = call.arg.scope
      [] call.op = "end" -> body.id = call.arg.id

(* An error must carry an envelope, which every errorResponse does. *)
Decoded(call) ==
    IF call.answer.status \notin 200..299 THEN "server"
    ELSE IF call.caller \in Library /\ ~BodyMatches(call) THEN "invalid_response"
    ELSE "success"

Decode(n) ==
    LET call == calls[n] IN
    /\ call.phase = "answered" /\ call.outcome = "none"
    /\ calls' = [calls EXCEPT ![n].outcome = Decoded(call),
                              ![n].answer = IF Decoded(call) = "server" THEN NoAnswer ELSE @]
    /\ held' = IF call.op = "login" /\ call.caller \in Library /\ Decoded(call) = "success"
               THEN call.answer.body.session ELSE held
    /\ UNCHANGED <<apiSessions, expired, logins, authority, speaking>>

(* The transport gives up, whether the request never arrived, is still     *)
(* being served or its answer was lost; or something on the way answers in *)
(* place of the server, without x-hvc-api-version or without JSON.  The    *)
(* client reports either as an error that says nothing about the server    *)
(* and may call again.                                                     *)
TransportFails(n) ==
    /\ calls[n].caller \in Library
    /\ calls[n].phase # "unsent" /\ calls[n].outcome = "none"
    /\ calls' = [calls EXCEPT ![n].outcome = "transport", ![n].answer = NoAnswer]
    /\ UNCHANGED <<apiSessions, expired, logins, authority, speaking, held>>

-----------------------------------------------------------------------------
Serve(n) ==
    \/ ReadRequestFails(n) \/ SendOverloadResponse(n)
    \/ PostSession(n) \/ AuthenticateRequestSession(n)
    \/ Health(n) \/ Metrics(n) \/ UnknownRoute(n)
    \/ Membership(n) \/ VoiceGrants(n)
    \/ PostTransmission(n) \/ DeleteTransmission(n) \/ InterruptTransmission(n)
    \/ AdminRefused(n) \/ ReadMembership(n) \/ DeleteMembership(n)
    \/ RemoveMembership(n) \/ ReplaceReads(n) \/ ReplaceWrites(n)

UserCalls ==
    \/ CallLogin \/ CallMembership \/ CallGrants \/ ClearSession
    \/ \E id \in 1..2 : CallEnd(id)
    \/ \E scope \in AskedScopes, version \in 0..MaxApiVersion : CallStart(scope, version)

ApiNext ==
    \/ UserCalls
    \/ \E op \in {"health", "metrics", "login", "membership", "interrupt", "read", "remove", "replace", "unknown",
                  "grants", "start"} : RawCall(op)
    \/ \E n \in 1..Len(calls) : Serve(n) \/ Decode(n) \/ TransportFails(n)
    \/ \E s \in 1..logins : SessionExpires(s) \/ SweepSession(s)

ApiSpec == ApiInit /\ [][ApiNext]_apiVars

-----------------------------------------------------------------------------
(* The caller is told what happened: a success is reported only for what   *)
(* the server did, an error the server gave only when it did nothing, and  *)
(* the client never rejects as invalid an answer the server really gave.   *)
AnswersAreTrue ==
    \A n \in 1..Len(calls) :
        LET call == calls[n] IN
        /\ call.outcome = "success" /\ call.op \in {"login", "grants", "start", "end", "interrupt", "remove", "replace"}
              => call.done.what = call.op
        /\ call.outcome = "success" /\ call.op \in {"start", "end"}
              => call.answer.body.id = call.done.id
        /\ call.outcome = "server" => call.done = Nothing
        /\ call.outcome # "invalid_response"

(* In every snapshot a PUT is about to put in force, the media rooms reach *)
(* exactly the recipients the router lists, although one is computed from  *)
(* ids of nodes and the other from whole paths (MembershipSnapshot's check *)
(* of the paths is what makes them agree).                                 *)
RoomsReachRecipients ==
    \A n \in 1..Len(calls) : calls[n].phase = "read" => RoomsReach(calls[n].value)
=============================================================================
