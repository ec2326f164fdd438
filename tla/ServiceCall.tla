---------------------------- MODULE ServiceCall ----------------------------
(***************************************************************************)
(* One call of a service API of the app, retried under its operation until *)
(* its fate is known: the session it is made in, what the server does, what *)
(* comes back (nothing, a page of some proxy, a refusal, the answer), and   *)
(* the code the caller sees.  The server answers a repeated operation as it *)
(* answered the first; Circles and OperationFence show that.                *)
(***************************************************************************)
EXTENDS Naturals, FiniteSets

CONSTANTS Sessions,      \* sessions the app goes through
          Gone,          \* there is no usable session
          MaxCalls       \* times the operation is tried

VARIABLES session,   \* what requireSession would return
          api,       \* the API called, for the whole behaviour
          asked,     \* the session of the running call, or Gone
          answer,    \* what came back
          acted,     \* the server carried the operation out
          refused,   \* the server refused it, for good
          told,      \* what the caller last saw
          calls

callVars == <<session, api, asked, answer, acted, refused, told, calls>>

-----------------------------------------------------------------------------
(* How each API's request reads an answer: the refusals it knows, what it   *)
(* says when the session is gone or has changed by the time of the answer,  *)
(* and what it makes of a refusal that it cannot read.                      *)

API(known, gone, changed, unread) ==
    [known |-> known, gone |-> gone, changed |-> changed, unread |-> unread]

Common == {"INVALID_INPUT", "SESSION_REVOKED", "UNAVAILABLE"}

AuthRequest == API(Common \cup {"RATE_LIMITED", "INVALID_CODE", "EXPIRED", "CONSUMED"}, "", "", "UNAVAILABLE")
MessageRequest == API(Common \cup {"DENIED", "OPERATION_CONFLICT", "OPERATION_CANCELLED", "KEYS_UNAVAILABLE", "REDACTION_CONFLICT",
                                "MESSAGE_REDACTED"},
                      "SESSION_REVOKED", "SESSION_CHANGED", "UNAVAILABLE")
CircleMediaRequest == API(Common \cup {"DENIED", "OBJECT_CONFLICT", "OPERATION_CANCELLED", "MEDIA_TOO_LARGE"},
                      "SESSION_CHANGED", "SESSION_CHANGED", "UNAVAILABLE")
\* The cancellation of an upload, and the media of a pair, read alike.
MediaCancelRequest == CircleMediaRequest
PrivateMediaRequest == CircleMediaRequest
SocialRequest == API(Common \cup {"DENIED", "CIRCLE_FULL", "ADMIN_HANDOFF_REQUIRED", "OPERATION_CONFLICT", "MEMBERSHIP_CHANGED",
                                "RATE_LIMITED"},
                      "SESSION_REVOKED", "SESSION_CHANGED", "UNAVAILABLE")
NotificationRequest == API({"INVALID_INPUT", "SESSION_REVOKED"}, "NETWORK", "SESSION_CHANGED", "UNAVAILABLE")
ReportRequest == API({"INVALID_INPUT", "DENIED", "OPERATION_CONFLICT", "SESSION_REVOKED"}, "NETWORK", "SESSION_CHANGED", "UNAVAILABLE")
KeyRequest == API(Common \cup {"BUNDLE_EXPIRED", "PUBLICATION_CONFLICT", "DENIED", "KEYS_EXHAUSTED"},
                      "SESSION_REVOKED", "SESSION_CHANGED", "UNAVAILABLE")
DriveRequest == API({"DRIVE_AUTH_REQUIRED", "DRIVE_CONFLICT", "RATE_LIMITED"}, "DRIVE_AUTH_REQUIRED", "SESSION_REVOKED", "UNAVAILABLE")

APIs == {AuthRequest, MessageRequest, CircleMediaRequest, PrivateMediaRequest, SocialRequest,
         NotificationRequest, ReportRequest, KeyRequest, DriveRequest}

\* The codes that leave the fate of the operation open.
Unsure == {"NETWORK", "UNAVAILABLE", "INVALID_RESPONSE", "SESSION_CHANGED", "SESSION_REVOKED",
           "DRIVE_AUTH_REQUIRED", "RATE_LIMITED"}
Refusals(of) == of.known \ Unsure

Waiting == "waiting"
Nothing == [code |-> "none", own |-> TRUE]

\* Mutant: the answer is read without asking whose session it is now.
ReadAnyway(of) ==
    CASE answer = "nothing" -> "NETWORK"
      [] answer = "page" -> "INVALID_RESPONSE"
      [] answer = "error page" -> of.unread
      [] OTHER -> answer

Read(of) ==
    CASE answer = "nothing" -> IF session = asked \/ of.changed = "" THEN "NETWORK" ELSE of.changed
      [] of.changed # "" /\ session = Gone -> of.gone
      [] of.changed # "" /\ session # asked -> of.changed
      [] answer = "page" -> "INVALID_RESPONSE"
      [] answer = "error page" -> of.unread
      [] OTHER -> answer

-----------------------------------------------------------------------------

Settled == told.code = "ok" \/ told.code \in Refusals(api)

Call ==
    /\ asked = Gone /\ session # Gone /\ ~Settled /\ calls < MaxCalls
    /\ asked' = session /\ answer' = Waiting /\ calls' = calls + 1
    /\ UNCHANGED <<session, api, acted, refused, told>>

\* The server carries the operation out once, and says so each time.
Act ==
    /\ answer = Waiting /\ ~refused
    /\ acted' = TRUE /\ answer' = "ok"
    /\ UNCHANGED <<session, api, asked, refused, told, calls>>

Refuse ==
    /\ answer = Waiting /\ ~acted
    /\ \E code \in api.known :
          answer' = code /\ refused' = (refused \/ code \in Refusals(api))
    /\ UNCHANGED <<session, api, asked, acted, told, calls>>

\* On its way an answer is lost, or replaced by a page of something in between.
Distort ==
    /\ answer \notin {"nothing", "page", "error page"} /\ asked # Gone
    /\ answer' \in {"nothing", "page", "error page"}
    /\ UNCHANGED <<session, api, asked, acted, refused, told, calls>>

Take ==
    /\ asked # Gone /\ answer # Waiting
    /\ told' = [code |-> Read(api), own |-> api.changed = "" \/ session = asked]
    /\ asked' = Gone /\ answer' = "nothing"
    /\ UNCHANGED <<session, api, acted, refused, calls>>

\* A request that its caller gave up on reaches the server after all.
ActLate ==
    /\ calls > 0 /\ ~refused
    /\ acted' = TRUE
    /\ UNCHANGED <<session, api, asked, answer, refused, told, calls>>

ChangeSession ==
    /\ session' \in Sessions \cup {Gone}
    /\ UNCHANGED <<api, asked, answer, acted, refused, told, calls>>

CallInit(apis, signedIn) ==
    /\ session \in signedIn /\ api \in apis
    /\ asked = Gone /\ answer = "nothing" /\ acted = FALSE /\ refused = FALSE
    /\ told = Nothing /\ calls = 0

CallNext == Call \/ Act \/ Refuse \/ Distort \/ Take \/ ActLate \/ ChangeSession
CallSpec == CallInit(APIs, Sessions) /\ [][CallNext]_callVars

-----------------------------------------------------------------------------
CallTypeOK ==
    /\ session \in Sessions \cup {Gone} /\ asked \in Sessions \cup {Gone}
    /\ api \in APIs /\ calls \in 0..MaxCalls /\ ~(acted /\ refused)

(* A caller that is told an operation failed for good, and so forgets it,   *)
(* or that it succeeded, is told the truth; and what it is told was meant   *)
(* for the session it is in.                                                *)
AnswersBelong ==
    /\ told.code \in Refusals(api) => refused /\ told.own
    /\ told.code = "ok" => acted /\ told.own
=============================================================================
