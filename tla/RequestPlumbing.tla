-------------------------- MODULE RequestPlumbing --------------------------
(***************************************************************************)
(* What happens to an HTTP request around its handler: the origin check,   *)
(* the request id, the JWT guard, the messages of the validation pipe, and *)
(* the one shape of body that the interceptor and the exception filter     *)
(* produce.  None of it keeps state: these are operators, with facts about *)
(* how they fit together.                                                  *)
(*                                                                         *)
(* A text is seen by what the code asks of it: its first word and whether  *)
(* a name is a prefix of it.  The tree of validation errors is seen as the *)
(* set of its nodes, each with the path that leads to it.                  *)
(***************************************************************************)
EXTENDS Naturals, Sequences, TLC, TLAPS

CONSTANTS
  Null,         \* null or undefined
  Hosts,        \* origin -> its host name, Null when it is not a URL
  Tunnels,      \* the host names that end as those of ngrok do
  Trimmed,      \* text -> the text without outer blanks, Null when nothing is left
  Identifiers,  \* the words that look like an identifier
  Dotted,       \* path -> its names joined by dots
  StartsWith    \* word -> the words it starts with

-----------------------------------------------------------------------------
(* Origins: cors.util.ts, used by HTTP and by the Socket.IO adapter. *)

\* Blank entries count for nothing.
GetCorsAllowedOrigins(config) ==
  {Trimmed[t] : t \in {config.frontendUrl} \cup config.corsOrigins} \ {Null}

IsLocalhostOrigin(o) == Hosts[o] \in {"localhost", "127.0.0.1"}
IsNgrokOrigin(o) == Hosts[o] \in Tunnels

IsOriginAllowed(config, o) ==
  \/ o = Null
  \/ o \in GetCorsAllowedOrigins(config)
  \/ config.nodeEnv # "production" /\ (IsLocalhostOrigin(o) \/ IsNgrokOrigin(o))

-----------------------------------------------------------------------------
(* The way in. *)

\* The client's X-Request-Id, or a fresh one when there is none.
RequestId(header, fresh) ==
  IF header # Null /\ Trimmed[header] # Null THEN Trimmed[header] ELSE fresh

\* "app" is an AppException, "list" an HttpException with a list of messages, "http"
\* any other HttpException, and "other" whatever else is thrown.
Kinds == {"app", "list", "http", "other"}
Exception(kind, status, code, messages, errors) ==
  [kind |-> kind, status |-> status, code |-> code, messages |-> messages, errors |-> errors]

\* A public route passes unread; elsewhere the strategy's error, or 401 without a user.
Guard(public, error, user) ==
  IF public \/ (error = Null /\ user # Null) THEN Null
  ELSE IF error # Null THEN error
  ELSE Exception("http", 401, Null, Null, Null)

\* The messages of one node: each is made to start with the path of its property.
Messages(node) ==
  {IF Dotted[node.path] \in StartsWith[m.first] THEN m ELSE [first |-> Dotted[node.path]] :
     m \in node.constraints}

FlattenValidationErrors(nodes) == UNION {Messages(n) : n \in nodes}

\* exceptionFactory of the validation pipe
ValidationFailure(nodes) ==
  Exception("list", 400, "VALIDATION_ERROR", FlattenValidationErrors(nodes), Null)

-----------------------------------------------------------------------------
(* The way out. *)

ApiCodes ==
  {"OK", "CREATED", "VALIDATION_ERROR", "INTERNAL_ERROR", "RATE_LIMITED", "NOT_FOUND",
   "FORBIDDEN", "AUTH_UNAUTHORIZED", "AUTH_INVALID_CREDENTIALS", "AUTH_EMAIL_EXISTS",
   "AUTH_INVALID_OTP", "AUTH_OTP_EXPIRED", "AUTH_EMAIL_NOT_VERIFIED",
   "AUTH_REFRESH_FAILED", "AUTH_USER_BANNED", "USER_NOT_FOUND", "PROFILE_NOT_FOUND",
   "PROFILE_ALREADY_EXISTS", "PROFILE_INCOMPLETE", "MATCHMAKING_ALREADY_IN_QUEUE",
   "MATCHMAKING_TIMEOUT", "ROOM_NOT_FOUND", "ROOM_FORBIDDEN",
   "CHAT_MODERATION_BLOCKED", "CHAT_SPAM_DETECTED", "CHAT_BLOCKED_BY_USER",
   "UPLOAD_INVALID_FILE", "UPLOAD_TOO_LARGE"}

MapHttpStatusToCode(status) ==
  CASE status = 401 -> "AUTH_UNAUTHORIZED"
    [] status = 403 -> "FORBIDDEN"
    [] status = 404 -> "NOT_FOUND"
    [] status = 429 -> "RATE_LIMITED"
    [] status = 400 -> "VALIDATION_ERROR"
    [] status = 500 -> "INTERNAL_ERROR"
    [] OTHER        -> "HTTP_" \o ToString(status)

ParseValidationMessage(m) == IF m.first \in Identifiers THEN m.first ELSE "_"

\* An AppException keeps its code and field errors; another HttpException gets the
\* code of its status, or VALIDATION_ERROR with a list of messages; the rest is a 500.
Normalize(e) ==
  CASE e.kind = "app" ->
         [statusCode |-> e.status, code |-> e.code, errors |-> e.errors]
    [] e.kind = "list" ->
         [statusCode |-> e.status,
          code |-> IF e.code # Null THEN e.code ELSE "VALIDATION_ERROR",
          errors |-> {ParseValidationMessage(m) : m \in e.messages}]
    [] e.kind = "http" ->
         [statusCode |-> e.status,
          code |-> IF e.code # Null THEN e.code ELSE MapHttpStatusToCode(e.status),
          errors |-> Null]
    [] OTHER -> [statusCode |-> 500, code |-> "INTERNAL_ERROR", errors |-> Null]

\* HttpExceptionFilter.catch
FailureBody(e, id) ==
  [success |-> FALSE, statusCode |-> Normalize(e).statusCode, code |-> Normalize(e).code,
   data |-> Null, errors |-> Normalize(e).errors, meta |-> Null, requestId |-> id]

\* A controller may wrap its payload and set the code and the meta of the body.
ExtractEnvelope(raw) ==
  IF raw.api # Null THEN [code |-> raw.api.code, meta |-> raw.api.meta, data |-> raw.payload]
  ELSE [code |-> Null, meta |-> Null, data |-> raw.payload]

\* TransformInterceptor.intercept
SuccessBody(raw, status, id) ==
  LET envelope == ExtractEnvelope(raw) IN
  [success |-> TRUE, statusCode |-> status,
   code |-> IF envelope.code # Null THEN envelope.code
            ELSE IF status = 201 THEN "CREATED" ELSE "OK",
   data |-> envelope.data, errors |-> Null, meta |-> envelope.meta, requestId |-> id]

-----------------------------------------------------------------------------
(* Facts. *)

\* Production admits the listed origins and no others; elsewhere localhost and ngrok
\* tunnels are added to them (the table of docs/DEPLOY-RAILWAY.md 7.4).
THEOREM OriginsOfEachEnvironment ==
  ASSUME NEW config, NEW o, o # Null
  PROVE  /\ config.nodeEnv = "production"
              => (IsOriginAllowed(config, o) <=> o \in GetCorsAllowedOrigins(config))
         /\ config.nodeEnv # "production"
              => (IsOriginAllowed(config, o) <=>
                    \/ o \in GetCorsAllowedOrigins(config)
                    \/ IsLocalhostOrigin(o) \/ IsNgrokOrigin(o))
BY DEF IsOriginAllowed

\* The pipe and the filter fit together: a refused property of a DTO shows up in the
\* body as a field error under its own name, unless a message of its starts with the
\* name as part of a longer word; a property of a nested object, whose path has a
\* dot, shows up under "_".
THEOREM FieldErrorsNameTheirProperty ==
  ASSUME NEW nodes, NEW node \in nodes, NEW m \in node.constraints, NEW id
  PROVE  LET path == Dotted[node.path]
             fields == FailureBody(ValidationFailure(nodes), id).errors
         IN  /\ path \in Identifiers /\ (path \in StartsWith[m.first] => m.first = path)
                  => path \in fields
             /\ path \notin Identifiers /\ path \notin StartsWith[m.first]
                  => "_" \in fields
<1> DEFINE path == Dotted[node.path]
           reported == IF path \in StartsWith[m.first] THEN m ELSE [first |-> path]
<1>1. reported \in FlattenValidationErrors(nodes)
  BY DEF FlattenValidationErrors, Messages
<1>2. FailureBody(ValidationFailure(nodes), id).errors
        = {ParseValidationMessage(r) : r \in FlattenValidationErrors(nodes)}
  BY DEF FailureBody, ValidationFailure, Normalize, Exception
<1>3. ParseValidationMessage(reported) \in FailureBody(ValidationFailure(nodes), id).errors
  BY <1>1, <1>2
<1>4. ParseValidationMessage(reported)
        = IF reported.first \in Identifiers THEN reported.first ELSE "_"
  BY DEF ParseValidationMessage
<1> QED
  BY <1>3, <1>4

\* The code of every failure is one of those ApiCode lists for the clients, as long as
\* an exception without a code of its own has a status that the filter knows: those
\* are the ones thrown by the controllers, the services, the guards and the router.
\* (An upload beyond its limit is a 413 and gets HTTP_413.)
THEOREM FailureCodeIsListed ==
  ASSUME NEW e, NEW id,
         e.kind \in Kinds,
         e.code \in ApiCodes \cup {Null},
         e.kind = "app" => e.code # Null,
         e.kind = "http" /\ e.code = Null => e.status \in {400, 401, 403, 404, 429, 500}
  PROVE  FailureBody(e, id).code \in ApiCodes
<1>1. FailureBody(e, id).code = Normalize(e).code
  BY DEF FailureBody
<1>2. CASE e.kind = "app"
  <2>1. Normalize(e).code = e.code
    BY <1>2 DEF Normalize
  <2> QED
    BY <1>1, <1>2, <2>1
<1>3. CASE e.kind = "list"
  <2>1. Normalize(e).code = IF e.code # Null THEN e.code ELSE "VALIDATION_ERROR"
    BY <1>3 DEF Normalize
  <2> QED
    BY <1>1, <2>1 DEF ApiCodes
<1>4. CASE e.kind = "http"
  <2>1. Normalize(e).code = IF e.code # Null THEN e.code ELSE MapHttpStatusToCode(e.status)
    BY <1>4 DEF Normalize
  <2>2. e.status \in {400, 401, 403, 404, 429, 500}
          => MapHttpStatusToCode(e.status) \in ApiCodes
    BY DEF MapHttpStatusToCode, ApiCodes
  <2> QED
    BY <1>1, <1>4, <2>1, <2>2
<1>5. CASE e.kind = "other"
  <2>1. Normalize(e).code = "INTERNAL_ERROR"
    BY <1>5 DEF Normalize
  <2> QED
    BY <1>1, <2>1 DEF ApiCodes
<1> QED
  BY <1>2, <1>3, <1>4, <1>5 DEF Kinds
=============================================================================
