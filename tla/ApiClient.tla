----------------------------- MODULE ApiClient -----------------------------
(***************************************************************************)
(* The client the gateway uses: packages/api-matchmaking/                  *)
(* apimatchmakingclient over the generated client of openapi_gen.go.  It   *)
(* keeps no state between calls; what matters is the URL a call reaches    *)
(* and the error value a status becomes.                                   *)
(*                                                                         *)
(* The path of a URL is the sequence of its segments; a URL that ends in a *)
(* slash has an empty last segment.  http://host has the path <<>>.        *)
(***************************************************************************)
EXTENDS Naturals, SequencesExt

\* The first three have a method in apimatchmakingclient; the other two are
\* methods of the generated client only.
Operations == {"EnqueuePlayer", "CancelPlayer", "ReportMatchAbandoned",
               "GetQueueSize", "GetHealth"}

\* Mutant of NewClient: the server URL is used as it is given.
NewClientVerbatim(path) == path

\* NewClient: the server URL always has a trailing slash.
NewClient(path) == IF path # <<>> /\ Last(path) = "" THEN path ELSE Append(path, "")

operationPath(op) ==
    <<"internal", "v1",
      CASE op = "EnqueuePlayer"        -> "enqueue"
        [] op = "CancelPlayer"         -> "cancel"
        [] op = "ReportMatchAbandoned" -> "match-abandoned"
        [] op = "GetQueueSize"         -> "queue-size"
        [] op = "GetHealth"            -> "health">>

\* New...Request: "./internal/v1/..." resolved against the server URL, which
\* replaces what follows its last slash.
NewRequest(server, op) == (IF server = <<>> THEN <<>> ELSE Front(server)) \o operationPath(op)

newStatusError(code) ==
    CASE code = 401  -> "ErrUnauthorized"
      [] code = 403  -> "ErrForbidden"
      [] code = 404  -> "ErrNotFound"
      [] code = 400  -> "ErrBadRequest"
      [] code = 503  -> "ErrServiceUnavailable"
      [] code >= 500 /\ code # 503 -> "ErrInternalServer"
      [] OTHER       -> "unexpected"

\* The status each wrapped operation takes for success.
successStatus(op) ==
    CASE op = "EnqueuePlayer" -> 202
      [] op = "CancelPlayer" -> 200
      [] op = "ReportMatchAbandoned" -> 204

\* A response as the ...Response types of openapi_gen.go carry it: its status
\* and the payload field that is set.
Response(code, payload) == [StatusCode |-> code, payload |-> payload]

\* Parse...Response of a response whose body was read to its end.  Only two
\* operations decode a body, and only for the statuses the contract names.
ParseResponse(op, code) ==
    Response(code, IF op \in {"GetHealth", "GetQueueSize"} /\ code = 200 THEN "JSON200"
                   ELSE IF op = "GetHealth" /\ code = 503 THEN "JSON503" ELSE "none")

\* What the caller gets: nil or an error value; the generated methods return
\* the response itself, and the caller looks for a payload.
ResultOf(op, response) ==
    IF op \in {"GetQueueSize", "GetHealth"} THEN response.payload
    ELSE IF response.StatusCode = successStatus(op) THEN "nil"
    ELSE newStatusError(response.StatusCode)
=============================================================================
