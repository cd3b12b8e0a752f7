---------------------------- MODULE HasuraClient ----------------------------
(***************************************************************************)
(* What src/hasura/client.ts makes of the end of an HTTP request, and what *)
(* src/probes/types.ts makes of that.                                      *)
(*                                                                         *)
(* A request ends with a response or with an exception of the transport.   *)
(* A body that parses either has a member `errors` or has not.             *)
(***************************************************************************)
EXTENDS Naturals

Body == {"data", "errors", "unparseable"}

Response(status, body) == [status |-> status, body |-> body]

(* An exception is known by its name, or by its code.                      *)
Thrown(err) == [thrown |-> err]

ResultKind == {"ok", "unavailable", "timeout", "graphql-error"}

ClassifyThrown_RawNameBug(err) == err

(* "Anything we cannot positively identify is treated as unavailable."     *)
ClassifyThrown(err) ==
  IF err \in {"TimeoutError", "AbortError",
              "UND_ERR_HEADERS_TIMEOUT", "UND_ERR_BODY_TIMEOUT"}
  THEN "timeout" ELSE "unavailable"

Interpret(r) ==
  IF r.status >= 500 \/ r.body = "unparseable" THEN "unavailable"
  ELSE IF r.body = "errors" \/ r.status >= 400 THEN "graphql-error"
  ELSE "ok"

(* graphql() and restGet(): the kind of GqlResult they return.             *)
Result(end) ==
  IF "thrown" \in DOMAIN end THEN ClassifyThrown(end.thrown) ELSE Interpret(end)

(* The ends of a request that got no usable answer: nothing to connect to, *)
(* no server in the proxy, an engine or a connection that dies with the    *)
(* request, an engine that has lost its database, no answer in time.       *)
(* Whether the request was carried out is another matter.                  *)
NoAnswer ==
  {Thrown("ECONNREFUSED"), Thrown("UND_ERR_SOCKET"),
   Thrown("UND_ERR_HEADERS_TIMEOUT"), Thrown("UND_ERR_BODY_TIMEOUT"),
   Response(503, "unparseable"), Response(502, "unparseable"),
   Response(504, "unparseable"), Response(500, "errors"), Response(200, "unparseable")}

=============================================================================
