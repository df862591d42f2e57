----------------------------- MODULE KickClient ------------------------------
(***************************************************************************)
(* sites/kick/api_client.py: what becomes of an answer of one of Kick's    *)
(* endpoints.  "retry" stands for KickServerError and for what the session *)
(* raises, which fetch_with_retry() tries again; "refused" for KickError   *)
(* and those of its subclasses that nobody tells apart.                    *)
(***************************************************************************)
EXTENDS Integers

\* A status 0 is a request that raised.  "page": an HTML challenge;
\* "private": a subscriber-only video that names itself; "json": an object.
Response(status, body) == [status |-> status, body |-> body]

Responses ==
    {Response(200, "json"), Response(200, "text"), Response(200, "page"),
     Response(400, "json"), Response(403, "json"), Response(403, "private"),
     Response(404, "json"), Response(423, "page"), Response(429, "json"),
     Response(503, "text"), Response(0, "text")}

\* _check_status()
StatusOutcome(status, body, resource) ==
    CASE status = 423 -> "country"
      [] status = 404 -> IF resource = "channel" THEN "noUser"
                         ELSE IF resource = "video" THEN "notFound" ELSE "refused"
      [] status = 403 -> IF resource = "video" /\ body = "private" THEN "refused" ELSE "challenge"
      [] status = 429 \/ status >= 500 -> "retry"
      [] status \notin {200, 403, 404, 423, 429} /\ status < 500 -> "refused"
      [] OTHER -> "ok"

\* _request_object(): the country block outranks the challenge, which outranks
\* the status; only then is the body decoded.
Outcome(response, resource) ==
    CASE response.status = 0 -> "retry"
      [] response.status \notin {0, 423} /\ response.body = "page" -> "challenge"
      [] OTHER ->
           LET outcome == StatusOutcome(response.status, response.body, resource)
           IN  IF outcome = "ok" /\ response.body # "json" THEN "retry" ELSE outcome

Outcomes(resource) == {Outcome(response, resource) : response \in Responses}

\* What `except KickError' catches of them.
KickErrors == {"country", "notFound", "refused"}
=============================================================================
