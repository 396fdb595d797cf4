----------------------------- MODULE ClientCall -----------------------------
(***************************************************************************)
(* One call of the client library (client.py, async_client.py, _base.py):  *)
(* what the client knows of it, and what became of the request elsewhere.  *)
(* The client may give up while the server has the request, and the server *)
(* goes on with it; a proxy before the server may answer in its place.     *)
(*                                                                         *)
(* Statuses are told apart as raise_for_response does: below 400, and what *)
(* it raises a MimicAPIError for.                                          *)
(***************************************************************************)

VARIABLES
  call,      \* the client: idle, connecting, sending, waiting, ended
  request,   \* none, at the server, done, refused, or moved: redirected by a proxy
  outcome    \* what the method returned or raised

exchange == <<call, request, outcome>>

NoCall == call = "idle" /\ request = "none" /\ outcome = "none"

\* Nobody waits for an answer any longer.
Ends(result) == call' = "ended" /\ outcome' = result

\* map_transport_errors: a TimeoutException, or any other TransportError.
Broken == Ends("timeout") \/ Ends("unreachable")

Ask == call = "idle" /\ call' = "connecting" /\ UNCHANGED <<request, outcome>>

Connect == call = "connecting" /\ call' = "sending" /\ UNCHANGED <<request, outcome>>

\* The request has arrived as a whole.  A handler never runs without its form.
Send == call = "sending" /\ call' = "waiting" /\ request' = "there" /\ UNCHANGED outcome

\* The proxy sends the client to another address, which httpx does not follow.
Redirect == call = "sending" /\ call' = "waiting" /\ request' = "moved" /\ UNCHANGED outcome

\* A handler's answer; also a 5xx by the proxy, when the server is not there.
Serve(answer) == request = "there" /\ request' = answer /\ UNCHANGED <<call, outcome>>

\* Mutant: the status is not looked at.
RaisesNothing(answer) == FALSE

\* raise_for_response
Raises(answer) == answer = "refused"

\* A response whose body is wanted as JSON, or as it is.  That of a redirection
\* is no JSON.
Receive(asJson) ==
  /\ call = "waiting" /\ request \notin {"none", "there"}
  /\ Ends(IF Raises(request) THEN "refused"
          ELSE IF request = "moved" /\ asJson THEN "undecodable" ELSE "returned")
  /\ UNCHANGED request

\* The connection is not made, or breaks; or a timeout passes.
Break == call \in {"connecting", "sending", "waiting"} /\ Broken /\ UNCHANGED request

CallTypeOK ==
  /\ call \in {"idle", "connecting", "sending", "waiting", "ended"}
  /\ request \in {"none", "there", "done", "refused", "moved"}
  /\ outcome \in {"none", "returned", "refused", "undecodable", "timeout", "unreachable"}
=============================================================================
