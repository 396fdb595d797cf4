-------------------------------- MODULE Stt ---------------------------------
(***************************************************************************)
(* The speech-to-text proxy (stt.py, POST /stt): an upload is converted,   *)
(* sent to an external Wyoming ASR server, and its events are read until   *)
(* one is a Transcript.  Only the ends of the exchange are told apart: a   *)
(* text, an empty one, or an error status of any kind.                     *)
(***************************************************************************)

VARIABLE exchange  \* idle, converting, sending, listening, or how it ended

Ends == {"text", "empty", "error"}

NoExchange == exchange = "idle"

\* The request arrives.
Receive == exchange = "idle" /\ exchange' = "converting"

\* ffmpeg may be missing or refuse the upload, and sf.read may raise.
Convert == exchange = "converting" /\ exchange' \in {"sending", "error"}

\* The peer may refuse the connection or drop it: OSError becomes a 502.
SendAudio == exchange = "sending" /\ exchange' \in {"listening", "error"}

\* A Transcript, or the end of the connection; other events are skipped.
Listen == exchange = "listening" /\ exchange' \in Ends

Serve == Convert \/ SendAudio \/ Listen

\* The answer has reached the page.
Deliver == exchange \in Ends /\ exchange' = "idle"
=============================================================================
