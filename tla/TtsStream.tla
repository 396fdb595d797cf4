----------------------------- MODULE TtsStream ------------------------------
(***************************************************************************)
(* What a Wyoming client may rely on, whatever the server does inside:     *)
(* audio comes in one bracket, a failure is told instead of the audio, and *)
(* every request is ended once, after its audio.  A client that begins a   *)
(* request in the middle of another may hear the two run into each other;  *)
(* the end of the later one ends the confusion.                            *)
(***************************************************************************)
EXTENDS Naturals

VARIABLES
  stream,   \* what the client has been told since the last SynthesizeStopped
  asked,    \* requests made on this connection
  ended,    \* how many of them a SynthesizeStopped has answered
  orderly,  \* the client never sent an event out of order
  spoiled   \* a request was begun in the middle of another

vars == <<stream, asked, ended, orderly, spoiled>>

Init == stream = "silent" /\ asked = 0 /\ ended = 0 /\ orderly = TRUE /\ spoiled = FALSE

\* The client sends an event, in order or not, that asks for something or not.
Send ==
  /\ asked' \in {asked, asked + 1} /\ orderly' \in {orderly, FALSE}
  /\ UNCHANGED <<stream, ended, spoiled>>

Tell(before, after) ==
  /\ stream = before /\ ~spoiled /\ stream' = after
  /\ UNCHANGED <<asked, ended, orderly, spoiled>>

Play == Tell("silent", "playing")
Refuse == Tell("silent", "refused")
Close == Tell("playing", "closed")

\* The server turns to another request before it has ended the one it told of.
Overtake ==
  /\ ~orderly /\ stream # "silent" /\ spoiled' = TRUE
  /\ UNCHANGED <<stream, asked, ended, orderly>>

Garble == spoiled /\ stream' = "garbled" /\ UNCHANGED <<asked, ended, orderly, spoiled>>

End ==
  /\ stream # "playing" \/ spoiled
  /\ ended < asked /\ ended' = ended + 1
  /\ stream' = "silent" /\ spoiled' = FALSE
  /\ UNCHANGED <<asked, orderly>>

Hangup == stream' = "silent" /\ asked' = 0 /\ ended' = 0 /\ orderly' = TRUE /\ spoiled' = FALSE

Next == Send \/ Play \/ Refuse \/ Close \/ Overtake \/ Garble \/ End \/ Hangup

Spec == Init /\ [][Next]_vars
=============================================================================
