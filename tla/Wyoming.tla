------------------------------ MODULE Wyoming -------------------------------
(***************************************************************************)
(* One connection of the Wyoming server (wyoming_server.py): the client's  *)
(* events in the order it sent them, the handler that reads one at a time, *)
(* and what the client hears.  A request is a SynthesizeStart, any number  *)
(* of SynthesizeChunks and a SynthesizeStop, or one Synthesize with the    *)
(* whole text.  The handler takes every event at any time, so a client may *)
(* send any: one that keeps to the order above is orderly.                 *)
(*                                                                         *)
(* Text is a sequence of sentences, a sentence is its length, and spaces   *)
(* between sentences are not counted.  The last sentence received is open  *)
(* until the first words of the next one make _SENTENCE_BOUNDARY match.    *)
(* Synthesis succeeds or fails (quota, voice, backend) as it likes; the    *)
(* events of one sentence's audio are one step.                            *)
(***************************************************************************)
EXTENDS Naturals, Sequences, SequencesExt

CONSTANTS
  Texts,        \* what a SynthesizeChunk or a Synthesize may carry
  MinSentence,  \* _MIN_SENTENCE_CHARS
  MaxInbox,     \* bound: events sent and not read
  MaxSent       \* bound: events sent on one connection

ASSUME TextsAssumption == Texts \subseteq Seq(Nat \ {0})
ASSUME BoundsAssumption == MinSentence \in Nat /\ MaxInbox \in Nat /\ MaxSent \in Nat

VARIABLES
  inbox, sent, bracket,             \* the client: what it sent, how much, whether a Start is open
  slips,                            \* history: kinds of events it sent out of order
  at,                               \* what the handler is doing
  buffer, audioStarted, aborted,    \* _stream_buffer, _stream_audio_started, _stream_aborted
  batch,                            \* sentences of a Synthesize still to be spoken
  stream, asked, ended,             \* what the client heard and is owed
  got, said,                        \* history: letters of this request received, and spoken
  spoiled                           \* history: this request was begun in the middle of another

client == <<inbox, sent, bracket, slips>>
state == <<buffer, audioStarted, aborted>>
heard == <<stream, asked, ended>>
history == <<got, said, spoiled>>
vars == <<client, at, state, batch, heard, history>>

Start == [type |-> "start", text |-> <<>>, fresh |-> TRUE]
Stop == [type |-> "stop", text |-> <<>>, fresh |-> TRUE]

Letters(text) == FoldLeft(+, 0, text)

\* Mutant: a short sentence is dropped when the next one arrives.
CoalesceDropping(out, s) ==
  IF out # <<>> /\ Last(out) < MinSentence THEN ReplaceAt(out, Len(out), s) ELSE Append(out, s)

\* A sentence joins the one before it when that is too short to stand alone.
Coalesce(out, s) ==
  IF out # <<>> /\ Last(out) < MinSentence
  THEN ReplaceAt(out, Len(out), Last(out) + s)
  ELSE Append(out, s)

SplitSentences(text) == FoldLeft(Coalesce, <<>>, text)

\* += chunk.text: the chunk begins a sentence, or goes on with the open one.
Joined(text, more, fresh) ==
  IF fresh \/ text = <<>> \/ more = <<>> THEN text \o more
  ELSE ReplaceAt(text, Len(text), Last(text) + Head(more)) \o Tail(more)

-----------------------------------------------------------------------------
(* The client *)

\* What a client makes of an event, by what it was told before.  Home
\* Assistant's reader leaves its loop on SynthesizeStopped, whatever came first.
Hears(event) ==
  CASE event = "AudioStart" /\ stream = "silent" -> "playing"
    [] event = "Error" /\ stream = "silent" -> "refused"
    [] event = "AudioStop" /\ stream = "playing" -> "closed"
    [] event = "SynthesizeStopped" -> "silent"
    [] OTHER -> "garbled"

Fresh ==
  /\ inbox = <<>> /\ sent = 0 /\ bracket = FALSE /\ slips = {} /\ at = "reading"
  /\ buffer = <<>> /\ audioStarted = FALSE /\ aborted = FALSE /\ batch = <<>>
  /\ stream = "silent" /\ asked = 0 /\ ended = 0
  /\ got = 0 /\ said = 0 /\ spoiled = FALSE

Init == Fresh

\* A chunk or a stop belongs in a bracket, a start or a Synthesize outside.
InPlace(type) == (type \in {"chunk", "stop"}) = bracket

Send(event) ==
  /\ Len(inbox) < MaxInbox /\ sent < MaxSent
  /\ inbox' = Append(inbox, event) /\ sent' = sent + 1
  /\ asked' = IF event.type \in {"stop", "whole"} THEN asked + 1 ELSE asked
  /\ slips' = IF InPlace(event.type) THEN slips ELSE slips \cup {event.type}
  /\ UNCHANGED <<at, state, batch, stream, ended, history>>

SendStart == bracket' = TRUE /\ Send(Start)

SendChunk ==
  /\ \E t \in Texts, fresh \in BOOLEAN : Send([type |-> "chunk", text |-> t, fresh |-> fresh])
  /\ UNCHANGED bracket

SendStop == bracket' = FALSE /\ Send(Stop)

SendWhole ==
  /\ \E t \in Texts : Send([type |-> "whole", text |-> t, fresh |-> TRUE])
  /\ UNCHANGED bracket

\* The connection goes, at the client's will or because a write or the
\* conversion of the samples raises; the next one gets a handler of its own.
Hangup ==
  /\ inbox' = <<>> /\ sent' = 0 /\ bracket' = FALSE /\ slips' = {} /\ at' = "reading"
  /\ buffer' = <<>> /\ audioStarted' = FALSE /\ aborted' = FALSE /\ batch' = <<>>
  /\ stream' = "silent" /\ asked' = 0 /\ ended' = 0
  /\ got' = 0 /\ said' = 0 /\ spoiled' = FALSE

-----------------------------------------------------------------------------
(* The handler *)

Reset == buffer' = <<>> /\ audioStarted' = FALSE /\ aborted' = FALSE

\* The fields of any request under way are overwritten: its words are lost, and
\* what its client was told is forgotten.
Begin == Reset /\ said' = 0 /\ spoiled' = (spoiled \/ stream # "silent")

Read(type) ==
  /\ at = "reading" /\ inbox # <<>> /\ Head(inbox).type = type
  /\ inbox' = Tail(inbox)
  /\ UNCHANGED <<sent, bracket, slips, heard>>

ReadStart ==
  /\ Read("start") /\ Begin /\ got' = 0
  /\ UNCHANGED <<at, batch>>

\* After a failure the rest of the request is read and dropped.
ReadChunk ==
  /\ Read("chunk")
  /\ IF aborted THEN UNCHANGED <<at, buffer, got>>
     ELSE /\ buffer' = Joined(buffer, Head(inbox).text, Head(inbox).fresh)
          /\ got' = got + Letters(Head(inbox).text)
          /\ at' = "flushing"
  /\ UNCHANGED <<audioStarted, aborted, batch, said, spoiled>>

\* Mutant: the stop does not look at what is left in the buffer.
ReadStopAtOnce ==
  /\ Read("stop") /\ at' = "closing"
  /\ UNCHANGED <<state, batch, history>>

ReadStop ==
  /\ Read("stop")
  /\ at' = IF ~aborted /\ buffer # <<>> THEN "tail" ELSE "closing"
  /\ UNCHANGED <<state, batch, history>>

ReadWhole ==
  /\ Read("whole") /\ Begin
  /\ batch' = SplitSentences(Head(inbox).text) /\ at' = "batch"
  /\ got' = Letters(Head(inbox).text)

\* The sentence reaches the client.
Spoken(letters) ==
  /\ said' = said + letters
  /\ IF audioStarted THEN UNCHANGED <<audioStarted, stream>>
     ELSE audioStarted' = TRUE /\ stream' = Hears("AudioStart")
  /\ UNCHANGED aborted

\* synthesize() raised: the client is told only as long as it heard nothing.
Failed ==
  /\ aborted' = TRUE
  /\ stream' = IF audioStarted THEN stream ELSE Hears("Error")
  /\ UNCHANGED <<audioStarted, said>>

SynthAndEmit(letters) ==
  /\ Spoken(letters) \/ Failed
  /\ UNCHANGED <<client, asked, ended, got, spoiled>>

\* A sentence at the front is complete, and long enough to be spoken.
Ready == Len(buffer) > 1 /\ Head(buffer) >= MinSentence

FlushSentence ==
  /\ at = "flushing" /\ Ready
  /\ buffer' = Tail(buffer)
  /\ SynthAndEmit(Head(buffer))
  /\ at' = IF aborted' THEN "reading" ELSE "flushing"
  /\ UNCHANGED batch

\* No boundary in sight, or the first sentence is too short: it is pushed
\* back and the loop is left until the next event.
FlushNoMore ==
  /\ at = "flushing" /\ ~Ready /\ at' = "reading"
  /\ UNCHANGED <<client, state, batch, heard, history>>

\* Whatever is left is spoken as one.
FlushTail ==
  /\ at = "tail" /\ at' = "closing" /\ buffer' = <<>>
  /\ SynthAndEmit(Letters(buffer))
  /\ UNCHANGED batch

SpeakBatch ==
  /\ at = "batch" /\ batch # <<>> /\ ~aborted
  /\ batch' = Tail(batch)
  /\ SynthAndEmit(Head(batch))
  /\ UNCHANGED <<at, buffer>>

BatchDone ==
  /\ at = "batch" /\ (batch = <<>> \/ aborted)
  /\ at' = "closing" /\ batch' = <<>>
  /\ UNCHANGED <<client, state, heard, history>>

\* Mutant: a failed request is left without its AudioStop.
CloseAudioUnlessAborted ==
  /\ at = "closing" /\ at' = "ending"
  /\ stream' = IF audioStarted /\ ~aborted THEN Hears("AudioStop") ELSE stream
  /\ UNCHANGED <<client, state, batch, asked, ended, history>>

CloseAudio ==
  /\ at = "closing" /\ at' = "ending"
  /\ stream' = IF audioStarted THEN Hears("AudioStop") ELSE stream
  /\ UNCHANGED <<client, state, batch, asked, ended, history>>

\* Mutant: only a client that heard audio is told that it is over.
EndSessionIfHeard ==
  /\ at = "ending" /\ at' = "reading" /\ Reset
  /\ IF audioStarted THEN stream' = Hears("SynthesizeStopped") /\ ended' = ended + 1
     ELSE UNCHANGED <<stream, ended>>
  /\ UNCHANGED <<client, batch, asked, history>>

\* SynthesizeStopped is sent unconditionally.
EndSession ==
  /\ at = "ending" /\ at' = "reading" /\ Reset
  /\ stream' = Hears("SynthesizeStopped") /\ ended' = ended + 1
  /\ got' = 0 /\ said' = 0 /\ spoiled' = FALSE
  /\ UNCHANGED <<client, batch, asked>>

Handle ==
  \/ ReadStart \/ ReadChunk \/ ReadStop \/ ReadWhole
  \/ FlushSentence \/ FlushNoMore \/ FlushTail
  \/ SpeakBatch \/ BatchDone \/ CloseAudio \/ EndSession

Next == SendStart \/ SendChunk \/ SendStop \/ SendWhole \/ Hangup \/ Handle

Spec == Init /\ [][Next]_vars

\* The handler's task is never starved: nothing else keeps the loop for good.
FairSpec == Spec /\ WF_vars(Handle)
-----------------------------------------------------------------------------
(* Properties *)

\* What this connection's client may rely on.
Promised == INSTANCE TtsStream WITH
  stream <- stream, asked <- asked, ended <- ended, orderly <- slips = {}, spoiled <- spoiled

\* _MimicHandler keeps what TtsStream promises to every client, the ones that
\* begin a request in the middle of another included.
Implements == Promised!Spec

\* tests/test_wyoming.py:265: "AudioStart should fire exactly once across the
\* whole session".  A client that is hearing audio is not told that audio
\* begins.  The code breaks it when a Synthesize comes within a bracket: it
\* forgets that the bracket's audio has started.
AudioStartsOnce ==
  [][slips \subseteq {"whole"} /\ stream = "playing" => (audioStarted' => audioStarted)]_vars

\* Home Assistant waits for SynthesizeStopped: every request that was made is
\* answered, unless its client leaves, whichever sentences fail.
EveryRequestEnds ==
  \A n \in 1..MaxSent : asked >= n ~> ended >= n \/ asked < n

\* A request that has not failed skips and repeats nothing, however its text
\* was cut into events and sentences: what was received is what was spoken and
\* what is still held, and at its end nothing is held.
NothingSkipped ==
  ~aborted =>
    /\ got = said + Letters(buffer) + Letters(batch)
    /\ at \in {"closing", "ending"} => got = said

\* A request that had something to say and ends is not silent, whatever the
\* client sent before it: its client heard audio, or was told of the error, in
\* good order unless the request was begun in the middle of another.
NoSilentEnd ==
  at = "ending" /\ got > 0 => stream \in IF spoiled THEN {"garbled"} ELSE {"closed", "refused"}

\* wyoming_server.py:230 and 241: complete sentences leave the buffer as they
\* come, a short one merging with the next.  While the handler waits for
\* more, the complete sentences it still holds are too short, taken together,
\* to be spoken.  The code breaks it: a short first sentence pushed back stays
\* at the front, and nothing behind it is spoken until the stop.
NothingWaits ==
  at = "reading" /\ ~aborted /\ Len(buffer) > 1 => Letters(Front(buffer)) < MinSentence
=============================================================================
