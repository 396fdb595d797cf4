----------------------------- MODULE CloneCard ------------------------------
(***************************************************************************)
(* The page's "Clone a voice" card (CloneCard in App.jsx) with the         *)
(* microphone (recorder.js) and the transcripts it asks for (Stt).         *)
(*                                                                         *)
(* Every handler of the card runs until it awaits something, the           *)
(* microphone, the recorder's last data, a transcript, the upload, and     *)
(* goes on later with what it had read before: its own take, phrase and    *)
(* preview URL.  The buttons are disabled by some of these waits only, so  *)
(* the user may click in most of them; hurried remembers where.  Some      *)
(* paths forget a recorder that nobody stops: lost remembers its stream.   *)
(*                                                                         *)
(* A take is the number of the setAudio call that showed it, and so is the *)
(* object URL made by that call; 0 is none.  A phrase is the take it was   *)
(* transcribed from, or 0 when typed; it is never empty.                   *)
(*                                                                         *)
(* Signing out, or a call that is refused, takes the card off the page.    *)
(* What it was waiting for goes on; what it would show is not seen.        *)
(***************************************************************************)
EXTENDS Naturals, FiniteSets, Stt

CONSTANTS
  MaxTakes,    \* bound: takes shown
  MaxStreams,  \* bound: times the microphone is opened
  MaxWaits     \* bound: calls of one kind waiting at a time

ASSUME BoundsAssumption == MaxTakes \in Nat /\ MaxStreams \in Nat /\ MaxWaits \in Nat

VARIABLES
  asking,                   \* startRecording calls without an answer
  streams, open,            \* streams opened so far, and those with live tracks
  active, ending, ended,    \* recorders: not inactive; stop event queued; done resolved
  rec, recording,           \* recRef.current (0 is null), and what the button shows
  stops,                    \* toggleRecord calls that await a blob
  take, url, phrase, named, \* wavBlob, previewUrl, phrase, whether there is a name
  takes, urls,              \* setAudio calls so far, and object URLs not revoked
  heard,                    \* transcribing: the take sent, or 0
  saving,                   \* busy: the take and the URL the submit read, or NoSave
  saved,                    \* history: takes the server has registered
  gone,                     \* the card is off the page
  hurried,                  \* history: what the user did not wait for
  lost                      \* history: streams nothing will stop, and why

microphone == <<asking, streams, open, active, ending, ended>>
button == <<rec, recording, stops>>
form == <<take, url, phrase, named, takes, urls>>
calls == <<heard, saving, exchange, saved>>
page == <<gone, hurried, lost>>
vars == <<microphone, button, form, calls, page>>

NoSave == [take |-> 0, url |-> 0]

Init ==
  /\ asking = 0 /\ streams = 0 /\ open = {} /\ active = {} /\ ending = {} /\ ended = {}
  /\ rec = 0 /\ recording = FALSE /\ stops = {}
  /\ take = 0 /\ url = 0 /\ phrase = 0 /\ named = FALSE /\ takes = 0 /\ urls = {}
  /\ heard = 0 /\ saving = NoSave /\ NoExchange
  /\ saved = {} /\ gone = FALSE /\ hurried = {} /\ lost = {}

-----------------------------------------------------------------------------
(* The take *)

\* Mutant: only the first take gets a preview.
SetAudioOnce(before, n) ==
  /\ takes' = takes + n /\ take' = takes'
  /\ url' = IF url = 0 THEN takes' ELSE url
  /\ urls' = (urls \ before) \cup (takes + 1)..takes'
  /\ UNCHANGED <<phrase, named>>

\* n calls of setAudio in a row, each with the preview URL of the render it
\* was called from.
SetAudio(before, n) ==
  /\ takes' = takes + n /\ take' = takes' /\ url' = takes'
  /\ urls' = (urls \ before) \cup (takes + 1)..takes'
  /\ UNCHANGED <<phrase, named>>

\* Bound: every take begun can still be shown.
Room == takes + asking + Cardinality(stops) < MaxTakes

Hurry(what) == hurried' = hurried \cup what

When(condition, what) == IF condition THEN {what} ELSE {}

\* What a new take is begun beside.
Beside == When(heard # 0, "transcript") \cup When(saving # NoSave, "save")

Upload ==
  /\ ~recording /\ Room
  /\ SetAudio({url}, 1) /\ Hurry(Beside)
  /\ UNCHANGED <<microphone, button, calls, gone, lost>>

Type ==
  /\ phrase' = 0 /\ named' = TRUE
  /\ UNCHANGED <<microphone, button, take, url, takes, urls, calls, page>>

-----------------------------------------------------------------------------
(* The microphone *)

ClickRecord ==
  /\ ~recording /\ asking < MaxWaits /\ Room /\ streams + asking < MaxStreams
  /\ asking' = asking + 1
  /\ Hurry(Beside \cup When(asking > 0, "microphone"))
  /\ UNCHANGED <<streams, open, active, ending, ended, button, form, calls, gone, lost>>

\* Streams whose blob a call awaits: it stops their tracks when it has it.
Awaited == {c.stream : c \in stops}

\* The card is left with no way to stop these streams.
Lose(what, why) == lost' = lost \cup [stream : what, why : {why}]

\* The recorder goes to recRef, in place of the one that may be there; when
\* the card is gone, nobody can click Stop.
Granted ==
  /\ asking > 0 /\ asking' = asking - 1
  /\ streams' = streams + 1
  /\ open' = open \cup {streams'} /\ active' = active \cup {streams'}
  /\ rec' = streams' /\ recording' = TRUE
  /\ IF gone THEN Lose({streams'}, "left")
     ELSE Lose({rec} \ ({0} \cup Awaited), "overtaken")
  /\ UNCHANGED <<ending, ended, stops, form, calls, gone, hurried>>

\* new MediaRecorder or start() raises when the microphone was granted: the
\* card says so, and the tracks go on.
RecorderFails ==
  /\ asking > 0 /\ asking' = asking - 1
  /\ streams' = streams + 1 /\ open' = open \cup {streams'}
  /\ Lose({streams'}, "failed")
  /\ UNCHANGED <<active, ending, ended, button, form, calls, gone, hurried>>

\* Mutant: the stream is kept when there is no MediaRecorder to give it to.
DeniedTooLate ==
  /\ asking > 0 /\ asking' = asking - 1
  /\ streams' = streams + 1 /\ open' = open \cup {streams'}
  /\ UNCHANGED <<active, ending, ended, button, form, calls, page>>

\* No permission; or no MediaRecorder, and the tracks are stopped again.
Denied ==
  /\ asking > 0 /\ asking' = asking - 1
  /\ UNCHANGED <<streams, open, active, ending, ended, button, form, calls, page>>

\* The device goes away, and the recorder stops by itself.
Unplug ==
  /\ \E s \in active :
       active' = active \ {s} /\ ending' = ending \cup {s} /\ open' = open \ {s}
  /\ UNCHANGED <<asking, streams, ended, button, form, calls, page>>

\* onstop: the promise done holds the blob from now on.
RecorderEnds ==
  /\ \E s \in ending : ending' = ending \ {s} /\ ended' = ended \cup {s}
  /\ UNCHANGED <<asking, streams, open, active, button, form, calls, page>>

\* Mutant: onstop is only listened to from the click on.
StopRecorderListening ==
  /\ active' = active \ {rec} /\ ending' = ending \cup (active \cap {rec})
  /\ ended' = ended \ {rec} /\ UNCHANGED <<asking, streams, open>>

\* stop() of a recorder that has stopped by itself only waits for done.
StopRecorder ==
  /\ active' = active \ {rec} /\ ending' = ending \cup (active \cap {rec})
  /\ UNCHANGED <<asking, streams, open, ended>>

\* toggleRecord awaiting the blob, with the preview of its render; turn tells
\* apart the clicks that stop one recorder.
Call == [stream |-> rec, url |-> url, turn |-> Cardinality({c \in stops : c.stream = rec})]

\* Mutant: the ref is cleared before the blob is awaited.
ClickStopForgetting ==
  /\ recording /\ rec # 0 /\ Cardinality(stops) < MaxWaits /\ Room
  /\ StopRecorder
  /\ stops' = stops \cup {Call} /\ rec' = 0
  /\ UNCHANGED <<recording, form, calls, page>>

\* The button says Stop until the blob has come, and may be clicked again.
ClickStop ==
  /\ recording /\ rec # 0 /\ Cardinality(stops) < MaxWaits /\ Room
  /\ StopRecorder
  /\ stops' = stops \cup {Call}
  /\ UNCHANGED <<rec, recording, form, calls, page>>

\* All calls that await the blob of one recorder go on, one after the other,
\* and clear recRef, whichever recorder is in it.
StopDone ==
  /\ \E s \in ended :
       LET mine == {c \in stops : c.stream = s} IN
       /\ mine # {} /\ SetAudio({c.url : c \in mine}, Cardinality(mine))
       /\ stops' = stops \ mine
       /\ open' = open \ {s}
       /\ Lose({rec} \ ({0} \cup Awaited), "overtaken")
  /\ rec' = 0 /\ recording' = FALSE
  /\ UNCHANGED <<asking, streams, active, ending, ended, calls, gone, hurried>>

-----------------------------------------------------------------------------
(* Transcribing and saving *)

\* Mutant: the button is not disabled while recording.
TranscribeAnyTime ==
  /\ take # 0 /\ heard = 0 /\ heard' = take /\ Receive
  /\ Hurry(When(asking > 0, "transcript"))
  /\ UNCHANGED <<microphone, button, form, saving, saved, gone, lost>>

Transcribe ==
  /\ take # 0 /\ heard = 0 /\ ~recording /\ heard' = take /\ Receive
  /\ Hurry(When(asking > 0, "transcript"))
  /\ UNCHANGED <<microphone, button, form, saving, saved, gone, lost>>

Proxy == Serve /\ UNCHANGED <<microphone, button, form, heard, saving, saved, page>>

\* Mutant: transcribing is reset where the phrase is, and not in a finally.
TranscribedIfText ==
  /\ Deliver
  /\ IF exchange = "text" THEN phrase' = heard /\ heard' = 0 ELSE UNCHANGED <<phrase, heard>>
  /\ UNCHANGED <<microphone, button, take, url, named, takes, urls, saving, saved, page>>

\* An empty transcript and an error leave the phrase as it was.
Transcribed ==
  /\ Deliver /\ heard' = 0
  /\ phrase' = IF exchange = "text" THEN heard ELSE phrase
  /\ UNCHANGED <<microphone, button, take, url, named, takes, urls, saving, saved, page>>

Save ==
  /\ saving = NoSave /\ take # 0 /\ named
  /\ saving' = [take |-> take, url |-> url]
  /\ Hurry(When(recording \/ asking > 0, "save"))
  /\ UNCHANGED <<microphone, button, form, heard, exchange, saved, gone, lost>>

\* The card is cleared for the next voice, whatever it shows by now.
Saved ==
  /\ saving # NoSave /\ saving' = NoSave /\ saved' = saved \cup {saving.take}
  /\ named' = FALSE /\ take' = 0 /\ url' = 0 /\ urls' = urls \ {saving.url}
  /\ UNCHANGED <<microphone, button, phrase, takes, heard, exchange, page>>

\* Mutant: the card is cleared in the finally.
SaveFailedClearing ==
  /\ saving # NoSave /\ saving' = NoSave
  /\ named' = FALSE /\ take' = 0 /\ url' = 0 /\ urls' = urls \ {saving.url}
  /\ UNCHANGED <<microphone, button, phrase, takes, heard, exchange, saved, page>>

SaveFailed ==
  /\ saving # NoSave /\ saving' = NoSave
  /\ UNCHANGED <<microphone, button, form, heard, exchange, saved, page>>

-----------------------------------------------------------------------------
\* App shows the token gate: nobody can stop a recording that nobody has stopped.
Leave ==
  /\ gone' = TRUE
  /\ Lose({rec} \ ({0} \cup Awaited), "left")
  /\ UNCHANGED <<microphone, button, form, calls, hurried>>

Click == Upload \/ Type \/ ClickRecord \/ ClickStop \/ Transcribe \/ Save

User == ~gone /\ (Click \/ Leave)

Next ==
  \/ User \/ Granted \/ RecorderFails \/ Denied \/ Unplug \/ RecorderEnds \/ StopDone
  \/ Proxy \/ Transcribed \/ Saved \/ SaveFailed

Spec == Init /\ [][Next]_vars

\* The browser delivers the events it has queued, every request is answered,
\* and the ASR server answers or closes the connection.
FairSpec ==
  /\ Spec
  /\ WF_vars(RecorderEnds) /\ WF_vars(StopDone)
  /\ WF_vars(Proxy) /\ WF_vars(Transcribed) /\ WF_vars(Saved \/ SaveFailed)
-----------------------------------------------------------------------------
(* Properties *)

\* What is heard in the preview is what will be saved: the URL shown is that
\* of the take shown, and no handler revokes it with the URL it remembers.
PreviewIsTake == url = take /\ (url # 0 => url \in urls)

\* A button that says Stop has a recorder to stop, however often it and the
\* other buttons are clicked.
StopHasRecorder == recording => rec # 0

\* The microphone is not left on: a live stream is that of the recorder the
\* Stop button stops, or is about to be stopped.  Three ways around this are in
\* the code, and no other: the recorder could not be made or started, the card
\* left the page while it recorded or asked, or another recorder took its place;
\* and the last needs a second click on Record before the first was answered.
MicReleased ==
  /\ open \subseteq (IF gone THEN {} ELSE {rec}) \cup Awaited \cup {l.stream : l \in lost}
  /\ \A l \in lost : l.why = "overtaken" => "microphone" \in hurried

\* The user has had one microphone at a time, and waited where it says.
Waited(what) == hurried \cap {"microphone", what} = {}

\* App.jsx:263, "Fill the phrase from the recording": a transcript arrives
\* with the take it is of, unless another was begun meanwhile.
TranscriptOfTake ==
  [][phrase' \notin {0, phrase} /\ Waited("transcript") => take \in {0, phrase'}]_vars

\* A take leaves the card saved, or for a newer one, unless that was begun
\* beside the save.
TakeKept ==
  [][take' \notin {take, takes'} /\ Waited("save") => take' = 0 /\ take \in saved']_vars

\* A recording that is stopped, by the user or by its device, is handed over.
StopEnds == stops # {} ~> ~recording

\* No button stays disabled: what was asked of the server comes to an end.
CallsEnd == (heard # 0 ~> heard = 0) /\ (saving # NoSave ~> saving = NoSave)
=============================================================================
