-------------------------- MODULE CloneCard_proofs --------------------------
(***************************************************************************)
(* The card and its microphone, for any number of takes, streams, clicks   *)
(* and failures.  Tracked says of every live stream what stops it, or how  *)
(* the page lost it; it needs no word about the user.  OneMicrophone says  *)
(* that a user who waits for the microphone has one recorder at a time,    *)
(* which the calls that await a blob all belong to, so that none is        *)
(* overtaken.  WaitsKnown, on top of it, says which take whatever the user *)
(* waits for remembers.                                                    *)
(***************************************************************************)
EXTENDS CloneCard, FiniteSetTheorems, TLAPS

Counted == asking \in Nat /\ streams \in Nat /\ takes \in Nat /\ IsFiniteSet(stops)

RecorderShown == recording <=> rec # 0

Tracked ==
  /\ open \subseteq (IF gone THEN {} ELSE {rec}) \cup Awaited \cup {l.stream : l \in lost}
  /\ 0 \notin open

OneMicrophone ==
  "microphone" \notin hurried =>
    /\ asking <= 1
    /\ recording => asking = 0 /\ \A c \in stops : c.stream = rec
    /\ ~recording => stops = {}
    /\ \A l \in lost : l.why # "overtaken"

IInv == Counted /\ PreviewIsTake /\ RecorderShown /\ Tracked /\ OneMicrophone

\* What was lost stays lost, and is told by its stream.
LEMMA LoseAdds ==
  ASSUME NEW what, NEW why, Lose(what, why)
  PROVE  /\ {l.stream : l \in lost'} = {l.stream : l \in lost} \cup what
         /\ \A l \in lost' : l \in lost \/ (l.why = why /\ what # {})
<1> DEFINE more == [stream : what, why : {why}]
<1>1. lost' = lost \cup more
  BY DEF Lose
<1>2. \A x \in what : [stream |-> x, why |-> why] \in more
  OBVIOUS
<1>3. \A l \in more : l.stream \in what /\ l.why = why
  OBVIOUS
<1>4. \A x \in what : \E l \in more : l.stream = x
  <2> SUFFICES ASSUME NEW x \in what PROVE \E l \in more : l.stream = x
    OBVIOUS
  <2> DEFINE row == [stream |-> x, why |-> why]
  <2>1. row \in more /\ row.stream = x
    BY <1>2
  <2> HIDE DEF row, more
  <2> QED
    BY <2>1
<1> HIDE DEF more
<1> QED
  BY <1>1, <1>3, <1>4

LEMMA InitInv == Init => IInv
BY FS_EmptySet DEF Init, IInv, Counted, PreviewIsTake, RecorderShown, Tracked, OneMicrophone

\* A handler that only calls the server touches neither microphone nor take.
LEMMA Elsewhere ==
  ASSUME IInv, hurried \subseteq hurried',
         UNCHANGED <<microphone, button, take, url, takes, urls, gone, lost>>
  PROVE  IInv'
BY DEF IInv, Counted, PreviewIsTake, RecorderShown, Tracked, Awaited, OneMicrophone, microphone, button

\* The last preview made is shown, and is not revoked by the calls that made it.
LEMMA Shown ==
  ASSUME takes \in Nat, NEW before, NEW n \in Nat, n >= 1, SetAudio(before, n)
  PROVE  takes' \in Nat /\ PreviewIsTake'
BY DEF SetAudio, PreviewIsTake

LEMMA StepInv == IInv /\ [Next]_vars => IInv'
<1> SUFFICES ASSUME IInv, [Next]_vars PROVE IInv'
  OBVIOUS
<1> USE DEF IInv
<1>1. ASSUME Upload PROVE IInv'
  <2>1. takes' \in Nat /\ PreviewIsTake'
    BY <1>1, Shown DEF Upload, Counted
  <2>2. Counted' /\ RecorderShown' /\ Tracked' /\ OneMicrophone'
    BY <1>1, <2>1 DEF Upload, Hurry, microphone, button, Counted, RecorderShown, Tracked, Awaited,
       OneMicrophone
  <2> QED
    BY <2>1, <2>2
<1>2. ASSUME Type PROVE IInv'
  BY <1>2, Elsewhere DEF Type, page
<1>3. ASSUME ClickRecord PROVE IInv'
  <2>1. /\ asking \in Nat /\ ~recording /\ asking' = asking + 1
        /\ UNCHANGED <<streams, open, takes, stops, rec, recording, take, url, urls, gone, lost>>
    BY <1>3 DEF ClickRecord, Counted, button, form
  <2>2. "microphone" \notin hurried' => asking = 0 /\ "microphone" \notin hurried
    BY <1>3, <2>1 DEF ClickRecord, Hurry, When
  <2> QED
    BY <2>1, <2>2 DEF Counted, PreviewIsTake, RecorderShown, Tracked, Awaited, OneMicrophone
<1>4. ASSUME Granted PROVE IInv'
  <2>1. /\ asking > 0 /\ asking' = asking - 1 /\ streams' = streams + 1
        /\ open' = open \cup {streams'} /\ rec' = streams' /\ recording' = TRUE
        /\ UNCHANGED <<stops, take, url, takes, urls, gone, hurried>>
    BY <1>4 DEF Granted, form
  <2>2. Counted' /\ PreviewIsTake' /\ RecorderShown' /\ Awaited' = Awaited
    BY <2>1 DEF Counted, PreviewIsTake, RecorderShown, Awaited
  <2>3. CASE gone
    <3>1. Lose({streams'}, "left")
      BY <1>4, <2>3 DEF Granted
    <3>2. /\ {l.stream : l \in lost'} = {l.stream : l \in lost} \cup {streams'}
          /\ \A l \in lost' : l \in lost \/ l.why = "left"
      BY <3>1, LoseAdds
    <3>3. Tracked'
      BY <2>1, <2>2, <2>3, <3>2 DEF Tracked, Counted
    <3>4. OneMicrophone'
      BY <2>1, <3>2 DEF OneMicrophone, Counted
    <3> QED
      BY <2>2, <3>3, <3>4
  <2>4. CASE ~gone
    <3> DEFINE taken == {rec} \ ({0} \cup Awaited)
    <3>1. Lose(taken, "overtaken")
      BY <1>4, <2>4 DEF Granted
    <3>2. {l.stream : l \in lost'} = {l.stream : l \in lost} \cup taken
      BY <3>1, LoseAdds
    <3>3. \A l \in lost' : l \in lost \/ taken # {}
      BY <3>1, LoseAdds
    <3>4. 0 \notin open'
      BY <2>1 DEF Counted, Tracked
    <3>5. Tracked'
      BY <2>1, <2>2, <2>4, <3>2, <3>4 DEF Tracked
    <3>6. "microphone" \notin hurried => taken = {}
      BY <2>1 DEF OneMicrophone, RecorderShown, Counted
    <3>7. OneMicrophone'
      BY <2>1, <3>3, <3>6 DEF OneMicrophone, Counted
    <3> QED
      BY <2>2, <3>5, <3>7
  <2> QED
    BY <2>3, <2>4
<1>5. ASSUME RecorderFails PROVE IInv'
  <2>1. /\ asking > 0 /\ asking' = asking - 1 /\ streams' = streams + 1
        /\ open' = open \cup {streams'} /\ Lose({streams'}, "failed")
        /\ UNCHANGED <<rec, recording, stops, take, url, takes, urls, gone, hurried>>
    BY <1>5 DEF RecorderFails, form, button
  <2>2. /\ {l.stream : l \in lost'} = {l.stream : l \in lost} \cup {streams'}
        /\ \A l \in lost' : l \in lost \/ l.why = "failed"
    BY <2>1, LoseAdds
  <2>3. Counted' /\ PreviewIsTake' /\ RecorderShown' /\ Tracked'
    BY <2>1, <2>2 DEF Counted, PreviewIsTake, RecorderShown, Tracked, Awaited
  <2>4. OneMicrophone'
    BY <2>1, <2>2 DEF OneMicrophone, Counted
  <2> QED
    BY <2>3, <2>4
<1>6. ASSUME Denied PROVE IInv'
  BY <1>6 DEF Denied, form, page, button, Counted, PreviewIsTake, RecorderShown, Tracked, Awaited,
     OneMicrophone
<1>7. ASSUME Unplug \/ RecorderEnds PROVE IInv'
  BY <1>7 DEF Unplug, RecorderEnds, form, page, button, Counted, PreviewIsTake, RecorderShown,
     Tracked, Awaited, OneMicrophone
<1>8. ASSUME ClickStop PROVE IInv'
  <2>1. IsFiniteSet(stops')
    BY <1>8, FS_AddElement DEF ClickStop, Counted
  <2>2. Call.stream = rec
    BY DEF Call
  <2> HIDE DEF IInv
  <2>3. /\ recording /\ stops' = stops \cup {Call}
        /\ UNCHANGED <<asking, streams, open, rec, recording, take, url, takes, urls, gone, hurried, lost>>
    BY <1>8 DEF ClickStop, StopRecorder, form, page
  <2> USE DEF IInv
  <2>4. Tracked'
    BY <2>3 DEF Tracked, Awaited
  <2> QED
    BY <2>1, <2>2, <2>3, <2>4 DEF Counted, PreviewIsTake, RecorderShown, OneMicrophone
<1>9. ASSUME StopDone PROVE IInv'
  <2>1. PICK s \in ended :
          LET mine == {c \in stops : c.stream = s} IN
          /\ mine # {} /\ SetAudio({c.url : c \in mine}, Cardinality(mine))
          /\ stops' = stops \ mine
          /\ open' = open \ {s}
          /\ Lose({rec} \ ({0} \cup Awaited), "overtaken")
    BY <1>9 DEF StopDone
  <2> DEFINE mine == {c \in stops : c.stream = s}
             taken == {rec} \ ({0} \cup Awaited)
  <2>2. IsFiniteSet(mine) /\ IsFiniteSet(stops')
    BY <2>1, FS_Subset DEF Counted
  <2>3. Cardinality(mine) \in Nat /\ Cardinality(mine) >= 1
    BY <2>1, <2>2, FS_CardinalityType, FS_EmptySet
  <2>4. takes' \in Nat /\ PreviewIsTake'
    BY <2>1, <2>3, Shown DEF Counted
  <2>5. UNCHANGED <<asking, streams, hurried, gone>> /\ recording' = FALSE /\ rec' = 0
    BY <1>9 DEF StopDone
  <2>6. {l.stream : l \in lost'} = {l.stream : l \in lost} \cup taken
    BY <2>1, LoseAdds
  <2>7. \A l \in lost' : l \in lost \/ taken # {}
    BY <2>1, LoseAdds
  <2>8. Awaited' = Awaited \ {s} /\ s \in Awaited
    BY <2>1 DEF Awaited
  <2>9. Tracked'
    <3>1. \A x \in open' : x \in open /\ x # s
      BY <2>1
    <3>2. \A x \in open' : x \in Awaited' \/ x \in {l.stream : l \in lost'} \/ x = rec'
      BY <3>1, <2>5, <2>6, <2>8 DEF Tracked
    <3>3. gone => \A x \in open' : x \in Awaited' \/ x \in {l.stream : l \in lost'}
      BY <3>1, <2>6, <2>8 DEF Tracked
    <3> QED
      BY <3>1, <3>2, <3>3, <2>5 DEF Tracked
  <2>10. ASSUME "microphone" \notin hurried PROVE mine = stops /\ taken = {}
    BY <2>1, <2>8, <2>10 DEF OneMicrophone, Awaited
  <2>11. OneMicrophone'
    BY <2>1, <2>5, <2>7, <2>10 DEF OneMicrophone
  <2> QED
    BY <2>2, <2>4, <2>5, <2>9, <2>11 DEF Counted, RecorderShown
<1>10. ASSUME Transcribe PROVE IInv'
  BY <1>10, Elsewhere DEF Transcribe, Hurry, form
<1>11. ASSUME Save PROVE IInv'
  BY <1>11, Elsewhere DEF Save, Hurry, form
<1>12. ASSUME Proxy PROVE IInv'
  BY <1>12, Elsewhere DEF Proxy, form, page
<1>13. ASSUME Transcribed PROVE IInv'
  BY <1>13, Elsewhere DEF Transcribed, page
<1>14. ASSUME Saved PROVE IInv'
  BY <1>14 DEF Saved, page, microphone, button, Counted, PreviewIsTake, RecorderShown, Tracked,
     Awaited, OneMicrophone
<1>15. ASSUME SaveFailed PROVE IInv'
  BY <1>15, Elsewhere DEF SaveFailed, form, page
<1>16. ASSUME ~gone, Leave PROVE IInv'
  <2> DEFINE taken == {rec} \ ({0} \cup Awaited)
  <2>1. gone' = TRUE /\ Lose(taken, "left") /\ UNCHANGED <<microphone, button, form, hurried>>
    BY <1>16 DEF Leave
  <2>2. /\ {l.stream : l \in lost'} = {l.stream : l \in lost} \cup taken
        /\ \A l \in lost' : l \in lost \/ l.why = "left"
    BY <2>1, LoseAdds
  <2>3. 0 \notin open
    BY DEF Tracked
  <2>4. Tracked'
    BY <1>16, <2>1, <2>2, <2>3 DEF Tracked, Awaited, microphone, button
  <2> QED
    BY <2>1, <2>2, <2>4
    DEF microphone, button, form, Counted, PreviewIsTake, RecorderShown, OneMicrophone
<1>17. ASSUME UNCHANGED vars PROVE IInv'
  BY <1>17, Elsewhere DEF vars, form, page
<1> QED
  BY <1>1, <1>2, <1>3, <1>4, <1>5, <1>6, <1>7, <1>8, <1>9, <1>10, <1>11, <1>12, <1>13,
     <1>14, <1>15, <1>16, <1>17 DEF Next, User, Click

\* The preview is of the take shown, the Stop button has a recorder, and one
\* microphone is in use (CloneCard, toggleRecord and setAudio).
THEOREM Invariance == Spec => []IInv
<1>1. IInv /\ [Next]_vars => IInv'
  BY StepInv
<1> QED
  BY <1>1, InitInv, PTL DEF Spec

\* However often Record, Stop and Save are clicked and whenever the microphone
\* or a blob comes, Stop never finds recRef empty.
THEOREM StopAlwaysWorks == Spec => []StopHasRecorder
<1>1. IInv => StopHasRecorder
  BY DEF IInv, RecorderShown, StopHasRecorder
<1> QED
  BY <1>1, Invariance, PTL

\* No handler revokes the preview that is shown, whatever URL it remembers.
THEOREM PreviewPlays == Spec => []PreviewIsTake
<1>1. IInv => PreviewIsTake
  BY DEF IInv
<1> QED
  BY <1>1, Invariance, PTL

\* Whatever the user clicks and whatever fails, a live stream has a recorder the
\* user can stop or has stopped, or was lost in one of the ways the code has: a
\* recorder that failed, a card that left, and, for a user who clicked Record
\* twice, another recorder in its place.
THEOREM MicrophoneReleased == Spec => []MicReleased
<1>1. IInv => MicReleased
  BY DEF IInv, Tracked, OneMicrophone, MicReleased
<1> QED
  BY <1>1, Invariance, PTL

-----------------------------------------------------------------------------
(* What the card remembers across a call                                   *)

\* While a transcript or a save is waited for by a user who begins no take
\* beside it, no microphone can bring one either: the take is still shown.
WaitsKnown ==
  /\ heard # 0 /\ Waited("transcript") => asking = 0 /\ ~recording /\ take \in {0, heard}
  /\ saving # NoSave /\ Waited("save") => asking = 0 /\ ~recording /\ take = saving.take

\* A new take, or a microphone that may bring one, is remembered as hurried.
LEMMA BesideHurries ==
  ASSUME hurried \cup Beside \subseteq hurried'
  PROVE  /\ Waited("transcript")' => heard = 0 /\ Waited("transcript")
         /\ Waited("save")' => saving = NoSave /\ Waited("save")
BY DEF Beside, When, Waited

\* A step that leaves the microphone, the take and the calls alone.
LEMMA WaitsStay ==
  ASSUME WaitsKnown, hurried \subseteq hurried', asking' = asking, recording' = recording,
         take' = take, heard' \in {0, heard}, saving' \in {NoSave, saving}
  PROVE  WaitsKnown'
BY DEF WaitsKnown, Waited

LEMMA StepWaits ==
  ASSUME IInv, WaitsKnown, [Next]_vars
  PROVE  WaitsKnown'
<1>0. asking \in Nat
  BY DEF IInv, Counted
<1>1. CASE Upload
  <2>1. hurried' = hurried \cup Beside /\ heard' = heard /\ saving' = saving
    BY <1>1 DEF Upload, Hurry, calls
  <2> QED
    BY <2>1, BesideHurries DEF WaitsKnown
<1>2. CASE ClickRecord
  <2>1. hurried \cup Beside \subseteq hurried' /\ heard' = heard /\ saving' = saving
    BY <1>2 DEF ClickRecord, Hurry, calls
  <2> QED
    BY <2>1, BesideHurries DEF WaitsKnown
<1>3. CASE Transcribe
  <2>1. /\ ~recording /\ recording' = recording /\ asking' = asking /\ take' = take
        /\ heard = 0 /\ heard' = take /\ saving' = saving
        /\ hurried' = hurried \cup (IF asking > 0 THEN {"transcript"} ELSE {})
    BY <1>3 DEF Transcribe, Hurry, When, microphone, button, form
  <2>2. Waited("transcript")' => asking = 0
    BY <1>0, <2>1 DEF Waited
  <2>3. hurried \subseteq hurried'
    BY <2>1
  <2> QED
    BY <2>1, <2>2, <2>3 DEF WaitsKnown, Waited
<1>4. CASE Save
  <2>1. /\ recording' = recording /\ asking' = asking /\ take' = take
        /\ heard' = heard /\ saving' = [take |-> take, url |-> url]
        /\ hurried' = hurried \cup (IF recording \/ asking > 0 THEN {"save"} ELSE {})
    BY <1>4 DEF Save, Hurry, When, microphone, button, form
  <2>2. Waited("save")' => asking = 0 /\ ~recording
    BY <1>0, <2>1 DEF Waited
  <2>3. hurried \subseteq hurried' /\ saving'.take = take
    BY <2>1
  <2> QED
    BY <2>1, <2>2, <2>3 DEF WaitsKnown, Waited
<1>5. CASE Granted
  BY <1>0, <1>5 DEF Granted, form, page, WaitsKnown, Waited, calls
<1>6. CASE StopDone
  <2>1. "microphone" \notin hurried => recording
    BY <1>6 DEF StopDone, IInv, OneMicrophone
  <2> QED
    BY <1>6, <2>1 DEF StopDone, WaitsKnown, Waited, calls, page
<1>7. CASE Denied \/ RecorderFails
  BY <1>0, <1>7 DEF Denied, RecorderFails, button, form, page, WaitsKnown, Waited, calls
<1>8. CASE Saved
  BY <1>8 DEF Saved, button, microphone, page, WaitsKnown, Waited
<1>9. CASE Transcribed \/ SaveFailed
  BY <1>9, WaitsStay DEF Transcribed, SaveFailed, microphone, button, form, page
<1>10. CASE Type \/ ClickStop \/ Unplug \/ RecorderEnds \/ Proxy \/ Leave \/ UNCHANGED vars
  BY <1>10, WaitsStay DEF Type, ClickStop, StopRecorder, Unplug, RecorderEnds, Proxy, Leave,
     Hurry, vars, microphone, button, form, calls, page
<1> QED
  BY <1>1, <1>2, <1>3, <1>4, <1>5, <1>6, <1>7, <1>8, <1>9, <1>10 DEF Next, User, Click

\* What the card reads before a call is still shown when the call comes back,
\* unless the user began a take beside it.
THEOREM WaitsInvariance == Spec => []WaitsKnown
<1>1. Init => WaitsKnown
  BY DEF Init, WaitsKnown
<1>2. IInv /\ WaitsKnown /\ [Next]_vars => WaitsKnown'
  BY StepWaits
<1> QED
  BY <1>1, <1>2, Invariance, PTL DEF Spec

\* The phrase is only filled from the take that is shown (App.jsx:263).
THEOREM TranscriptMatches == Spec => TranscriptOfTake
<1>1. IInv /\ WaitsKnown /\ [Next]_vars =>
        [phrase' \notin {0, phrase} /\ Waited("transcript") => take \in {0, phrase'}]_vars
  <2> SUFFICES ASSUME WaitsKnown, [Next]_vars, phrase' \notin {0, phrase}, Waited("transcript")
               PROVE  take \in {0, phrase'}
    OBVIOUS
  <2>1. CASE Transcribed
    BY <2>1 DEF Transcribed, WaitsKnown
  <2>2. CASE ~Transcribed
    BY <2>2 DEF Next, User, Click, Upload, Type, ClickRecord, ClickStop, Transcribe, Save, Granted,
       RecorderFails, Denied, Unplug, RecorderEnds, StopDone, SetAudio, Proxy, Saved, SaveFailed, Leave, vars, form
  <2> QED
    BY <2>1, <2>2
<1> QED
  BY <1>1, Invariance, WaitsInvariance, PTL DEF Spec, TranscriptOfTake

\* The only take that leaves the card unreplaced is one the server has.
THEOREM TakeSafe == Spec => TakeKept
<1>1. IInv /\ WaitsKnown /\ [Next]_vars =>
        [take' \notin {take, takes'} /\ Waited("save") => take' = 0 /\ take \in saved']_vars
  <2> SUFFICES ASSUME WaitsKnown, [Next]_vars, take' \notin {take, takes'}, Waited("save")
               PROVE  take' = 0 /\ take \in saved'
    OBVIOUS
  <2>1. CASE Saved
    BY <2>1 DEF Saved, WaitsKnown
  <2>2. CASE ~Saved
    BY <2>2 DEF Next, User, Click, Upload, Type, ClickRecord, ClickStop, Transcribe, Save, Granted,
       RecorderFails, Denied, Unplug, RecorderEnds, StopDone, SetAudio, Proxy, Transcribed, SaveFailed, Leave, vars,
       form
  <2> QED
    BY <2>1, <2>2
<1> QED
  BY <1>1, Invariance, WaitsInvariance, PTL DEF Spec, TakeKept
=============================================================================
