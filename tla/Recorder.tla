------------------------------ MODULE Recorder ------------------------------
(***************************************************************************)
(* `mimic record NAME` (cli.py, recorder.py): a script, a recording that   *)
(* Enter or the 30 seconds' cap stops, playback, "Keep this take?", its    *)
(* transcript, and the call that registers it.  `mimic say` is the call    *)
(* alone.                                                                  *)
(*                                                                         *)
(* The Enter that stops a recording is read by a thread, the answers to    *)
(* prompts by the main one, all from one terminal.  A thread whose         *)
(* recording has ended otherwise is still there.  A line goes to any of    *)
(* those that are reading when it is entered, or waits for the next one.   *)
(***************************************************************************)
EXTENDS Naturals, FiniteSets, Sequences, ClientCall

CONSTANTS
  None,
  MaxTakes,   \* bound: recordings made
  MaxAhead    \* bound: lines entered that nobody has read

ASSUME BoundsAssumption == MaxTakes \in Nat \ {0} /\ MaxAhead \in Nat /\ None \notin {0, 1}

VARIABLES
  at,         \* the main thread
  take,       \* the number of this take, and of the script shown for it
  stopped,    \* stop.is_set()
  waiters,    \* the takes whose _wait_for_enter thread has read nothing yet
  lines,      \* lines entered and read by nobody
  keep, words,   \* the lines "Keep this take?" and "Transcript" were answered with
  status,     \* the exit status
  capped, hasty, stray   \* history: a recording ran out of time; the user typed
                         \* ahead; somebody read a line that was not meant for him

recording == <<take, stopped, waiters>>
terminal == <<lines, capped, hasty, stray>>
answers == <<keep, words>>
vars == <<at, recording, terminal, answers, status, exchange>>

Prompts == {"start", "keep", "transcript"}

\* A line, and what the user saw when entering it.
Says == {"nothing", "y", "r", "words"}
Line == [says : Says, at : Prompts \cup {"recording", "playing"}, take : 1..MaxTakes]

Readers == (IF at \in Prompts THEN {0} ELSE {}) \cup waiters

Init ==
  /\ at \in {"start", "saying"}
  /\ take = 1 /\ stopped = FALSE /\ waiters = {}
  /\ lines = <<>> /\ capped = FALSE /\ hasty = FALSE /\ stray = FALSE
  /\ keep = None /\ words = None /\ status = None
  /\ NoCall

-----------------------------------------------------------------------------
(* Who reads what *)

\* Mutant: the default answer keeps the take.
KeptByDefault(line) == line.says # "r"

\* The answer begins with a y.
Kept(line) == line.says = "y"

\* The main thread goes on from its prompt.  A take that is tried again has a
\* script, a thread and an event of its own.
Answer(line) ==
  \/ /\ at = "start" /\ at' = "recording"
     /\ stopped' = FALSE /\ waiters' = waiters \cup {take}
     /\ UNCHANGED <<take, answers, status>>
  \/ /\ at = "keep" /\ line.says = "r"
     /\ at' = "start" /\ take' = take + 1
     /\ UNCHANGED <<stopped, waiters, answers, status>>
  \/ /\ at = "keep" /\ Kept(line) /\ at' = "transcript" /\ keep' = line
     /\ UNCHANGED <<recording, words, status>>
  \/ /\ at = "keep" /\ line.says # "r" /\ ~Kept(line) /\ at' = "exited" /\ status' = 0
     /\ UNCHANGED <<recording, answers>>
  \/ /\ at = "transcript" /\ at' = "registering" /\ words' = line
     /\ UNCHANGED <<recording, keep, status>>

\* Mutant: the thread reads on after it has set the event.
WakedReadingOn(t) ==
  /\ stopped' = (stopped \/ t = take)
  /\ UNCHANGED <<at, take, waiters, answers, status>>

\* A thread sets the event of its own take, and is gone.
Waked(t) ==
  /\ waiters' = waiters \ {t}
  /\ stopped' = (stopped \/ t = take)
  /\ UNCHANGED <<at, take, answers, status>>

\* What a reader waits for is what the user was shown.
Meant(reader, line) ==
  IF reader = 0 THEN line.at = at /\ line.take = take
  ELSE line.at = "recording" /\ line.take = reader

\* The threads are daemons: they are gone with the command.
Read ==
  /\ at # "exited" /\ lines # <<>> /\ lines' = Tail(lines)
  /\ \E reader \in Readers :
       /\ IF reader = 0 THEN Answer(Head(lines)) ELSE Waked(reader)
       /\ stray' = (stray \/ ~Meant(reader, Head(lines)))
  /\ UNCHANGED <<capped, hasty, exchange>>

\* A line is read as soon as somebody is there to read it.
Settled == lines = <<>> \/ Readers = {}

\* The user enters a line.  One who is not hasty does so when asked to, and
\* again only when nothing came of it.  Bounds: MaxAhead lines, MaxTakes takes.
Enter(says) ==
  /\ Settled /\ Len(lines) < MaxAhead
  /\ at \in Prompts \cup {"recording", "playing"}
  /\ says = "r" => take < MaxTakes /\ lines = <<>>
  /\ lines' = Append(lines, [says |-> says, at |-> at, take |-> take])
  /\ hasty' = (hasty \/ lines # <<>> \/ at = "playing" \/ (at = "recording" /\ stopped))
  /\ UNCHANGED <<at, recording, capped, stray, answers, status, exchange>>

-----------------------------------------------------------------------------
(* The recording *)

\* Mutant: record_until_enter waits without a timeout.
StopsIfAsked == at = "recording" /\ Settled /\ stopped

\* record_until_enter: stop.wait() returns, in time or not.
Stops == at = "recording" /\ Settled

RecordingEnds ==
  /\ Stops /\ at' = "playing"
  /\ capped' = (capped \/ ~stopped)
  /\ UNCHANGED <<recording, lines, hasty, stray, answers, status, exchange>>

Played ==
  /\ at = "playing" /\ Settled /\ at' = "keep"
  /\ UNCHANGED <<recording, terminal, answers, status, exchange>>

\* Ctrl+C, or a device that fails: the take is gone.  1 is any status but 0.
Abort ==
  /\ at # "exited" /\ at' = "exited" /\ status' = 1
  /\ UNCHANGED <<recording, terminal, answers, exchange>>

-----------------------------------------------------------------------------
(* The call *)

Calling == at \in {"registering", "saying"}

ClientStep ==
  /\ Calling
  /\ Ask \/ Connect \/ Send \/ Redirect \/ Receive(at = "registering") \/ Break
  /\ UNCHANGED <<at, recording, terminal, answers, status>>

\* The server goes on when the command has ended.
ServerStep ==
  /\ Serve("done") \/ Serve("refused")
  /\ UNCHANGED <<at, recording, terminal, answers, status>>

\* _run: an error of the library is told, and the exit status with it.
Exit ==
  /\ Calling /\ call = "ended" /\ at' = "exited"
  /\ status' = IF outcome = "returned" THEN 0 ELSE 1
  /\ UNCHANGED <<recording, terminal, answers, exchange>>

Next ==
  \/ Read \/ \E says \in Says : Enter(says)
  \/ RecordingEnds \/ Played \/ Abort
  \/ ClientStep \/ ServerStep \/ Exit

Spec == Init /\ [][Next]_vars

\* Time passes while recording, and for a call of the library.
FairSpec ==
  Spec /\ WF_vars(Read) /\ WF_vars(RecordingEnds) /\ WF_vars(ClientStep) /\ WF_vars(Exit)
-----------------------------------------------------------------------------
(* Properties *)

TypeOK ==
  /\ at \in Prompts \cup {"recording", "playing", "registering", "saying", "exited"}
  /\ take \in 1..MaxTakes /\ stopped \in BOOLEAN /\ waiters \subseteq 1..MaxTakes
  /\ lines \in Seq(Line)
  /\ keep \in Line \cup {None} /\ words \in Line \cup {None}
  /\ status \in {None, 0, 1}
  /\ capped \in BOOLEAN /\ hasty \in BOOLEAN /\ stray \in BOOLEAN
  /\ CallTypeOK

\* docs/client.md:51-57: Enter stops the recording, and a prompt gets its
\* answer: no line goes to a thread the user was not talking to.  This is until
\* a recording runs into its cap: its thread takes a line of what comes next.
LinesReachReaders == stray => capped \/ hasty

\* Only a take that was played and answered with y is registered, with the
\* words entered for it: whoever takes lines away, none gets to a wrong prompt.
RegisteredAsAnswered ==
  at = "registering" /\ ~hasty =>
    /\ keep.says = "y" /\ keep.at = "keep" /\ keep.take = take
    /\ words.at = "transcript" /\ words.take = take

\* The command exits with 0 only when the server did what it was asked.  `mimic
\* say` takes a redirection for its audio: raise_for_response lets it pass.
ExitTellsTruth ==
  status = 0 /\ call # "idle" => request = "done" \/ (request = "moved" /\ words = None)

\* Neither the microphone nor a server keeps the command for ever.
CommandGoesOn ==
  /\ at = "recording" ~> at # "recording"
  /\ Calling ~> at = "exited"
=============================================================================
