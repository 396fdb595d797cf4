--------------------------- MODULE Recorder_proofs ---------------------------
(***************************************************************************)
(* What holds of Recorder for every number of takes and of lines: a user   *)
(* who answers what is asked is heard by whom he answers, until a recording *)
(* runs into its cap; the take that is registered is the one he kept; and  *)
(* the exit status tells what the server did.                              *)
(***************************************************************************)
EXTENDS Recorder, SequenceTheorems, TLAPS

\* The thread of the take that is recorded is gone only when it was answered.
Listening == at = "recording" /\ ~stopped => take \in waiters

\* A line nobody has read yet is the answer to what is being asked.
OneAnswer ==
  ~hasty /\ lines # <<>> /\ at # "exited" =>
    /\ Len(lines) = 1 /\ lines[1].at = at /\ lines[1].take = take
    /\ at \in Prompts \cup {"recording"}
    /\ at = "recording" => ~stopped

\* No thread is left over.
NoneLeft ==
  ~hasty /\ ~capped /\ at # "exited" =>
    waiters = IF at = "recording" /\ ~stopped THEN {take} ELSE {}

\* What was entered at the prompts that come before a call, about this take.
Entered ==
  ~hasty /\ at \in {"transcript", "registering"} =>
    /\ keep.says = "y" /\ keep.at = "keep" /\ keep.take = take
    /\ at = "registering" => words.at = "transcript" /\ words.take = take

\* A call is made by a command that has nothing else left to do.
CallInv ==
  /\ call # "idle" => at \in {"registering", "saying", "exited"}
  /\ call # "ended" => outcome = "none"
  /\ at = "saying" => words = None
  /\ outcome = "returned" => request = "done" \/ (request = "moved" /\ words = None)
  /\ status # None => at = "exited"
  /\ status = 0 => call = "idle" \/ outcome = "returned"

\* Bound: another take is asked for while there is one to make.
TakeLeft ==
  \A i \in 1..Len(lines) : lines[i].says = "r" => i = 1 /\ take < MaxTakes

\* The invariant of the command.
IInv ==
  /\ TypeOK /\ TakeLeft /\ Listening /\ OneAnswer /\ NoneLeft /\ LinesReachReaders
  /\ Entered /\ CallInv
-----------------------------------------------------------------------------
(* The initial state and each action *)

LEMMA InitInv == Init => IInv
<1> SUFFICES ASSUME Init PROVE IInv OBVIOUS
<1> USE BoundsAssumption DEF BoundsAssumption, Init, NoCall, Prompts
<1>1. TypeOK
  <2>1. lines \in Seq(Line) OBVIOUS
  <2>2. CallTypeOK BY DEF CallTypeOK
  <2>3. take \in 1..MaxTakes /\ waiters \subseteq 1..MaxTakes OBVIOUS
  <2>4. keep \in Line \cup {None} /\ words \in Line \cup {None} /\ status \in {None, 0, 1}
        OBVIOUS
  <2> QED BY <2>1, <2>2, <2>3, <2>4 DEF TypeOK
<1>2. CallInv BY DEF CallInv
<1>3. TakeLeft BY DEF TakeLeft
<1>4. Listening /\ OneAnswer /\ NoneLeft /\ LinesReachReaders /\ Entered
      BY DEF Listening, OneAnswer, NoneLeft, LinesReachReaders, Entered
<1> QED BY <1>1, <1>2, <1>3, <1>4 DEF IInv

\* A line that is read, and those that wait behind it.
LEMMA HeadIsLine ==
  ASSUME IInv, lines # <<>>
  PROVE  /\ Head(lines) \in Line /\ Tail(lines) \in Seq(Line)
         /\ Head(lines) = lines[1]
         /\ Len(lines) = 1 => Tail(lines) = <<>>
         /\ Head(lines).says = "r" => take < MaxTakes
         /\ \A i \in 1..Len(Tail(lines)) : Tail(lines)[i].says # "r"
<1>1. lines \in Seq(Line) BY DEF IInv, TypeOK
<1>2. /\ Head(lines) \in Line /\ Tail(lines) \in Seq(Line)
      /\ Len(Tail(lines)) = Len(lines) - 1
      /\ \A i \in 1..Len(Tail(lines)) : Tail(lines)[i] = lines[i + 1]
      BY <1>1, HeadTailProperties
<1>3. Len(lines) \in Nat \ {0} /\ Head(lines) = lines[1] BY <1>1, EmptySeq
<1>4. Len(lines) = 1 => Tail(lines) = <<>>
  <2>1. Len(lines) = 1 => Len(Tail(lines)) = 0 BY <1>2
  <2> QED BY <1>2, <2>1, EmptySeq
<1>5. Head(lines).says = "r" => take < MaxTakes BY <1>3 DEF IInv, TakeLeft
<1>6. ASSUME NEW i \in 1..Len(Tail(lines)) PROVE Tail(lines)[i].says # "r"
  <2>1. i + 1 \in 1..Len(lines) /\ i + 1 # 1 BY <1>2, <1>3
  <2> QED BY <1>2, <2>1 DEF IInv, TakeLeft
<1> QED BY <1>2, <1>3, <1>4, <1>5, <1>6

\* What a line that is read changes.
LEMMA ReadTypes == ASSUME IInv, Read PROVE TypeOK' /\ TakeLeft'
<1> USE BoundsAssumption DEF BoundsAssumption, Prompts
<1> DEFINE line == Head(lines)
<1>0. TypeOK BY DEF IInv
<1>1. /\ line \in Line /\ Tail(lines) \in Seq(Line)
      /\ line.says = "r" => take < MaxTakes
      /\ \A i \in 1..Len(Tail(lines)) : Tail(lines)[i].says # "r"
      BY HeadIsLine DEF Read
<1>2. PICK reader \in Readers :
        /\ IF reader = 0 THEN Answer(line) ELSE Waked(reader)
        /\ stray' = (stray \/ ~Meant(reader, line))
      BY DEF Read
<1>3. stray' \in BOOLEAN BY <1>2
<1>5. CallTypeOK' BY <1>0 DEF Read, exchange, CallTypeOK, TypeOK
<1>6. lines' = Tail(lines) /\ lines' \in Seq(Line) /\ capped' \in BOOLEAN /\ hasty' \in BOOLEAN
      BY <1>0, <1>1 DEF Read, TypeOK
<1>7. /\ at' \in Prompts \cup {"recording", "playing", "registering", "saying", "exited"}
      /\ take' \in 1..MaxTakes /\ stopped' \in BOOLEAN /\ waiters' \subseteq 1..MaxTakes
      /\ keep' \in Line \cup {None} /\ words' \in Line \cup {None}
      /\ status' \in {None, 0, 1}
  <2> HIDE DEF line
  <2>1. CASE reader = 0 /\ ~(at = "keep" /\ line.says = "r")
    <3>1. Answer(line) BY <1>2, <2>1
    <3> QED BY <1>0, <1>1, <2>1, <3>1 DEF TypeOK, Answer, recording, answers
  <2>2. CASE reader # 0
    <3>1. Waked(reader) BY <1>2, <2>2
    <3> QED BY <1>0, <3>1 DEF TypeOK, Waked, answers
  <2>3. CASE reader = 0 /\ at = "keep" /\ line.says = "r"
    <3>1. take + 1 \in 1..MaxTakes BY <1>0, <1>1, <2>3 DEF TypeOK
    <3>2. Answer(line) BY <1>2, <2>3
    <3> QED BY <1>0, <2>3, <3>1, <3>2 DEF TypeOK, Answer, answers, Kept
  <2> QED BY <2>1, <2>2, <2>3
<1>8. TakeLeft' BY <1>1, <1>6 DEF TakeLeft
<1> QED BY <1>3, <1>5, <1>6, <1>7, <1>8 DEF TypeOK

\* A line that is read goes to the one it is meant for, unless one is left over.
LEMMA ReadInv ==
  ASSUME IInv, Read
  PROVE  (Listening /\ OneAnswer /\ NoneLeft /\ LinesReachReaders /\ Entered /\ CallInv)'
<1> USE DEF Prompts
<1> DEFINE line == Head(lines)
<1>0. TypeOK BY DEF IInv
<1>1. line \in Line /\ line = lines[1] /\ (Len(lines) = 1 => Tail(lines) = <<>>)
      BY HeadIsLine DEF Read
<1>2. PICK reader \in Readers :
        /\ IF reader = 0 THEN Answer(line) ELSE Waked(reader)
        /\ stray' = (stray \/ ~Meant(reader, line))
      BY DEF Read
<1>3. /\ at # "exited" /\ lines # <<>> /\ lines' = Tail(lines)
      /\ capped' = capped /\ hasty' = hasty
      /\ call' = call /\ request' = request /\ outcome' = outcome
      BY DEF Read, exchange
<1>4. ~hasty => lines' = <<>> /\ line.at = at /\ line.take = take
      BY <1>1, <1>3 DEF IInv, OneAnswer
<1> HIDE DEF line
<1>5. OneAnswer' BY <1>3, <1>4 DEF OneAnswer
<1>6. CASE reader = 0
  <2>1. Answer(line) /\ at \in Prompts BY <1>2, <1>6, <1>0 DEF Readers, TypeOK
  <2>2. Listening' BY <2>1, <1>0 DEF Answer, Listening, recording, TypeOK
  <2>3. NoneLeft'
    <3>1. ~hasty /\ ~capped => waiters = {} BY <2>1, <1>3 DEF IInv, NoneLeft
    <3> QED BY <2>1, <3>1, <1>3, <1>0 DEF Answer, NoneLeft, recording, TypeOK
  <2>4. LinesReachReaders' BY <1>2, <1>3, <1>4, <1>6 DEF IInv, LinesReachReaders, Meant
  <2>5. Entered'
    <3>1. CASE at \in {"start", "keep"} /\ at' # "transcript"
          BY <2>1, <3>1 DEF Answer, Entered, Kept
    <3>2. CASE at' = "transcript"
          BY <2>1, <3>2, <1>3, <1>4 DEF Answer, Entered, Kept, recording
    <3>3. CASE at = "transcript"
          BY <2>1, <3>3, <1>1, <1>3, <1>4 DEF IInv, Answer, Entered, recording
    <3> QED BY <2>1, <3>1, <3>2, <3>3
  <2>6. CallInv'
    <3>1. call = "idle" /\ outcome = "none" /\ status = None BY <2>1 DEF IInv, CallInv
    <3>2. /\ at' \in {"recording", "start", "transcript", "registering", "exited"}
          /\ status' # None => at' = "exited"
          BY <2>1, <3>1 DEF Answer, recording, answers
    <3> QED BY <3>1, <3>2, <1>3 DEF CallInv
  <2> QED BY <1>5, <2>2, <2>3, <2>4, <2>5, <2>6
<1>7. CASE reader # 0
  <2>1. Waked(reader) /\ reader \in waiters BY <1>2, <1>7 DEF Readers
  <2>2. /\ at' = at /\ take' = take /\ keep' = keep /\ words' = words /\ status' = status
        /\ waiters' = waiters \ {reader} /\ stopped' = (stopped \/ reader = take)
        BY <2>1 DEF Waked, answers
  <2>3. Listening' BY <2>2 DEF IInv, Listening
  <2>4. ~hasty /\ ~capped => at = "recording" /\ ~stopped /\ waiters = {take} /\ reader = take
        BY <2>1, <1>3 DEF IInv, NoneLeft
  <2>5. NoneLeft' BY <2>2, <2>4, <1>3 DEF NoneLeft
  <2>6. LinesReachReaders'
        BY <1>2, <1>3, <1>4, <1>7, <2>4 DEF IInv, LinesReachReaders, Meant
  <2>7. Entered' /\ CallInv' BY <2>2, <1>3 DEF IInv, Entered, CallInv
  <2> QED BY <1>5, <2>3, <2>5, <2>6, <2>7
<1> QED BY <1>6, <1>7

\* A user who is not hasty has said nothing that is still to be read.
LEMMA EnterInv == ASSUME IInv, NEW says \in Says, Enter(says) PROVE IInv'
<1> USE DEF Prompts
<1> DEFINE line == [says |-> says, at |-> at, take |-> take]
<1>0. TypeOK /\ TakeLeft BY DEF IInv
<1>1. /\ at' = at /\ take' = take /\ stopped' = stopped /\ waiters' = waiters
      /\ capped' = capped /\ stray' = stray /\ keep' = keep /\ words' = words
      /\ status' = status /\ call' = call /\ request' = request /\ outcome' = outcome
      /\ lines' = Append(lines, line) /\ Settled
      /\ hasty' = (hasty \/ lines # <<>> \/ at = "playing" \/ (at = "recording" /\ stopped))
      /\ at \in {"start", "keep", "transcript", "recording", "playing"}
      /\ says = "r" => take < MaxTakes /\ lines = <<>>
      BY DEF Enter, recording, answers, exchange
<1>2. line \in Line BY <1>0, <1>1 DEF Line, TypeOK
<1>3. /\ lines' \in Seq(Line) /\ Len(lines') = Len(lines) + 1 /\ lines' # <<>>
      /\ \A i \in 1..Len(lines) : lines'[i] = lines[i]
      /\ lines'[Len(lines) + 1] = line
      /\ lines = <<>> => Len(lines) = 0
      /\ Len(lines) \in Nat
      BY <1>0, <1>1, <1>2, AppendProperties DEF TypeOK
<1>4. TypeOK'
  <2>1. hasty' \in BOOLEAN BY <1>1
  <2> QED BY <1>0, <1>1, <1>3, <2>1 DEF TypeOK, CallTypeOK
<1>5. TakeLeft'
  <2>1. lines # <<>> => Len(lines) # 0 BY <1>0, EmptySeq DEF TypeOK
  <2>2. ASSUME NEW i \in 1..Len(lines'), lines'[i].says = "r" PROVE i = 1 /\ take < MaxTakes
    <3>1. CASE i \in 1..Len(lines) BY <3>1, <1>0, <1>3, <2>2 DEF TakeLeft
    <3>2. CASE i = Len(lines) + 1
      <4>1. line.says = "r" BY <3>2, <1>3, <2>2
      <4> QED BY <3>2, <4>1, <1>1, <1>3
    <3> QED BY <1>3, <3>1, <3>2
  <2> QED BY <1>1, <2>2 DEF TakeLeft
<1>6. OneAnswer'
  <2>1. ~hasty' => lines = <<>> /\ at \in Prompts \cup {"recording"} /\ (at = "recording" => ~stopped)
        BY <1>1
  <2>2. ~hasty' => Len(lines') = 1 /\ lines'[1] = line BY <1>3, <2>1
  <2>3. line.at = at /\ line.take = take OBVIOUS
  <2> HIDE DEF line
  <2> QED BY <1>1, <2>1, <2>2, <2>3 DEF OneAnswer
<1>7. (Listening /\ NoneLeft /\ LinesReachReaders /\ Entered /\ CallInv)'
      BY <1>1 DEF IInv, Listening, NoneLeft, LinesReachReaders, Entered, CallInv
<1> QED BY <1>4, <1>5, <1>6, <1>7 DEF IInv

\* A recording ends in time only when its own thread has been answered.
LEMMA RecordingEndsInv == ASSUME IInv, RecordingEnds PROVE IInv'
<1> USE DEF Prompts
<1>1. /\ at = "recording" /\ at' = "playing" /\ capped' = (capped \/ ~stopped)
      /\ take' = take /\ stopped' = stopped /\ waiters' = waiters /\ lines' = lines
      /\ hasty' = hasty /\ stray' = stray /\ keep' = keep /\ words' = words
      /\ status' = status /\ call' = call /\ request' = request /\ outcome' = outcome
      /\ Settled
      BY DEF RecordingEnds, Stops, recording, answers, exchange
<1>2. TypeOK /\ TakeLeft BY DEF IInv
<1>3. TypeOK'
  <2>1. capped' \in BOOLEAN BY <1>1
  <2> QED BY <1>1, <1>2, <2>1 DEF TypeOK, CallTypeOK
<1>4. TakeLeft' BY <1>1, <1>2 DEF TakeLeft
<1>5. OneAnswer'
  <2>1. ~hasty /\ lines # <<>> => take \in waiters BY <1>1 DEF IInv, OneAnswer, Listening
  <2>2. ~hasty => lines = <<>> BY <1>1, <2>1 DEF Settled, Readers
  <2> QED BY <1>1, <2>2 DEF OneAnswer
<1>6. (Listening /\ NoneLeft /\ LinesReachReaders /\ Entered /\ CallInv)'
      BY <1>1 DEF IInv, Listening, NoneLeft, LinesReachReaders, Entered, CallInv
<1> QED BY <1>3, <1>4, <1>5, <1>6 DEF IInv

LEMMA PlayedInv == ASSUME IInv, Played PROVE IInv'
<1> USE DEF Prompts
<1>1. /\ at = "playing" /\ at' = "keep" /\ capped' = capped
      /\ take' = take /\ stopped' = stopped /\ waiters' = waiters /\ lines' = lines
      /\ hasty' = hasty /\ stray' = stray /\ keep' = keep /\ words' = words
      /\ status' = status /\ call' = call /\ request' = request /\ outcome' = outcome
      BY DEF Played, recording, terminal, answers, exchange
<1>2. TypeOK' BY <1>1 DEF IInv, TypeOK, CallTypeOK
<1>3. TakeLeft' BY <1>1 DEF IInv, TakeLeft
<1>4. OneAnswer' BY <1>1 DEF IInv, OneAnswer
<1>5. (Listening /\ NoneLeft /\ LinesReachReaders /\ Entered /\ CallInv)'
      BY <1>1 DEF IInv, Listening, NoneLeft, LinesReachReaders, Entered, CallInv
<1> QED BY <1>2, <1>3, <1>4, <1>5 DEF IInv

LEMMA AbortInv == ASSUME IInv, Abort PROVE IInv'
<1> USE DEF Prompts
<1>1. /\ at' = "exited" /\ status' = 1 /\ capped' = capped
      /\ take' = take /\ stopped' = stopped /\ waiters' = waiters /\ lines' = lines
      /\ hasty' = hasty /\ stray' = stray /\ keep' = keep /\ words' = words
      /\ call' = call /\ request' = request /\ outcome' = outcome
      BY DEF Abort, recording, terminal, answers, exchange
<1>2. TypeOK' BY <1>1 DEF IInv, TypeOK, CallTypeOK
<1>3. TakeLeft' BY <1>1 DEF IInv, TakeLeft
<1>4. (OneAnswer /\ Listening /\ NoneLeft /\ LinesReachReaders /\ Entered /\ CallInv)'
      BY <1>1 DEF IInv, OneAnswer, Listening, NoneLeft, LinesReachReaders, Entered, CallInv
<1> QED BY <1>2, <1>3, <1>4 DEF IInv

\* What leaves the terminal alone keeps all that is about it.
LEMMA CallOnly ==
  ASSUME IInv, UNCHANGED <<recording, terminal, answers>>, at' \in {at, "exited"},
         status' \in {None, 0, 1}, CallTypeOK', CallInv'
  PROVE  IInv'
<1>1. /\ take' = take /\ stopped' = stopped /\ waiters' = waiters /\ lines' = lines
      /\ hasty' = hasty /\ stray' = stray /\ capped' = capped /\ keep' = keep /\ words' = words
      BY DEF recording, terminal, answers
<1>2. TypeOK' BY <1>1 DEF IInv, TypeOK
<1>3. TakeLeft' BY <1>1 DEF IInv, TakeLeft
<1>4. (OneAnswer /\ Listening /\ NoneLeft /\ LinesReachReaders /\ Entered)'
      BY <1>1 DEF IInv, OneAnswer, Listening, NoneLeft, LinesReachReaders, Entered, Prompts
<1> QED BY <1>2, <1>3, <1>4 DEF IInv

\* An answer is taken for what it says.
LEMMA ClientStepInv == ASSUME IInv, ClientStep PROVE IInv'
<1>1. /\ at' = at /\ status' = status /\ words' = words /\ Calling
      /\ UNCHANGED <<recording, terminal, answers>>
      /\ TypeOK /\ CallTypeOK /\ CallInv
      BY DEF ClientStep, answers, IInv, TypeOK
<1>2. at \in {"registering", "saying"} /\ status \in {None, 0, 1} BY <1>1 DEF Calling, TypeOK
<1>3. CallTypeOK' /\ CallInv'
  <2>1. CASE Ask \/ Connect \/ Send \/ Redirect
    <3>1. /\ outcome' = outcome /\ call \in {"idle", "connecting", "sending"}
          /\ call' \in {"connecting", "sending", "waiting"}
          /\ request' \in {request, "there", "moved"}
          BY <2>1 DEF Ask, Connect, Send, Redirect
    <3>2. status = None /\ None # 0
          BY <1>1, <1>2, BoundsAssumption DEF CallInv, BoundsAssumption
    <3> QED BY <1>1, <1>2, <3>1, <3>2 DEF CallTypeOK, CallInv
  <2>2. CASE Break BY <1>1, <1>2, <2>2 DEF Break, Broken, Ends, CallTypeOK, CallInv
  <2>3. CASE Receive(at = "registering")
        BY <1>1, <1>2, <2>3 DEF Receive, Raises, Ends, CallTypeOK, CallInv
  <2> QED BY <2>1, <2>2, <2>3 DEF ClientStep
<1> QED BY <1>1, <1>2, <1>3, CallOnly

\* The server's answer comes before the client's.
LEMMA ServerStepInv == ASSUME IInv, ServerStep PROVE IInv'
<1>1. /\ at' = at /\ status' = status /\ words' = words /\ call' = call /\ outcome' = outcome
      /\ request = "there" /\ request' \in {"done", "refused"}
      /\ UNCHANGED <<recording, terminal, answers>>
      BY DEF ServerStep, Serve, answers
<1>2. TypeOK /\ CallTypeOK /\ CallInv BY DEF IInv, TypeOK
<1>3. CallTypeOK' /\ CallInv' BY <1>1, <1>2 DEF CallTypeOK, CallInv
<1>4. status' \in {None, 0, 1} BY <1>1, <1>2 DEF TypeOK
<1> QED BY <1>1, <1>3, <1>4, CallOnly

\* 0 is the status of a call that returned.
LEMMA ExitInv == ASSUME IInv, Exit PROVE IInv'
<1>1. /\ at' = "exited" /\ status' = (IF outcome = "returned" THEN 0 ELSE 1)
      /\ words' = words /\ call' = call /\ outcome' = outcome /\ request' = request
      /\ UNCHANGED <<recording, terminal, answers>>
      BY DEF Exit, answers, exchange
<1>2. CallTypeOK /\ CallInv BY DEF IInv, TypeOK
<1>3. CallTypeOK' /\ CallInv' BY <1>1, <1>2 DEF CallTypeOK, CallInv
<1> QED BY <1>1, <1>3, CallOnly

\* Every step keeps the invariant.
LEMMA NextInv == IInv /\ [Next]_vars => IInv'
<1> SUFFICES ASSUME IInv, [Next]_vars PROVE IInv' OBVIOUS
<1>1. CASE Read BY <1>1, ReadTypes, ReadInv DEF IInv
<1>2. CASE \E says \in Says : Enter(says) BY <1>2, EnterInv
<1>3. CASE RecordingEnds BY <1>3, RecordingEndsInv
<1>4. CASE Played BY <1>4, PlayedInv
<1>5. CASE Abort BY <1>5, AbortInv
<1>6. CASE ClientStep BY <1>6, ClientStepInv
<1>7. CASE ServerStep BY <1>7, ServerStepInv
<1>8. CASE Exit BY <1>8, ExitInv
<1>9. CASE UNCHANGED vars
  <2>1. /\ UNCHANGED <<recording, terminal, answers>> /\ at' = at /\ status' = status
        /\ words' = words /\ call' = call /\ request' = request /\ outcome' = outcome
        BY <1>9 DEF vars, answers, exchange
  <2>2. CallTypeOK' /\ CallInv' /\ status' \in {None, 0, 1}
        BY <2>1 DEF IInv, TypeOK, CallTypeOK, CallInv
  <2> QED BY <2>1, <2>2, CallOnly
<1> QED BY <1>1, <1>2, <1>3, <1>4, <1>5, <1>6, <1>7, <1>8, <1>9 DEF Next
-----------------------------------------------------------------------------
(* Theorems *)

\* The types, who is there to read, and what was answered: cli.py:305-347.
THEOREM Inductive == Spec => []IInv
<1>1. IInv /\ [Next]_vars => IInv' BY NextInv
<1> QED BY InitInv, <1>1, PTL DEF Spec

\* Until a recording runs into its cap, a line reaches the one the user speaks to.
THEOREM ReachesReaders == Spec => []LinesReachReaders
<1>1. IInv => LinesReachReaders BY DEF IInv
<1> QED BY Inductive, <1>1, PTL

\* The take that is registered was kept, with the words entered for it (cli.py:332-346).
THEOREM RegistersTheTake == Spec => []RegisteredAsAnswered
<1>1. IInv => RegisteredAsAnswered BY DEF IInv, Entered, RegisteredAsAnswered
<1> QED BY Inductive, <1>1, PTL

\* The exit status is that of the call: _run (cli.py) and raise_for_response (_base.py).
THEOREM TellsTruth == Spec => []ExitTellsTruth
<1>1. IInv => ExitTellsTruth BY DEF IInv, CallInv, ExitTellsTruth
<1> QED BY Inductive, <1>1, PTL
=============================================================================
