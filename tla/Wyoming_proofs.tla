--------------------------- MODULE Wyoming_proofs ---------------------------
(***************************************************************************)
(* The Wyoming handler keeps what TtsStream promises, to every client, for *)
(* any texts and any number of events, sent ahead of the handler or not.   *)
(*                                                                         *)
(* What the client was told (stream) and what the handler remembers of it  *)
(* (audioStarted, aborted) agree until the audio is closed, or a request   *)
(* is begun in the middle of another: from then to the next                *)
(* SynthesizeStopped the request is spoiled.  A client that keeps events   *)
(* in order is never told so, because the handler forgets at a start or a  *)
(* Synthesize only, and is outside of a bracket by then: a fact about all  *)
(* events it has not read, each of which continues the bracket that the    *)
(* one before it leaves.                                                   *)
(*                                                                         *)
(* What a text holds is a fold over its sentences, about which the lemmas  *)
(* are proved by the least length of a counterexample.                     *)
(***************************************************************************)
EXTENDS Wyoming, SequenceTheorems, WellFoundedInduction, TLAPS

Sendable == {Start, Stop} \cup [type : {"chunk", "whole"}, text : Texts, fresh : BOOLEAN]

Within(e) == e.type \in {"chunk", "stop"}
Leaves(e) == e.type \in {"start", "chunk"}
Asks(e) == e.type \in {"stop", "whole"}

\* The handler is in a bracket, by what it will read next.
Inside == IF inbox = <<>> THEN bracket ELSE Within(inbox[1])

Orderly == slips = {}

Chain ==
  /\ \A i \in 1..(Len(inbox) - 1) : Leaves(inbox[i]) <=> Within(inbox[i + 1])
  /\ inbox # <<>> => (Leaves(inbox[Len(inbox)]) <=> bracket)

Chained ==
  /\ inbox \in Seq(Sendable) /\ bracket \in BOOLEAN
  /\ Orderly => Chain

Finishing == {"tail", "batch", "closing", "ending"}

Placed ==
  /\ at \in {"reading", "flushing"} \cup Finishing
  /\ audioStarted \in BOOLEAN /\ aborted \in BOOLEAN
  /\ Orderly /\ at = "reading" /\ ~Inside => ~audioStarted /\ ~aborted
  /\ Orderly /\ at = "flushing" => Inside
  /\ at \in {"flushing", "tail"} => ~aborted

\* What the handler remembers of a request that was not begun in another.
Remembered ==
  IF at = "ending"
  THEN stream = IF audioStarted THEN "closed" ELSE IF aborted THEN "refused" ELSE "silent"
  ELSE stream = IF audioStarted THEN "playing" ELSE IF aborted THEN "refused" ELSE "silent"

Mixed ==
  /\ stream \in {"playing", "refused", "garbled"}
  /\ audioStarted \/ aborted => stream = "garbled"

Told ==
  /\ spoiled \in BOOLEAN
  /\ IF spoiled THEN Mixed /\ ~Orderly ELSE Remembered

Count(p) == IF p THEN 1 ELSE 0

\* ahead[i] requests are still to be read once the handler has read i more events.
Counts(ahead) ==
  /\ ahead[Len(inbox)] = 0
  /\ \A i \in 1..Len(inbox) : ahead[i - 1] = ahead[i] + Count(Asks(inbox[i]))
  /\ asked = ended + ahead[0] + Count(at \in Finishing)

Owed ==
  /\ asked \in Nat /\ ended \in Nat
  /\ \E ahead \in [0..Len(inbox) -> Nat] : Counts(ahead)

IInv == Chained /\ Placed /\ Told /\ Owed

-----------------------------------------------------------------------------
(* The inbox *)

\* An event that goes on where the last one left off keeps the chain.
LEMMA ChainGrows ==
  ASSUME inbox \in Seq(Sendable), bracket \in BOOLEAN, Chain,
         NEW e \in Sendable, Within(e) <=> bracket,
         inbox' = Append(inbox, e), bracket' = Leaves(e)
  PROVE  Chain' /\ (Inside' <=> Inside)
<1>1. /\ inbox' \in Seq(Sendable) /\ inbox' # <<>> /\ Len(inbox') = Len(inbox) + 1
      /\ \A i \in 1..Len(inbox) : inbox'[i] = inbox[i]
      /\ inbox'[Len(inbox) + 1] = e
      /\ Len(inbox) \in Nat
      /\ inbox # <<>> => Len(inbox) >= 1
      /\ inbox = <<>> => Len(inbox) = 0
  OBVIOUS
<1>2. ASSUME NEW i \in 1..(Len(inbox') - 1) PROVE Leaves(inbox'[i]) <=> Within(inbox'[i + 1])
  <2>1. CASE i < Len(inbox)
    BY <1>1, <2>1 DEF Chain
  <2>2. CASE i = Len(inbox)
    BY <1>1, <2>2 DEF Chain
  <2> QED
    BY <1>1, <2>1, <2>2
<1>3. Inside' <=> Inside
  BY <1>1 DEF Inside
<1> QED
  BY <1>1, <1>2, <1>3 DEF Chain

\* The event read says whether the handler is in a bracket after it.
LEMMA ChainShrinks ==
  ASSUME inbox \in Seq(Sendable), bracket \in BOOLEAN, Chain,
         inbox # <<>>, inbox' = Tail(inbox), bracket' = bracket
  PROVE  /\ Chain'
         /\ Inside <=> Within(Head(inbox))
         /\ Inside' <=> Leaves(Head(inbox))
<1>1. /\ inbox' \in Seq(Sendable) /\ Len(inbox') = Len(inbox) - 1
      /\ \A i \in 1..Len(inbox') : inbox'[i] = inbox[i + 1]
      /\ Len(inbox) \in Nat /\ Len(inbox) >= 1 /\ Head(inbox) = inbox[1]
      /\ inbox' = <<>> <=> Len(inbox) = 1
  <2>1. /\ Tail(inbox) \in Seq(Sendable) /\ Len(Tail(inbox)) = Len(inbox) - 1
        /\ Len(inbox) \in Nat /\ Len(inbox) >= 1 /\ Head(inbox) = inbox[1]
    OBVIOUS
  <2>2. \A i \in 1..Len(Tail(inbox)) : Tail(inbox)[i] = inbox[i + 1]
    OBVIOUS
  <2>3. Tail(inbox) = <<>> <=> Len(Tail(inbox)) = 0
    BY <2>1, EmptySeq
  <2> QED
    BY <2>1, <2>2, <2>3
<1>2. ASSUME NEW i \in 1..(Len(inbox') - 1) PROVE Leaves(inbox'[i]) <=> Within(inbox'[i + 1])
  BY <1>1 DEF Chain
<1>3. ASSUME inbox' # <<>> PROVE Leaves(inbox'[Len(inbox')]) <=> bracket'
  BY <1>1, <1>3 DEF Chain
<1>4. Inside' <=> Leaves(inbox[1])
  <2>1. CASE inbox' = <<>>
    BY <1>1, <2>1 DEF Chain, Inside
  <2>2. CASE inbox' # <<>>
    BY <1>1, <2>2 DEF Chain, Inside
  <2> QED
    BY <2>1, <2>2
<1> QED
  BY <1>1, <1>2, <1>3, <1>4 DEF Chain, Inside

\* A request sent is one more to answer.
LEMMA OwedGrows ==
  ASSUME Chained, Owed, NEW e \in Sendable, inbox' = Append(inbox, e), at' = at, ended' = ended,
         asked' = IF Asks(e) THEN asked + 1 ELSE asked
  PROVE  Owed'
<1>1. PICK n \in Nat : n = Len(inbox)
  BY DEF Chained
<1>2. /\ Len(inbox') = n + 1
      /\ \A i \in 1..n : inbox'[i] = inbox[i]
      /\ inbox'[n + 1] = e
  BY <1>1 DEF Chained
<1>3. PICK ahead \in [0..n -> Nat] : Counts(ahead)
  BY <1>1 DEF Owed
<1>4. PICK one \in Nat : one = Count(Asks(e))
  BY DEF Count
<1>5. PICK more \in [0..(n + 1) -> Nat] :
        /\ more[n + 1] = 0
        /\ \A i \in 0..n : more[i] = ahead[i] + one
  <2> DEFINE f == [i \in 0..(n + 1) |-> IF i = n + 1 THEN 0 ELSE ahead[i] + one]
  <2>1. ASSUME NEW i \in 0..(n + 1) PROVE (IF i = n + 1 THEN 0 ELSE ahead[i] + one) \in Nat
    <3>1. CASE i = n + 1
      BY <3>1
    <3>2. CASE i # n + 1
      <4>1. i \in 0..n
        BY <3>2
      <4>2. ahead[i] \in Nat
        BY <4>1
      <4> QED
        BY <3>2, <4>2
    <3> QED
      BY <3>1, <3>2
  <2>2. f \in [0..(n + 1) -> Nat]
    BY <2>1
  <2>3. f[n + 1] = 0 /\ \A i \in 0..n : f[i] = ahead[i] + one
    OBVIOUS
  <2> HIDE DEF f
  <2> QED
    BY <2>2, <2>3
<1>6. /\ ahead[n] = 0
      /\ \A i \in 1..n : ahead[i - 1] = ahead[i] + Count(Asks(inbox[i]))
      /\ asked = ended + ahead[0] + Count(at \in Finishing)
      /\ asked \in Nat /\ ended \in Nat
  BY <1>1, <1>3 DEF Counts, Owed
<1>7. ASSUME NEW i \in 1..(n + 1) PROVE more[i - 1] = more[i] + Count(Asks(inbox'[i]))
  <2>1. CASE i = n + 1
    <3>1. more[n] = one /\ more[i - 1] = more[n]
      BY <2>1, <1>5, <1>6
    <3> QED
      BY <2>1, <3>1, <1>2, <1>4, <1>5
  <2>2. CASE i # n + 1
    <3>1. i \in 1..n /\ i - 1 \in 0..n /\ i \in 0..n
      BY <2>2
    <3>2. PICK c \in Nat : c = Count(Asks(inbox[i]))
      BY DEF Count
    <3>3. more[i - 1] = ahead[i - 1] + one /\ more[i] = ahead[i] + one
      BY <3>1, <1>5
    <3>4. ahead[i - 1] = ahead[i] + c /\ Count(Asks(inbox'[i])) = c
      BY <3>1, <3>2, <1>2, <1>6
    <3>5. ahead[i] \in Nat
      BY <3>1
    <3>6. more[i - 1] = more[i] + c
      BY <3>1, <3>3, <3>4, <3>5
    <3> QED
      BY <3>4, <3>6
  <2> QED
    BY <2>1, <2>2
<1>8. asked' = ended' + more[0] + Count(at' \in Finishing) /\ asked' \in Nat /\ ended' \in Nat
  <2>1. asked' = asked + one
    BY <1>4, <1>6 DEF Count
  <2>2. PICK c \in Nat : c = Count(at \in Finishing)
    BY DEF Count
  <2>3. more[0] = ahead[0] + one /\ ahead[0] \in Nat
    BY <1>5
  <2>4. asked + one = ended + more[0] + c /\ asked + one \in Nat
    <3>1. PICK x \in Nat : x = ahead[0] /\ more[0] = x + one
      BY <2>3
    <3>2. asked = ended + x + c /\ ended \in Nat
      BY <1>6, <2>2, <3>1
    <3>3. asked + one = ended + (x + one) + c /\ asked + one \in Nat
      BY <3>2
    <3> QED
      BY <3>1, <3>3
  <2>5. Count(at' \in Finishing) = c
    BY <2>2
  <2> QED
    BY <1>6, <2>1, <2>4, <2>5
<1>9. Counts(more)'
  BY <1>2, <1>5, <1>7, <1>8 DEF Counts
<1> QED
  BY <1>2, <1>8, <1>9 DEF Owed

\* The handler is at work on a request once it has read the event that asks.
LEMMA OwedShifts ==
  ASSUME Chained, Owed, inbox # <<>>, inbox' = Tail(inbox), at = "reading",
         at' \in Finishing <=> Asks(Head(inbox)), UNCHANGED <<asked, ended>>
  PROVE  Owed'
<1>1. PICK n \in Nat : n = Len(inbox) - 1
  BY DEF Chained
<1>2. /\ Len(inbox') = n /\ Len(inbox) = n + 1
      /\ \A i \in 1..n : inbox'[i] = inbox[i + 1]
      /\ Head(inbox) = inbox[1]
  BY <1>1 DEF Chained
<1>3. PICK ahead \in [0..(n + 1) -> Nat] : Counts(ahead)
  BY <1>2 DEF Owed
<1>4. PICK rest \in [0..n -> Nat] : \A i \in 0..n : rest[i] = ahead[i + 1]
  <2> DEFINE f == [i \in 0..n |-> ahead[i + 1]]
  <2>1. f \in [0..n -> Nat] /\ \A i \in 0..n : f[i] = ahead[i + 1]
    OBVIOUS
  <2> HIDE DEF f
  <2> QED
    BY <2>1
<1>5. /\ ahead[n + 1] = 0
      /\ \A i \in 1..(n + 1) : ahead[i - 1] = ahead[i] + Count(Asks(inbox[i]))
      /\ asked = ended + ahead[0] + Count(at \in Finishing)
      /\ asked \in Nat /\ ended \in Nat
  BY <1>2, <1>3 DEF Counts, Owed
<1>6. ASSUME NEW i \in 1..n PROVE rest[i - 1] = rest[i] + Count(Asks(inbox'[i]))
  <2>1. i - 1 \in 0..n /\ i \in 0..n /\ i + 1 \in 1..(n + 1) /\ (i - 1) + 1 = i /\ (i + 1) - 1 = i
    OBVIOUS
  <2>2. rest[i - 1] = ahead[i] /\ rest[i] = ahead[i + 1]
    BY <2>1, <1>4
  <2>3. ahead[i] = ahead[i + 1] + Count(Asks(inbox[i + 1]))
    BY <2>1, <1>5
  <2> QED
    BY <2>2, <2>3, <1>2
<1>7. asked' = ended' + rest[0] + Count(at' \in Finishing)
  <2>1. Count(at \in Finishing) = 0 /\ Count(at' \in Finishing) = Count(Asks(inbox[1]))
    BY <1>2 DEF Count, Finishing
  <2>2. rest[0] = ahead[1] /\ ahead[1] \in Nat
    BY <1>4
  <2>3. ahead[0] = ahead[1] + Count(Asks(inbox[1]))
    BY <1>5
  <2>4. PICK c \in Nat : c = Count(Asks(inbox[1]))
    BY DEF Count
  <2> QED
    BY <1>5, <2>1, <2>2, <2>3, <2>4
<1>8. Counts(rest)'
  BY <1>2, <1>4, <1>5, <1>6, <1>7 DEF Counts
<1> QED
  BY <1>2, <1>5, <1>8 DEF Owed

\* A request ended was owed, and is owed no more.
LEMMA OwedEnds ==
  ASSUME Chained, Owed, at \in Finishing, at' = "reading", ended' = ended + 1,
         UNCHANGED <<inbox, asked>>
  PROVE  Owed' /\ ended < asked
<1>1. PICK ahead \in [0..Len(inbox) -> Nat] : Counts(ahead)
  BY DEF Owed
<1>2. ahead[0] \in Nat
  BY <1>1 DEF Chained
<1>3. asked = ended + ahead[0] + 1 /\ asked \in Nat /\ ended \in Nat
  BY <1>1 DEF Counts, Count, Owed
<1>4. Counts(ahead)'
  BY <1>1, <1>2, <1>3 DEF Counts, Count, Finishing
<1> QED
  BY <1>1, <1>2, <1>3, <1>4 DEF Owed

\* A step of the handler between two events answers nothing.
LEMMA OwedStays ==
  ASSUME Owed, UNCHANGED <<inbox, asked, ended>>, at' \in Finishing <=> at \in Finishing
  PROVE  Owed'
BY DEF Owed, Counts

-----------------------------------------------------------------------------
(* The steps *)

Unheard == UNCHANGED <<stream, asked, ended, slips, spoiled>>
Promises == Promised!Next \/ Unheard

LEMMA InitInv == Init => IInv
<1> SUFFICES ASSUME Init PROVE IInv
  OBVIOUS
<1> USE DEF Init, Fresh
<1>1. Chained
  <2>1. inbox \in Seq(Sendable) /\ Len(inbox) = 0 /\ bracket \in BOOLEAN
    BY EmptySeq
  <2> QED
    BY <2>1 DEF Chained, Chain
<1>2. Placed /\ Told
  BY DEF Placed, Told, Remembered, Finishing
<1>3. Owed
  <2>1. Len(inbox) = 0 /\ [i \in 0..0 |-> 0] \in [0..0 -> Nat]
    OBVIOUS
  <2>2. Counts([i \in 0..0 |-> 0])
    BY <2>1 DEF Counts, Count, Finishing
  <2> QED
    BY <2>1, <2>2 DEF Owed
<1> QED
  BY <1>1, <1>2, <1>3 DEF IInv

\* The client sends one event more.  As long as it is orderly, that one goes on
\* where its last one left off.
LEMMA Sends ==
  ASSUME IInv, NEW e \in Sendable, Send(e), bracket' \in BOOLEAN,
         InPlace(e.type) => (bracket' <=> Leaves(e))
  PROVE  IInv' /\ Promises
<1>1. /\ inbox' = Append(inbox, e) /\ asked' = (IF Asks(e) THEN asked + 1 ELSE asked)
      /\ UNCHANGED <<at, audioStarted, aborted, stream, ended, spoiled>>
  BY DEF Send, Asks, state, history
<1>2. slips' = IF InPlace(e.type) THEN slips ELSE slips \cup {e.type}
  BY DEF Send
<1>3. Orderly' => Orderly /\ InPlace(e.type)
  BY <1>2 DEF Orderly
<1>4. inbox \in Seq(Sendable) /\ bracket \in BOOLEAN /\ (Orderly => Chain)
  BY DEF IInv, Chained
<1>5. ASSUME Orderly' PROVE Chain' /\ (Inside' <=> Inside)
  <2>1. (Within(e) <=> bracket) /\ bracket' = Leaves(e)
    <3>1. InPlace(e.type) /\ (bracket' <=> Leaves(e))
      BY <1>3, <1>5
    <3>2. Leaves(e) \in BOOLEAN
      BY DEF Leaves
    <3> QED BY <3>1, <3>2, <1>4 DEF InPlace, Within
  <2> QED BY <1>1, <1>3, <1>4, <1>5, <2>1, ChainGrows
<1>6. inbox' \in Seq(Sendable)
  BY <1>1, <1>4
<1>7. Chained'
  BY <1>5, <1>6 DEF Chained
<1>8. Owed'
  BY <1>1, OwedGrows DEF IInv
<1>9. Placed' /\ Told'
  <2>1. ~Orderly => ~Orderly'
    BY <1>3
  <2>2. Placed'
    BY <1>1, <1>3, <1>5 DEF IInv, Placed
  <2>3. Told'
    BY <1>1, <2>1 DEF IInv, Told, Mixed, Remembered
  <2> QED BY <2>2, <2>3
<1>10. Promises
  <2>1. (slips' = {}) \in {slips = {}, FALSE}
    BY <1>3 DEF Orderly
  <2>2. asked' \in {asked, asked + 1}
    BY <1>1
  <2>3. UNCHANGED <<stream, ended, spoiled>>
    BY <1>1
  <2> QED
    BY Zenon, <2>1, <2>2, <2>3 DEF Promises, Promised!Next, Promised!Send
<1> QED
  BY <1>7, <1>8, <1>9, <1>10 DEF IInv

\* Between two events the handler leaves the inbox, and what is owed, alone.
LEMMA Works ==
  ASSUME IInv, UNCHANGED <<inbox, bracket, slips, asked, ended>>, at' \in Finishing <=> at \in Finishing
  PROVE  Chained' /\ Owed' /\ (Inside' <=> Inside) /\ (Orderly' <=> Orderly)
<1>1. Owed'
  BY OwedStays DEF IInv
<1> QED
  BY <1>1 DEF IInv, Chained, Chain, Inside, Orderly

\* A sentence is spoken or fails: the client is told what the handler remembers,
\* or makes no sense of it when the request was begun in another.
LEMMA Emits ==
  ASSUME IInv, NEW letters, SynthAndEmit(letters), ~aborted, at # "ending", at' # "ending"
  PROVE  /\ UNCHANGED <<inbox, bracket, slips, asked, ended>>
         /\ audioStarted' \in BOOLEAN /\ aborted' \in BOOLEAN
         /\ Told' /\ Promises
<1>1. /\ audioStarted \in BOOLEAN /\ aborted \in BOOLEAN /\ spoiled \in BOOLEAN
      /\ ~spoiled => stream = (IF audioStarted THEN "playing" ELSE "silent")
      /\ spoiled => Mixed /\ ~Orderly
  BY DEF IInv, Told, Remembered, Placed
<1>2. UNCHANGED <<inbox, bracket, slips, asked, ended, spoiled>>
  BY DEF SynthAndEmit, client
<1>3. CASE Spoken(letters)
  <2>1. UNCHANGED aborted /\ audioStarted' = TRUE
    BY <1>1, <1>3 DEF Spoken
  <2>2. CASE audioStarted
    <3>1. stream' = stream
      BY <1>3, <2>2 DEF Spoken
    <3>2. Told'
      BY <1>1, <1>2, <2>1, <2>2, <3>1 DEF Told, Remembered, Mixed, Orderly
    <3> QED BY <1>1, <1>2, <2>1, <3>1, <3>2 DEF Promises, Unheard
  <2>3. CASE ~audioStarted
    <3>1. stream' = Hears("AudioStart")
      BY <1>3, <2>3 DEF Spoken
    <3>2. CASE spoiled
      <4>1. stream' = "garbled"
        BY <1>1, <3>1, <3>2 DEF Mixed, Hears
      <4>2. Told'
        BY <1>1, <1>2, <3>2, <4>1 DEF Told, Mixed, Orderly
      <4> QED BY <1>1, <1>2, <2>1, <3>2, <4>1, <4>2 DEF Promises, Promised!Next, Promised!Garble
    <3>3. CASE ~spoiled
      <4>1. stream = "silent" /\ stream' = "playing"
        BY <1>1, <2>3, <3>1, <3>3 DEF Hears
      <4>2. Told'
        BY <1>1, <1>2, <2>1, <3>3, <4>1 DEF Told, Remembered
      <4> QED BY <1>1, <1>2, <2>1, <3>3, <4>1, <4>2 DEF Promises, Promised!Next, Promised!Play, Promised!Tell
    <3> QED BY <3>2, <3>3
  <2> QED
    BY <2>2, <2>3
<1>4. CASE Failed
  <2>1. aborted' = TRUE /\ UNCHANGED audioStarted
    BY <1>4 DEF Failed
  <2>2. CASE audioStarted
    <3>1. stream' = stream
      BY <1>4, <2>2 DEF Failed
    <3>2. Told'
      BY <1>1, <1>2, <2>1, <2>2, <3>1 DEF Told, Remembered, Mixed, Orderly
    <3> QED BY <1>1, <1>2, <2>1, <3>1, <3>2 DEF Promises, Unheard
  <2>3. CASE ~audioStarted
    <3>1. stream' = Hears("Error")
      BY <1>4, <2>3 DEF Failed
    <3>2. CASE spoiled
      <4>1. stream' = "garbled"
        BY <1>1, <3>1, <3>2 DEF Mixed, Hears
      <4>2. Told'
        BY <1>1, <1>2, <3>2, <4>1 DEF Told, Mixed, Orderly
      <4> QED BY <1>1, <1>2, <2>1, <3>2, <4>1, <4>2 DEF Promises, Promised!Next, Promised!Garble
    <3>3. CASE ~spoiled
      <4>1. stream = "silent" /\ stream' = "refused"
        BY <1>1, <2>3, <3>1, <3>3 DEF Hears
      <4>2. Told'
        BY <1>1, <1>2, <2>1, <2>3, <3>3, <4>1 DEF Told, Remembered
      <4> QED BY <1>1, <1>2, <2>1, <3>3, <4>1, <4>2 DEF Promises, Promised!Next, Promised!Refuse, Promised!Tell
    <3> QED BY <3>2, <3>3
  <2> QED
    BY <2>2, <2>3
<1> QED
  BY <1>2, <1>3, <1>4 DEF SynthAndEmit

\* Reading an event moves the handler into or out of a bracket with the client.
LEMMA Reads ==
  ASSUME IInv, NEW type, Read(type), at' \in Finishing <=> type \in {"stop", "whole"}
  PROVE  /\ Chained' /\ Owed' /\ UNCHANGED heard /\ UNCHANGED slips /\ (Orderly' <=> Orderly)
         /\ Orderly => (Inside <=> type \in {"chunk", "stop"})
         /\ Orderly => (Inside' <=> type \in {"start", "chunk"})
<1>1. /\ at = "reading" /\ inbox # <<>> /\ Head(inbox).type = type
      /\ inbox' = Tail(inbox) /\ bracket' = bracket /\ slips' = slips /\ UNCHANGED heard
  BY DEF Read
<1>2. inbox \in Seq(Sendable) /\ bracket \in BOOLEAN /\ (Orderly => Chain) /\ (Orderly' <=> Orderly)
  BY <1>1 DEF IInv, Chained, Orderly
<1>3. ASSUME Orderly
      PROVE  Chain' /\ (Inside <=> Within(Head(inbox))) /\ (Inside' <=> Leaves(Head(inbox)))
  BY <1>1, <1>2, <1>3, ChainShrinks
<1>4. inbox' \in Seq(Sendable)
  BY <1>1, <1>2
<1>5. Chained'
  BY <1>1, <1>2, <1>3, <1>4 DEF Chained
<1>6. Owed'
  BY <1>1, OwedShifts DEF IInv, Asks, heard
<1> QED
  BY <1>1, <1>2, <1>3, <1>5, <1>6 DEF Within, Leaves

\* A request begun while another is heard spoils it, and is out of order.
LEMMA Begins ==
  ASSUME IInv, NEW type \in {"start", "whole"}, Read(type), Begin, at' # "ending",
         at' \in Finishing <=> type = "whole"
  PROVE  Chained' /\ Owed' /\ Told' /\ Promises /\ (Orderly' <=> Orderly)
<1>1. at' \in Finishing <=> type \in {"stop", "whole"}
  OBVIOUS
<1>2. /\ Chained' /\ Owed' /\ UNCHANGED heard /\ UNCHANGED slips /\ (Orderly' <=> Orderly)
      /\ Orderly => (Inside <=> type \in {"chunk", "stop"})
  BY <1>1, Reads
<1>3. at = "reading" /\ (Orderly => ~Inside)
  BY <1>2 DEF Read
<1>4. /\ ~audioStarted' /\ ~aborted' /\ spoiled' = (spoiled \/ stream # "silent")
      /\ UNCHANGED <<stream, asked, ended>>
  BY <1>2 DEF Begin, Reset, heard
<1>5. CASE spoiled
  <2>1. spoiled' = spoiled /\ Mixed /\ ~Orderly
    BY <1>4, <1>5 DEF IInv, Told
  <2>2. Told'
    BY <1>2, <1>4, <1>5, <2>1 DEF Told, Mixed
  <2> QED BY <1>2, <1>4, <2>1, <2>2 DEF Promises, Unheard
<1>6. CASE ~spoiled /\ stream = "silent"
  <2>1. spoiled' = FALSE /\ spoiled = FALSE
    BY <1>4, <1>6 DEF IInv, Told
  <2>2. Told'
    BY <1>2, <1>4, <1>6, <2>1 DEF Told, Remembered
  <2> QED BY <1>2, <1>4, <2>1, <2>2 DEF Promises, Unheard
<1>7. CASE ~spoiled /\ stream # "silent"
  <2>1. stream \in {"playing", "refused"} /\ (audioStarted \/ aborted)
    BY <1>3, <1>7 DEF IInv, Told, Remembered
  <2>2. ~Orderly
    BY <1>3, <2>1 DEF IInv, Placed
  <2>3. spoiled' = TRUE
    BY <1>4, <1>7
  <2>4. Told'
    BY <1>2, <1>4, <2>1, <2>2, <2>3 DEF Told, Mixed
  <2>5. Promised!Overtake
    BY <1>2, <1>4, <1>7, <2>2, <2>3 DEF Promised!Overtake, Orderly
  <2> QED BY <1>2, <2>4, <2>5 DEF Promises, Promised!Next
<1> QED
  BY <1>5, <1>6, <1>7

\* A new connection starts as the first one did.
LEMMA Reconnects ==
  ASSUME Hangup
  PROVE  IInv'
<1> USE DEF Hangup
<1>1. Chained'
  <2>1. inbox' \in Seq(Sendable) /\ Len(inbox') = 0 /\ bracket' \in BOOLEAN
    BY EmptySeq
  <2> QED
    BY <2>1 DEF Chained, Chain
<1>2. Placed' /\ Told'
  BY DEF Placed, Told, Remembered, Finishing
<1>3. Owed'
  <2>1. Len(inbox') = 0 /\ [i \in 0..0 |-> 0] \in [0..0 -> Nat]
    OBVIOUS
  <2>2. Counts([i \in 0..0 |-> 0])'
    BY <2>1 DEF Counts, Count, Finishing
  <2> QED
    BY <2>1, <2>2 DEF Owed
<1> QED
  BY <1>1, <1>2, <1>3 DEF IInv

LEMMA Step ==
  ASSUME IInv, [Next]_vars
  PROVE  IInv' /\ Promises
<1>1. ASSUME SendStart PROVE IInv' /\ Promises
  <2>1. Start \in Sendable /\ Leaves(Start)
    BY DEF Sendable, Start, Leaves
  <2>2. Send(Start) /\ bracket' = TRUE
    BY <1>1 DEF SendStart
  <2> QED
    BY <2>1, <2>2, Sends
<1>2. ASSUME SendChunk PROVE IInv' /\ Promises
  <2>1. PICK t \in Texts, fresh \in BOOLEAN : Send([type |-> "chunk", text |-> t, fresh |-> fresh])
    BY <1>2 DEF SendChunk
  <2> DEFINE e == [type |-> "chunk", text |-> t, fresh |-> fresh]
  <2>2. e \in Sendable /\ e.type = "chunk" /\ Leaves(e)
    BY DEF Sendable, Leaves
  <2>3. bracket' = bracket /\ bracket \in BOOLEAN
    BY <1>2 DEF SendChunk, IInv, Chained
  <2> HIDE DEF e
  <2>4. Send(e)
    BY <2>1 DEF e
  <2>5. InPlace(e.type) => bracket
    BY <2>2, <2>3 DEF InPlace
  <2> QED
    BY <2>2, <2>3, <2>4, <2>5, Sends
<1>3. ASSUME SendStop PROVE IInv' /\ Promises
  <2>1. Stop \in Sendable /\ ~Leaves(Stop)
    BY DEF Sendable, Stop, Leaves
  <2>2. Send(Stop) /\ bracket' = FALSE
    BY <1>3 DEF SendStop
  <2> QED
    BY <2>1, <2>2, Sends
<1>4. ASSUME SendWhole PROVE IInv' /\ Promises
  <2>1. PICK t \in Texts : Send([type |-> "whole", text |-> t, fresh |-> TRUE])
    BY <1>4 DEF SendWhole
  <2> DEFINE e == [type |-> "whole", text |-> t, fresh |-> TRUE]
  <2>2. e \in Sendable /\ e.type = "whole" /\ ~Leaves(e)
    BY DEF Sendable, Leaves
  <2>3. bracket' = bracket /\ bracket \in BOOLEAN
    BY <1>4 DEF SendWhole, IInv, Chained
  <2> HIDE DEF e
  <2>4. Send(e)
    BY <2>1 DEF e
  <2>5. InPlace(e.type) => ~bracket
    BY <2>2, <2>3 DEF InPlace
  <2> QED
    BY <2>2, <2>3, <2>4, <2>5, Sends
<1>5. ASSUME Hangup PROVE IInv' /\ Promises
  <2>1. /\ stream' = "silent" /\ asked' = 0 /\ ended' = 0 /\ spoiled' = FALSE
        /\ (slips' = {}) = TRUE
    BY <1>5 DEF Hangup
  <2>2. Promises
    BY <2>1 DEF Promises, Promised!Next, Promised!Hangup
  <2> QED
    BY <1>5, <2>2, Reconnects
<1>6. ASSUME ReadStart PROVE IInv' /\ Promises
  <2>1. Read("start") /\ Begin /\ at = "reading" /\ at' = at
    BY <1>6 DEF ReadStart, Read
  <2>2. Chained' /\ Owed' /\ Told' /\ Promises
    BY <2>1, Begins DEF Finishing
  <2>3. Placed'
    BY <2>1 DEF IInv, Placed, Begin, Reset, Finishing
  <2> QED
    BY <2>2, <2>3 DEF IInv
<1>7. ASSUME ReadChunk PROVE IInv' /\ Promises
  <2>1. /\ Read("chunk") /\ at = "reading" /\ UNCHANGED <<audioStarted, aborted, spoiled>>
        /\ at' = IF aborted THEN "reading" ELSE "flushing"
    BY <1>7 DEF ReadChunk, Read
  <2>2. /\ Chained' /\ Owed' /\ UNCHANGED heard /\ UNCHANGED slips
        /\ (Orderly' <=> Orderly) /\ (Orderly => Inside')
    BY <2>1, Reads DEF Finishing
  <2>3. Placed' /\ Told' /\ Unheard
    BY <2>1, <2>2 DEF IInv, Placed, Told, Mixed, Remembered, Unheard, heard, Finishing
  <2> QED
    BY <2>2, <2>3 DEF IInv, Promises
<1>8. ASSUME ReadStop PROVE IInv' /\ Promises
  <2>1. /\ Read("stop") /\ at = "reading" /\ UNCHANGED <<audioStarted, aborted, spoiled>>
        /\ at' \in {"tail", "closing"} /\ (at' = "tail" => ~aborted)
    BY <1>8 DEF ReadStop, Read, state, history
  <2>2. Chained' /\ Owed' /\ UNCHANGED heard /\ UNCHANGED slips /\ (Orderly' <=> Orderly)
    BY <2>1, Reads DEF Finishing
  <2>3. Placed' /\ Told' /\ Unheard
    BY <2>1, <2>2 DEF IInv, Placed, Told, Mixed, Remembered, Unheard, heard, Finishing
  <2> QED
    BY <2>2, <2>3 DEF IInv, Promises
<1>9. ASSUME ReadWhole PROVE IInv' /\ Promises
  <2>1. Read("whole") /\ Begin /\ at = "reading" /\ at' = "batch"
    BY <1>9 DEF ReadWhole, Read
  <2>2. Chained' /\ Owed' /\ Told' /\ Promises
    BY <2>1, Begins DEF Finishing
  <2>3. Placed'
    BY <2>1 DEF IInv, Placed, Begin, Reset, Finishing
  <2> QED
    BY <2>2, <2>3 DEF IInv
<1>10. ASSUME FlushSentence PROVE IInv' /\ Promises
  <2>1. /\ at = "flushing" /\ SynthAndEmit(Head(buffer)) /\ at' \in {"reading", "flushing"}
        /\ at' = IF aborted' THEN "reading" ELSE "flushing"
    BY <1>10 DEF FlushSentence
  <2>2. ~aborted /\ (Orderly => Inside)
    BY <2>1 DEF IInv, Placed
  <2>3. /\ UNCHANGED <<inbox, bracket, slips, asked, ended>>
        /\ audioStarted' \in BOOLEAN /\ aborted' \in BOOLEAN
        /\ Told' /\ Promises
    BY <2>1, <2>2, Emits
  <2>4. Chained' /\ Owed' /\ (Inside' <=> Inside) /\ (Orderly' <=> Orderly)
    BY <2>1, <2>3, Works DEF Finishing
  <2>5. Placed'
    BY <2>1, <2>2, <2>3, <2>4 DEF Placed, Finishing
  <2> QED
    BY <2>3, <2>4, <2>5 DEF IInv
<1>11. ASSUME FlushNoMore PROVE IInv' /\ Promises
  <2>1. /\ at = "flushing" /\ at' = "reading" /\ UNCHANGED <<audioStarted, aborted>>
        /\ Unheard /\ UNCHANGED <<inbox, bracket, slips, asked, ended>>
    BY <1>11 DEF FlushNoMore, client, state, heard, history, Unheard
  <2>2. Chained' /\ Owed' /\ (Inside' <=> Inside) /\ (Orderly' <=> Orderly)
    BY <2>1, Works DEF Finishing
  <2>3. Placed' /\ Told'
    BY <2>1, <2>2 DEF IInv, Placed, Told, Mixed, Remembered, Finishing, Unheard
  <2> QED
    BY <2>1, <2>2, <2>3 DEF IInv, Promises
<1>12. ASSUME FlushTail PROVE IInv' /\ Promises
  <2>1. at = "tail" /\ SynthAndEmit(Letters(buffer)) /\ at' = "closing"
    BY <1>12 DEF FlushTail
  <2>2. ~aborted
    BY <2>1 DEF IInv, Placed
  <2>3. /\ UNCHANGED <<inbox, bracket, slips, asked, ended>>
        /\ audioStarted' \in BOOLEAN /\ aborted' \in BOOLEAN
        /\ Told' /\ Promises
    BY <2>1, <2>2, Emits
  <2>4. Chained' /\ Owed' /\ (Inside' <=> Inside) /\ (Orderly' <=> Orderly)
    BY <2>1, <2>3, Works DEF Finishing
  <2>5. Placed'
    BY <2>1, <2>3, <2>4 DEF Placed, Finishing
  <2> QED
    BY <2>3, <2>4, <2>5 DEF IInv
<1>13. ASSUME SpeakBatch PROVE IInv' /\ Promises
  <2>1. at = "batch" /\ SynthAndEmit(Head(batch)) /\ at' = "batch" /\ ~aborted
    BY <1>13 DEF SpeakBatch
  <2>3. /\ UNCHANGED <<inbox, bracket, slips, asked, ended>>
        /\ audioStarted' \in BOOLEAN /\ aborted' \in BOOLEAN
        /\ Told' /\ Promises
    BY <2>1, Emits
  <2>4. Chained' /\ Owed' /\ (Inside' <=> Inside) /\ (Orderly' <=> Orderly)
    BY <2>1, <2>3, Works DEF Finishing
  <2>5. Placed'
    BY <2>1, <2>3, <2>4 DEF Placed, Finishing
  <2> QED
    BY <2>3, <2>4, <2>5 DEF IInv
<1>14. ASSUME BatchDone PROVE IInv' /\ Promises
  <2>1. /\ at = "batch" /\ at' = "closing" /\ UNCHANGED <<audioStarted, aborted>>
        /\ Unheard /\ UNCHANGED <<inbox, bracket, slips, asked, ended>>
    BY <1>14 DEF BatchDone, client, state, heard, history, Unheard
  <2>2. Chained' /\ Owed' /\ (Inside' <=> Inside) /\ (Orderly' <=> Orderly)
    BY <2>1, Works DEF Finishing
  <2>3. Placed' /\ Told'
    BY <2>1, <2>2 DEF IInv, Placed, Told, Mixed, Remembered, Finishing, Unheard
  <2> QED
    BY <2>1, <2>2, <2>3 DEF IInv, Promises
<1>15. ASSUME CloseAudio PROVE IInv' /\ Promises
  <2>1. /\ at = "closing" /\ at' = "ending" /\ UNCHANGED <<audioStarted, aborted, spoiled>>
        /\ stream' = IF audioStarted THEN Hears("AudioStop") ELSE stream
        /\ UNCHANGED <<inbox, bracket, slips, asked, ended>>
    BY <1>15 DEF CloseAudio, client, state, history
  <2>2. Chained' /\ Owed' /\ (Inside' <=> Inside) /\ (Orderly' <=> Orderly)
    BY <2>1, Works DEF Finishing
  <2>3. Placed'
    BY <2>1, <2>2 DEF IInv, Placed, Finishing
  <2>4. CASE spoiled
    <3>1. stream' = stream /\ Mixed /\ ~Orderly
      BY <2>1, <2>4 DEF IInv, Told, Mixed, Hears
    <3>2. Told'
      BY <2>1, <2>2, <2>4, <3>1 DEF IInv, Told, Mixed
    <3> QED
      BY <2>1, <2>2, <2>3, <3>1, <3>2 DEF IInv, Promises, Unheard
  <2>5. CASE ~spoiled /\ audioStarted
    <3>1. stream = "playing" /\ stream' = "closed"
      BY <2>1, <2>5 DEF IInv, Told, Remembered, Hears
    <3>2. Told'
      BY <2>1, <2>5, <3>1 DEF IInv, Told, Remembered
    <3> QED
      BY <2>1, <2>2, <2>3, <2>5, <3>1, <3>2
         DEF IInv, Promises, Promised!Next, Promised!Close, Promised!Tell
  <2>6. CASE ~spoiled /\ ~audioStarted
    <3>1. stream' = stream /\ stream = IF aborted THEN "refused" ELSE "silent"
      BY <2>1, <2>6 DEF IInv, Told, Remembered
    <3>2. Told'
      BY <2>1, <2>6, <3>1 DEF IInv, Told, Remembered
    <3> QED
      BY <2>1, <2>2, <2>3, <3>1, <3>2 DEF IInv, Promises, Unheard
  <2> QED
    BY <2>4, <2>5, <2>6
<1>16. ASSUME EndSession PROVE IInv' /\ Promises
  <2>1. /\ at = "ending" /\ at' = "reading" /\ audioStarted' = FALSE /\ aborted' = FALSE
        /\ stream' = Hears("SynthesizeStopped") /\ ended' = ended + 1 /\ spoiled' = FALSE
        /\ UNCHANGED <<inbox, bracket, slips, asked>>
    BY <1>16 DEF EndSession, Reset, client
  <2>2. Owed' /\ ended < asked
    BY <2>1, OwedEnds DEF IInv, Finishing
  <2>3. Chained'
    BY <2>1 DEF IInv, Chained, Chain, Orderly
  <2>4. stream' = "silent" /\ (stream # "playing" \/ spoiled)
    BY <2>1 DEF IInv, Told, Remembered, Hears
  <2>5. Promises
    BY <2>1, <2>2, <2>4 DEF Promises, Promised!Next, Promised!End
  <2>6. Placed' /\ Told'
    BY <2>1, <2>4 DEF Placed, Told, Remembered, Finishing
  <2> QED
    BY <2>2, <2>3, <2>5, <2>6 DEF IInv
<1>17. ASSUME UNCHANGED vars PROVE IInv' /\ Promises
  <2>1. /\ UNCHANGED <<inbox, bracket, slips, asked, ended>>
        /\ UNCHANGED <<at, audioStarted, aborted>> /\ Unheard
    BY <1>17 DEF vars, client, state, heard, history, Unheard
  <2>2. Chained' /\ Owed' /\ (Inside' <=> Inside) /\ (Orderly' <=> Orderly)
    BY <2>1, Works
  <2>3. Placed' /\ Told'
    BY <2>1, <2>2 DEF IInv, Placed, Told, Mixed, Remembered, Unheard
  <2> QED
    BY <2>1, <2>2, <2>3 DEF IInv, Promises
<1> QED
  BY <1>1, <1>2, <1>3, <1>4, <1>5, <1>6, <1>7, <1>8, <1>9, <1>10, <1>11, <1>12, <1>13,
     <1>14, <1>15, <1>16, <1>17 DEF Next, Handle

-----------------------------------------------------------------------------
(* The theorems *)

\* The handler remembers what the client was told, or the request was begun in
\* the middle of another by a client that sent events out of order; and every
\* request asked for is answered, under way or unread (wyoming_server.py,
\* handle_event).
THEOREM Invariance == Spec => []IInv
<1>1. Init => IInv
  BY InitInv
<1>2. IInv /\ [Next]_vars => IInv'
  BY Step
<1>3. QED
  BY <1>1, <1>2, PTL DEF Spec

\* The handler implements TtsStream for every client: one bracket of audio or
\* one error per request, then one SynthesizeStopped, never one that was not
\* asked for; only a client that sent events out of order hears two requests
\* run into each other, and only until the next SynthesizeStopped.
THEOREM Refines == Spec => Implements
<1>1. Init => Promised!Init
  <2>1. Init => (slips = {}) = TRUE
    BY DEF Init, Fresh
  <2> QED
    BY <2>1 DEF Init, Fresh, Promised!Init
<1>2. IInv /\ [Next]_vars => [Promised!Next]_(Promised!vars)
  <2>1. Promises => [Promised!Next]_(Promised!vars)
    BY DEF Promises, Unheard, Promised!vars
  <2> QED
    BY <2>1, Step
<1>3. QED
  BY <1>1, <1>2, Invariance, PTL DEF Spec, Implements, Promised!Spec

-----------------------------------------------------------------------------
(* What a text holds *)

\* The order of the naturals as a relation.
Below == {p \in Nat \X Nat : p[1] < p[2]}

LEMMA BelowIs == Below = OpToRel(<, Nat)
BY Zenon DEF Below, OpToRel

LEMMA BelowFounded == IsWellFoundedOn(Below, Nat)
BY Zenon, BelowIs, NatLessThanWellFounded

\* A set of naturals has a least member: what every induction below is by, the
\* least length of a text that is a counterexample.
LEMMA MinNat ==
  ASSUME NEW T, T \subseteq Nat, T # {}
  PROVE \E x \in T : \A y \in T : x <= y
<1>1. \E x \in T : \A y \in T : ~(<<y, x>> \in Below)
  BY Zenon, BelowFounded, WFMin
<1>2. \A x, y \in Nat : ~(<<y, x>> \in Below) => x <= y
  BY DEF Below
<1> QED BY Zenon, <1>1, <1>2

\* The two folds over a text: its letters, and the sentences it is spoken in.
Zero(kind) == IF kind = "letters" THEN 0 ELSE <<>>
Plus(kind, out, s) == IF kind = "letters" THEN out + s ELSE Coalesce(out, s)

\* What FoldLeft computes on the first n sentences, as a recursive function on
\* the sets of positions that takes the last position of a set first.
FoldOf(kind, text, n, f) ==
  f = [s \in SUBSET (1..n) |->
         IF s = {} THEN Zero(kind) ELSE Plus(kind, f[s \ {Max(s)}], text[Max(s)])]

\* Max is the largest position of a set of positions.
LEMMA MaxIs ==
  ASSUME NEW n \in Nat, NEW s \in SUBSET (1..n), NEW m \in s, \A x \in s : x <= m
  PROVE Max(s) = m
<1>1. \A x \in s : x \in Nat
  OBVIOUS
<1>2. \E x \in s : \A y \in s : x >= y
  BY <1>1
<1>3. Max(s) \in s /\ \A y \in s : Max(s) >= y
  BY Zenon, <1>2 DEF Max
<1>4. Max(s) \in Nat /\ m \in Nat /\ Max(s) >= m /\ Max(s) <= m
  BY <1>1, <1>3
<1> QED BY <1>4

LEMMA MaxOf ==
  ASSUME NEW n \in Nat, NEW s \in SUBSET (1..n), s # {}
  PROVE Max(s) \in s /\ \A x \in s : x <= Max(s)
<1> DEFINE T == {i \in Nat : n - i \in s}
<1>1. T # {}
  <2>1. PICK x \in s : x \in 1..n
    OBVIOUS
  <2> QED BY <2>1, n - (n - x) = x, n - x \in Nat
<1>2. PICK i \in T : \A j \in T : i <= j
  BY Zenon, <1>1, MinNat
<1>3. n - i \in s
  OBVIOUS
<1>4. ASSUME NEW x \in s PROVE x <= n - i
  <2>1. n - x \in T
    <3>1. x \in 1..n
      OBVIOUS
    <3> QED BY <3>1, n - (n - x) = x, n - x \in Nat
  <2>2. i <= n - x
    BY <2>1, <1>2
  <2> QED BY <2>2, x \in 1..n
<1>5. Max(s) = n - i
  BY <1>3, <1>4, MaxIs
<1> QED BY <1>3, <1>4, <1>5

\* The recursive function for n positions extends to one position more.
LEMMA FoldGrows ==
  ASSUME NEW kind, NEW text, NEW n \in Nat, NEW f, FoldOf(kind, text, n, f)
  PROVE \E g : FoldOf(kind, text, n + 1, g)
<1> DEFINE g == [s \in SUBSET (1..(n + 1)) |->
                   IF n + 1 \in s THEN Plus(kind, f[s \ {n + 1}], text[n + 1]) ELSE f[s]]
<1>1. \A s \in SUBSET (1..n) :
        f[s] = IF s = {} THEN Zero(kind) ELSE Plus(kind, f[s \ {Max(s)}], text[Max(s)])
  BY DEF FoldOf
<1>2. ASSUME NEW s \in SUBSET (1..(n + 1))
      PROVE g[s] = IF s = {} THEN Zero(kind) ELSE Plus(kind, g[s \ {Max(s)}], text[Max(s)])
  <2>1. CASE n + 1 \in s
    <3>1. Max(s) = n + 1
      BY <2>1, MaxIs, n + 1 \in Nat
    <3>2. g[s \ {n + 1}] = f[s \ {n + 1}]
      OBVIOUS
    <3>3. s # {}
      BY <2>1
    <3>4. g[s] = Plus(kind, f[s \ {n + 1}], text[n + 1])
      BY <2>1
    <3> QED BY ONLY <3>1, <3>2, <3>3, <3>4
  <2>2. CASE n + 1 \notin s
    <3>1. s \in SUBSET (1..n)
      BY <2>2
    <3>2. g[s] = f[s]
      BY <2>2
    <3>3. CASE s = {}
      BY <3>1, <3>2, <3>3, <1>1
    <3>4. CASE s # {}
      <4>1. Max(s) \in s
        BY <3>1, <3>4, MaxOf
      <4>2. g[s \ {Max(s)}] = f[s \ {Max(s)}]
        BY <2>2
      <4>3. f[s] = Plus(kind, f[s \ {Max(s)}], text[Max(s)])
        BY <3>1, <3>4, <1>1
      <4> QED BY ONLY <3>2, <3>4, <4>2, <4>3
    <3> QED BY <3>3, <3>4
  <2> QED BY <2>1, <2>2
<1>3. g = [s \in SUBSET (1..(n + 1)) |-> g[s]]
  OBVIOUS
<1> HIDE DEF g
<1>4. FoldOf(kind, text, n + 1, g)
  BY Zenon, <1>2, <1>3 DEF FoldOf
<1> QED BY <1>4

\* So the function that FoldLeft chooses exists, for every text.
LEMMA FoldExists ==
  ASSUME NEW kind, NEW text, NEW n \in Nat
  PROVE \E f : FoldOf(kind, text, n, f)
<1> DEFINE T == {m \in Nat : ~ \E f : FoldOf(kind, text, m, f)}
<1>1. SUFFICES ASSUME T # {} PROVE FALSE
  OBVIOUS
<1>2. PICK m \in T : \A k \in T : m <= k
  BY Zenon, <1>1, MinNat
<1>3. CASE m = 0
  <2> DEFINE f == [s \in SUBSET (1..0) |-> Zero(kind)]
  <2>1. \A s \in SUBSET (1..0) : s = {}
    OBVIOUS
  <2>2. FoldOf(kind, text, 0, f)
    BY <2>1 DEF FoldOf
  <2> HIDE DEF f
  <2> QED BY <2>2, <1>3
<1>4. CASE m # 0
  <2>1. m - 1 \in Nat /\ m - 1 + 1 = m
    BY <1>4
  <2>2. m - 1 \notin T
    BY <2>1, <1>2
  <2>3. \E f : FoldOf(kind, text, m - 1, f)
    BY <2>1, <2>2
  <2> HIDE DEF T
  <2>4. \E f : FoldOf(kind, text, m, f)
    BY <2>1, <2>3, FoldGrows
  <2> QED BY <2>4 DEF T
<1> QED BY <1>3, <1>4

LEMMA FoldStep ==
  ASSUME NEW kind, NEW text, NEW n \in Nat, NEW f, FoldOf(kind, text, n, f)
  PROVE /\ f[1..0] = Zero(kind)
        /\ \A k \in 1..n : f[1..k] = Plus(kind, f[1..(k - 1)], text[k])
<1>1. \A s \in SUBSET (1..n) :
        f[s] = IF s = {} THEN Zero(kind) ELSE Plus(kind, f[s \ {Max(s)}], text[Max(s)])
  BY DEF FoldOf
<1>2. f[1..0] = Zero(kind)
  BY <1>1, 1..0 = {}
<1>3. ASSUME NEW k \in 1..n PROVE f[1..k] = Plus(kind, f[1..(k - 1)], text[k])
  <2>1. 1..k \in SUBSET (1..n) /\ k \in 1..k /\ \A x \in 1..k : x <= k
    OBVIOUS
  <2>2. Max(1..k) = k
    BY <2>1, MaxIs
  <2>3. (1..k) \ {k} = 1..(k - 1)
    OBVIOUS
  <2> QED BY <2>1, <2>2, <2>3, <1>1
<1> QED BY <1>2, <1>3

\* Texts that agree on their first n sentences have the same fold up to there.
LEMMA FoldsAgree ==
  ASSUME NEW kind, NEW text, NEW n \in Nat, NEW f, FoldOf(kind, text, n, f),
         NEW more, NEW m \in Nat, NEW g, FoldOf(kind, more, m, g),
         n <= m, \A i \in 1..n : text[i] = more[i]
  PROVE f[1..n] = g[1..n]
<1> DEFINE T == {k \in Nat : k <= n /\ f[1..k] # g[1..k]}
<1>1. SUFFICES ASSUME T # {} PROVE FALSE
  OBVIOUS
<1>2. PICK k \in T : \A j \in T : k <= j
  BY Zenon, <1>1, MinNat
<1>3. /\ f[1..0] = Zero(kind)
      /\ \A i \in 1..n : f[1..i] = Plus(kind, f[1..(i - 1)], text[i])
  BY FoldStep
<1>4. /\ g[1..0] = Zero(kind)
      /\ \A i \in 1..m : g[1..i] = Plus(kind, g[1..(i - 1)], more[i])
  BY FoldStep
<1>5. k # 0
  BY <1>3, <1>4
<1>6. k \in 1..n /\ k \in 1..m /\ k - 1 \in Nat /\ k - 1 <= n /\ ~(k <= k - 1)
  BY <1>5
<1>7. f[1..(k - 1)] = g[1..(k - 1)]
  BY <1>2, <1>6
<1>8. f[1..k] = Plus(kind, f[1..(k - 1)], text[k])
  BY <1>3, <1>6
<1>9. g[1..k] = Plus(kind, g[1..(k - 1)], more[k])
  BY <1>4, <1>6
<1>10. text[k] = more[k]
  BY <1>6
<1> QED BY <1>7, <1>8, <1>9, <1>10

\* Letters and SplitSentences are these folds.
LEMMA LettersFolds ==
  ASSUME NEW text, NEW n \in Nat, DOMAIN text = 1..n
  PROVE \E f : FoldOf("letters", text, n, f) /\ Letters(text) = f[1..n]
<1> DEFINE Sums(f) == f = [s \in SUBSET DOMAIN text |->
                             IF s = {} THEN 0 ELSE f[s \ {Max(s)}] + text[Max(s)]]
<1>1. Letters(text) = (CHOOSE f : Sums(f))[DOMAIN text]
  BY DEF Letters, FoldLeft, MapThenFoldSet
<1>2. \A f : Sums(f) <=> FoldOf("letters", text, n, f)
  BY DEF FoldOf, Zero, Plus
<1> HIDE DEF Sums
<1>3. \E f : Sums(f)
  BY Zenon, <1>2, FoldExists
<1>4. Sums(CHOOSE f : Sums(f))
  BY Zenon, <1>3
<1> QED BY Zenon, <1>1, <1>2, <1>4

LEMMA SplitFolds ==
  ASSUME NEW text, NEW n \in Nat, DOMAIN text = 1..n
  PROVE \E f : FoldOf("sentences", text, n, f) /\ SplitSentences(text) = f[1..n]
<1> DEFINE Splits(f) == f = [s \in SUBSET DOMAIN text |->
                               IF s = {} THEN <<>> ELSE Coalesce(f[s \ {Max(s)}], text[Max(s)])]
<1>1. SplitSentences(text) = (CHOOSE f : Splits(f))[DOMAIN text]
  BY DEF SplitSentences, FoldLeft, MapThenFoldSet
<1>2. \A f : Splits(f) <=> FoldOf("sentences", text, n, f)
  BY DEF FoldOf, Zero, Plus
<1> HIDE DEF Splits
<1>3. \E f : Splits(f)
  BY Zenon, <1>2, FoldExists
<1>4. Splits(CHOOSE f : Splits(f))
  BY Zenon, <1>3
<1> QED BY Zenon, <1>1, <1>2, <1>4

LEMMA FoldNext ==
  ASSUME NEW kind, NEW text, NEW n \in Nat, NEW f, FoldOf(kind, text, n, f), NEW k \in 1..n
  PROVE f[1..k] = Plus(kind, f[1..(k - 1)], text[k])
<1>1. /\ f[1..0] = Zero(kind)
      /\ \A i \in 1..n : f[1..i] = Plus(kind, f[1..(i - 1)], text[i])
  BY FoldStep
<1> QED BY <1>1

LEMMA FoldLast ==
  ASSUME NEW kind, NEW text, NEW n \in Nat, NEW f, FoldOf(kind, text, n, f), n # 0
  PROVE f[1..n] = Plus(kind, f[1..(n - 1)], text[n])
<1>1. n \in 1..n
  OBVIOUS
<1> QED BY <1>1, FoldNext

LEMMA FoldAppends ==
  ASSUME NEW kind, NEW text, NEW more, NEW m \in Nat, m # 0,
         NEW f, FoldOf(kind, text, m - 1, f), NEW g, FoldOf(kind, more, m, g),
         \A i \in 1..(m - 1) : text[i] = more[i]
  PROVE g[1..m] = Plus(kind, f[1..(m - 1)], more[m])
<1>1. g[1..m] = Plus(kind, g[1..(m - 1)], more[m])
  BY FoldLast
<1>2. m - 1 \in Nat /\ m - 1 <= m
  OBVIOUS
<1>3. f[1..(m - 1)] = g[1..(m - 1)]
  BY <1>2, FoldsAgree
<1> QED BY <1>1, <1>3

LEMMA AppendIs ==
  ASSUME NEW text \in Seq(Nat), NEW x \in Nat
  PROVE \E m \in Nat : /\ m # 0 /\ m - 1 \in Nat
                       /\ DOMAIN text = 1..(m - 1) /\ DOMAIN Append(text, x) = 1..m
                       /\ \A i \in 1..(m - 1) : text[i] = Append(text, x)[i]
                       /\ Append(text, x)[m] = x
<1> DEFINE m == Len(text) + 1
<1>1. /\ m \in Nat /\ m # 0 /\ m - 1 \in Nat
      /\ DOMAIN text = 1..(m - 1) /\ DOMAIN Append(text, x) = 1..m
      /\ \A i \in 1..(m - 1) : text[i] = Append(text, x)[i]
      /\ Append(text, x)[m] = x
  OBVIOUS
<1> HIDE DEF m
<1> QED BY <1>1

LEMMA LettersOfNothing == Letters(<<>>) = 0
<1>1. DOMAIN <<>> = 1..0 /\ 0 \in Nat
  OBVIOUS
<1>2. PICK f : FoldOf("letters", <<>>, 0, f) /\ Letters(<<>>) = f[1..0]
  BY Zenon, <1>1, LettersFolds
<1>3. f[1..0] = Zero("letters")
  BY <1>2, FoldStep
<1> QED BY <1>2, <1>3 DEF Zero

LEMMA SplitOfNothing == SplitSentences(<<>>) = <<>>
<1>1. DOMAIN <<>> = 1..0 /\ 0 \in Nat
  OBVIOUS
<1>2. PICK f : FoldOf("sentences", <<>>, 0, f) /\ SplitSentences(<<>>) = f[1..0]
  BY Zenon, <1>1, SplitFolds
<1>3. f[1..0] = Zero("sentences")
  BY <1>2, FoldStep
<1> QED BY <1>2, <1>3 DEF Zero

\* One sentence more adds its letters.
LEMMA LettersAppend ==
  ASSUME NEW text \in Seq(Nat), NEW x \in Nat
  PROVE Letters(Append(text, x)) = Letters(text) + x
<1>1. PICK m \in Nat : /\ m # 0 /\ m - 1 \in Nat
                       /\ DOMAIN text = 1..(m - 1) /\ DOMAIN Append(text, x) = 1..m
                       /\ \A i \in 1..(m - 1) : text[i] = Append(text, x)[i]
                       /\ Append(text, x)[m] = x
  BY AppendIs
<1>2. PICK f : FoldOf("letters", text, m - 1, f) /\ Letters(text) = f[1..(m - 1)]
  BY <1>1, LettersFolds
<1>3. PICK g : FoldOf("letters", Append(text, x), m, g) /\ Letters(Append(text, x)) = g[1..m]
  BY <1>1, LettersFolds
<1>4. g[1..m] = Plus("letters", f[1..(m - 1)], Append(text, x)[m])
  <2> DEFINE more == Append(text, x)
  <2>1. /\ FoldOf("letters", text, m - 1, f) /\ FoldOf("letters", more, m, g)
        /\ \A i \in 1..(m - 1) : text[i] = more[i]
    BY <1>1, <1>2, <1>3
  <2>2. m # 0
    BY <1>1
  <2> HIDE DEF more
  <2>3. g[1..m] = Plus("letters", f[1..(m - 1)], more[m])
    BY ONLY m \in Nat, <2>1, <2>2, FoldAppends
  <2> QED BY <2>3 DEF more
<1> QED BY <1>1, <1>2, <1>3, <1>4 DEF Plus

\* One sentence more is coalesced with what was split before.
LEMMA SplitAppend ==
  ASSUME NEW text \in Seq(Nat), NEW x \in Nat
  PROVE SplitSentences(Append(text, x)) = Coalesce(SplitSentences(text), x)
<1>1. PICK m \in Nat : /\ m # 0 /\ m - 1 \in Nat
                       /\ DOMAIN text = 1..(m - 1) /\ DOMAIN Append(text, x) = 1..m
                       /\ \A i \in 1..(m - 1) : text[i] = Append(text, x)[i]
                       /\ Append(text, x)[m] = x
  BY AppendIs
<1>2. PICK f : FoldOf("sentences", text, m - 1, f) /\ SplitSentences(text) = f[1..(m - 1)]
  BY <1>1, SplitFolds
<1>3. PICK g : FoldOf("sentences", Append(text, x), m, g) /\ SplitSentences(Append(text, x)) = g[1..m]
  BY <1>1, SplitFolds
<1>4. g[1..m] = Plus("sentences", f[1..(m - 1)], Append(text, x)[m])
  <2> DEFINE more == Append(text, x)
  <2>1. /\ FoldOf("sentences", text, m - 1, f) /\ FoldOf("sentences", more, m, g)
        /\ \A i \in 1..(m - 1) : text[i] = more[i]
    BY <1>1, <1>2, <1>3
  <2>2. m # 0
    BY <1>1
  <2> HIDE DEF more
  <2>3. g[1..m] = Plus("sentences", f[1..(m - 1)], more[m])
    BY ONLY m \in Nat, <2>1, <2>2, FoldAppends
  <2> QED BY <2>3 DEF more
<1> QED BY <1>1, <1>2, <1>3, <1>4 DEF Plus

\* A text is empty, or ends in a sentence.
LEMMA TextEnds ==
  ASSUME NEW n \in Nat, NEW text \in Seq(Nat), Len(text) = n + 1
  PROVE \E t \in Seq(Nat), x \in Nat : Len(t) = n /\ text = Append(t, x)
<1> DEFINE t == [i \in 1..n |-> text[i]]
<1>1. t \in Seq(Nat) /\ Len(t) = n
  OBVIOUS
<1>2. text[n + 1] \in Nat
  OBVIOUS
<1>3. text = Append(t, text[n + 1])
  <2>1. Append(t, text[n + 1]) \in Seq(Nat) /\ Len(Append(t, text[n + 1])) = Len(text)
    BY <1>1, <1>2
  <2>2. \A i \in 1..Len(text) : text[i] = Append(t, text[n + 1])[i]
    BY <1>1, <1>2
  <2> HIDE DEF t
  <2> QED BY <2>1, <2>2, SeqEqual
<1> HIDE DEF t
<1> QED BY <1>1, <1>2, <1>3

LEMMA LettersType ==
  ASSUME NEW text \in Seq(Nat)
  PROVE Letters(text) \in Nat
<1> DEFINE T == {n \in Nat : \E t \in Seq(Nat) : Len(t) = n /\ Letters(t) \notin Nat}
<1>1. SUFFICES ASSUME T # {} PROVE FALSE
  <2>1. Len(text) \in Nat
    OBVIOUS
  <2> QED BY <2>1
<1>2. PICK n \in T : \A k \in T : n <= k
  BY Zenon, <1>1, MinNat
<1>3. PICK t \in Seq(Nat) : Len(t) = n /\ Letters(t) \notin Nat
  OBVIOUS
<1>4. n # 0
  <2> SUFFICES ASSUME n = 0 PROVE FALSE
    OBVIOUS
  <2>1. t = <<>>
    BY <1>3
  <2> QED BY <2>1, <1>3, LettersOfNothing
<1>5. n - 1 \in Nat /\ n - 1 + 1 = n /\ ~(n <= n - 1)
  BY <1>4
<1>6. PICK u \in Seq(Nat), x \in Nat : Len(u) = n - 1 /\ t = Append(u, x)
  BY <1>3, <1>5, TextEnds
<1>7. Letters(u) \in Nat
  BY <1>2, <1>5, <1>6
<1>8. Letters(t) = Letters(u) + x
  BY Zenon, <1>6, LettersAppend
<1> QED BY <1>3, <1>7, <1>8

\* No letter is lost or counted twice where two texts meet.
LEMMA LettersConcat ==
  ASSUME NEW text \in Seq(Nat), NEW more \in Seq(Nat)
  PROVE Letters(text \o more) = Letters(text) + Letters(more)
<1> DEFINE T == {n \in Nat : \E t \in Seq(Nat) :
                   Len(t) = n /\ Letters(text \o t) # Letters(text) + Letters(t)}
<1>1. SUFFICES ASSUME T # {} PROVE FALSE
  <2>1. Len(more) \in Nat
    OBVIOUS
  <2> QED BY <2>1
<1>2. PICK n \in T : \A k \in T : n <= k
  BY Zenon, <1>1, MinNat
<1>3. PICK t \in Seq(Nat) : Len(t) = n /\ Letters(text \o t) # Letters(text) + Letters(t)
  OBVIOUS
<1>4. n # 0
  <2> SUFFICES ASSUME n = 0 PROVE FALSE
    OBVIOUS
  <2>1. t = <<>> /\ text \o <<>> = text
    BY <1>3
  <2> QED BY <2>1, <1>3, LettersOfNothing, LettersType
<1>5. n - 1 \in Nat /\ n - 1 + 1 = n /\ ~(n <= n - 1)
  BY <1>4
<1>6. PICK u \in Seq(Nat), x \in Nat : Len(u) = n - 1 /\ t = Append(u, x)
  BY <1>3, <1>5, TextEnds
<1>7. Letters(text \o u) = Letters(text) + Letters(u)
  BY <1>2, <1>5, <1>6
<1>8. Letters(t) = Letters(u) + x
  BY Zenon, <1>6, LettersAppend
<1>9. text \o t = Append(text \o u, x) /\ text \o u \in Seq(Nat)
  <2>1. text \o u \in Seq(Nat)
    OBVIOUS
  <2>2. text \o Append(u, x) = Append(text \o u, x)
    OBVIOUS
  <2> QED BY <2>1, <2>2, <1>6
<1>10. Letters(text \o t) = Letters(text \o u) + x
  BY Zenon, <1>9, LettersAppend
<1>11. Letters(text) \in Nat /\ Letters(u) \in Nat
  BY Zenon, LettersType
<1> QED BY <1>3, <1>7, <1>8, <1>10, <1>11

\* Taking a sentence off the front takes its letters.
LEMMA LettersHead ==
  ASSUME NEW text \in Seq(Nat), text # <<>>
  PROVE /\ Head(text) \in Nat /\ Tail(text) \in Seq(Nat)
        /\ Letters(text) = Head(text) + Letters(Tail(text))
<1>1. Head(text) \in Nat /\ Tail(text) \in Seq(Nat)
  OBVIOUS
<1> DEFINE one == Append(<<>>, Head(text))
<1>2. one \in Seq(Nat) /\ text = one \o Tail(text)
  OBVIOUS
<1>3. Letters(one) = Letters(<<>>) + Head(text)
  BY Zenon, <1>1, LettersAppend, EmptySeq
<1> HIDE DEF one
<1>4. Letters(text) = Letters(one) + Letters(Tail(text))
  BY Zenon, <1>1, <1>2, LettersConcat
<1>5. Letters(Tail(text)) \in Nat
  BY <1>1, LettersType
<1> QED BY <1>1, <1>3, <1>4, <1>5, LettersOfNothing

LEMMA AppendReplaced ==
  ASSUME NEW t \in Seq(Nat), NEW x \in Nat, NEW y \in Nat
  PROVE [Append(t, x) EXCEPT ![Len(t) + 1] = y] = Append(t, y)
<1> DEFINE a == [Append(t, x) EXCEPT ![Len(t) + 1] = y]
<1>1. /\ Append(t, x) \in Seq(Nat) /\ Len(Append(t, x)) = Len(t) + 1
      /\ Append(t, y) \in Seq(Nat) /\ Len(Append(t, y)) = Len(t) + 1
      /\ Len(t) \in Nat
  OBVIOUS
<1>2. a \in Seq(Nat) /\ Len(a) = Len(t) + 1
  OBVIOUS
<1>3. ASSUME NEW i \in 1..(Len(t) + 1) PROVE a[i] = Append(t, y)[i]
  <2>1. CASE i = Len(t) + 1
    BY <2>1
  <2>2. CASE i # Len(t) + 1
    <3>1. i \in 1..Len(t)
      BY <2>2
    <3>2. Append(t, x)[i] = t[i] /\ i \in DOMAIN Append(t, x)
      BY <1>1, <3>1
    <3>4. a[i] = Append(t, x)[i]
      BY <2>2, <3>2
    <3>3. Append(t, y)[i] = t[i]
      BY <3>1
    <3> QED BY <3>2, <3>3, <3>4
  <2> QED BY <2>1, <2>2
<1> HIDE DEF a
<1>4. a = Append(t, y)
  BY <1>1, <1>2, <1>3, SeqEqual
<1> QED BY <1>4 DEF a

\* The last sentence of a text goes on.
LEMMA LettersReplace ==
  ASSUME NEW text \in Seq(Nat), text # <<>>, NEW more \in Nat
  PROVE /\ ReplaceAt(text, Len(text), Last(text) + more) \in Seq(Nat)
        /\ Letters(ReplaceAt(text, Len(text), Last(text) + more)) = Letters(text) + more
<1>1. Len(text) - 1 \in Nat /\ Len(text) = Len(text) - 1 + 1
  OBVIOUS
<1>2. PICK t \in Seq(Nat), x \in Nat : Len(t) = Len(text) - 1 /\ text = Append(t, x)
  BY <1>1, TextEnds
<1>3. Last(text) = x
  BY <1>2 DEF Last
<1> DEFINE longer == ReplaceAt(text, Len(text), Last(text) + more)
<1>4. longer = [text EXCEPT ![Len(text)] = x + more]
  BY <1>3 DEF ReplaceAt
<1>5. longer = Append(t, x + more)
  <2>1. Len(text) = Len(t) + 1 /\ x + more \in Nat
    BY <1>2
  <2>2. longer = [Append(t, x) EXCEPT ![Len(t) + 1] = x + more]
    BY <1>2, <1>4, <2>1
  <2> HIDE DEF longer
  <2> QED BY Zenon, <1>2, <2>1, <2>2, AppendReplaced
<1> HIDE DEF longer
<1>6. Letters(longer) = Letters(t) + (x + more)
  <2>1. x + more \in Nat
    OBVIOUS
  <2> QED BY Zenon, <1>5, <2>1, LettersAppend
<1>7. Letters(text) = Letters(t) + x
  BY Zenon, <1>2, LettersAppend
<1>8. longer \in Seq(Nat)
  BY <1>5
<1>9. Letters(t) \in Nat
  BY LettersType
<1>10. longer \in Seq(Nat) /\ Letters(longer) = Letters(text) + more
  BY <1>6, <1>7, <1>8, <1>9
<1> QED BY Zenon, <1>10 DEF longer

\* A chunk adds its letters to the buffer, whether it begins a sentence or goes
\* on with the open one (handle_event, SynthesizeChunk).
LEMMA JoinedLetters ==
  ASSUME NEW text \in Seq(Nat), NEW more \in Seq(Nat), NEW fresh
  PROVE /\ Joined(text, more, fresh) \in Seq(Nat)
        /\ Letters(Joined(text, more, fresh)) = Letters(text) + Letters(more)
<1>1. CASE fresh \/ text = <<>> \/ more = <<>>
  <2>1. Joined(text, more, fresh) = text \o more
    BY <1>1 DEF Joined
  <2>2. text \o more \in Seq(Nat)
    OBVIOUS
  <2> QED BY <2>1, <2>2, LettersConcat
<1>2. CASE ~(fresh \/ text = <<>> \/ more = <<>>)
  <2> DEFINE open == ReplaceAt(text, Len(text), Last(text) + Head(more))
  <2>1. Joined(text, more, fresh) = open \o Tail(more)
    BY <1>2 DEF Joined
  <2>2. /\ Head(more) \in Nat /\ Tail(more) \in Seq(Nat)
        /\ Letters(more) = Head(more) + Letters(Tail(more))
    BY <1>2, LettersHead
  <2>3. open \in Seq(Nat) /\ Letters(open) = Letters(text) + Head(more)
    BY Zenon, <1>2, <2>2, LettersReplace
  <2> HIDE DEF open
  <2>4. /\ open \o Tail(more) \in Seq(Nat)
        /\ Letters(open \o Tail(more)) = Letters(open) + Letters(Tail(more))
    <3>1. open \o Tail(more) \in Seq(Nat)
      BY <2>2, <2>3
    <3> QED BY Zenon, <2>2, <2>3, <3>1, LettersConcat
  <2>5. Letters(text) \in Nat /\ Letters(Tail(more)) \in Nat
    BY <2>2, LettersType
  <2> QED BY <2>1, <2>2, <2>3, <2>4, <2>5
<1> QED BY <1>1, <1>2

\* Merging a short sentence with the next keeps the letters of both.
LEMMA CoalesceLetters ==
  ASSUME NEW out \in Seq(Nat), NEW s \in Nat
  PROVE Coalesce(out, s) \in Seq(Nat) /\ Letters(Coalesce(out, s)) = Letters(out) + s
<1>1. CASE out # <<>> /\ Last(out) < MinSentence
  BY <1>1, LettersReplace DEF Coalesce
<1>2. CASE ~(out # <<>> /\ Last(out) < MinSentence)
  BY <1>2, LettersAppend DEF Coalesce
<1> QED BY <1>1, <1>2

\* _split_sentences loses and repeats no letter of any text, however its short
\* sentences merge.
LEMMA SplitLetters ==
  ASSUME NEW text \in Seq(Nat)
  PROVE /\ SplitSentences(text) \in Seq(Nat)
        /\ Letters(SplitSentences(text)) = Letters(text)
<1> DEFINE Kept(t) == SplitSentences(t) \in Seq(Nat) /\ Letters(SplitSentences(t)) = Letters(t)
<1> DEFINE T == {n \in Nat : \E t \in Seq(Nat) : Len(t) = n /\ ~Kept(t)}
<1>1. SUFFICES ASSUME T # {} PROVE FALSE
  <2>1. Len(text) \in Nat
    OBVIOUS
  <2>2. Kept(text)
    BY <2>1
  <2> QED BY <2>2
<1>2. PICK n \in T : \A k \in T : n <= k
  BY Zenon, <1>1, MinNat
<1>3. PICK t \in Seq(Nat) : Len(t) = n /\ ~Kept(t)
  OBVIOUS
<1>4. n # 0
  <2> SUFFICES ASSUME n = 0 PROVE FALSE
    OBVIOUS
  <2>1. t = <<>>
    BY <1>3
  <2> QED BY <2>1, <1>3, SplitOfNothing
<1>5. n - 1 \in Nat /\ n - 1 + 1 = n /\ ~(n <= n - 1)
  BY <1>4
<1>6. PICK u \in Seq(Nat), x \in Nat : Len(u) = n - 1 /\ t = Append(u, x)
  BY <1>3, <1>5, TextEnds
<1>7. Kept(u)
  BY <1>2, <1>5, <1>6
<1>8. Letters(t) = Letters(u) + x
  BY Zenon, <1>6, LettersAppend
<1>9. SplitSentences(t) = Coalesce(SplitSentences(u), x)
  BY Zenon, <1>6, SplitAppend
<1>10. /\ Coalesce(SplitSentences(u), x) \in Seq(Nat)
       /\ Letters(Coalesce(SplitSentences(u), x)) = Letters(SplitSentences(u)) + x
  BY Zenon, <1>7, CoalesceLetters
<1> QED BY <1>3, <1>7, <1>8, <1>9, <1>10

\* Every sentence but the last is long enough to stand alone.
Settled(out) == \A i \in 1..(Len(out) - 1) : out[i] >= MinSentence

\* Coalescing keeps to that: only the last sentence may still be short, and
\* then the next one joins it.
LEMMA CoalesceSettles ==
  ASSUME NEW out \in Seq(Nat), NEW s \in Nat, Settled(out)
  PROVE  Settled(Coalesce(out, s)) /\ Coalesce(out, s) # <<>>
<1> DEFINE n == Len(out)
<1>1. CASE out # <<>> /\ Last(out) < MinSentence
  <2> DEFINE longer == [out EXCEPT ![Len(out)] = Last(out) + s]
  <2>1. Coalesce(out, s) = longer
    BY <1>1 DEF Coalesce, ReplaceAt
  <2>2. n \in 1..n /\ Last(out) + s \in Nat
    BY <1>1 DEF Last
  <2>3. longer \in Seq(Nat) /\ Len(longer) = n
    BY <2>2
  <2>4. \A i \in 1..(n - 1) : longer[i] = out[i]
    BY <2>2
  <2> HIDE DEF longer
  <2> QED BY <2>1, <2>2, <2>3, <2>4 DEF Settled
<1>2. CASE ~(out # <<>> /\ Last(out) < MinSentence)
  <2>1. Coalesce(out, s) = Append(out, s)
    BY <1>2 DEF Coalesce
  <2>2. Len(Append(out, s)) = n + 1 /\ \A i \in 1..n : Append(out, s)[i] = out[i]
    OBVIOUS
  <2>3. ASSUME NEW i \in 1..n PROVE out[i] >= MinSentence
    <3>1. CASE i = n
      <4>1. out # <<>> /\ Last(out) = out[n] /\ out[n] \in Nat
        BY <3>1 DEF Last
      <4> QED BY <1>2, <3>1, <4>1, BoundsAssumption
    <3>2. CASE i # n
      BY <3>2 DEF Settled
    <3> QED BY <3>1, <3>2
  <2> QED BY <2>1, <2>2, <2>3 DEF Settled
<1> QED BY <1>1, <1>2

\* _split_sentences cuts any text into sentences that are all long enough to be
\* spoken but for the last, and loses and repeats none of its letters.
THEOREM SplitIsSound ==
  ASSUME NEW text \in Seq(Nat)
  PROVE  /\ SplitSentences(text) \in Seq(Nat)
         /\ Letters(SplitSentences(text)) = Letters(text)
         /\ Settled(SplitSentences(text))
         /\ text # <<>> => SplitSentences(text) # <<>>
<1>1. SplitSentences(text) \in Seq(Nat) /\ Letters(SplitSentences(text)) = Letters(text)
  BY SplitLetters
<1> DEFINE Cut(t) == Settled(SplitSentences(t)) /\ (t # <<>> => SplitSentences(t) # <<>>)
<1> DEFINE T == {n \in Nat : \E t \in Seq(Nat) : Len(t) = n /\ ~Cut(t)}
<1>2. T = {}
  <2>1. SUFFICES ASSUME T # {} PROVE FALSE
    OBVIOUS
  <2>2. PICK n \in T : \A k \in T : n <= k
    BY Zenon, <2>1, MinNat
  <2>3. PICK t \in Seq(Nat) : Len(t) = n /\ ~Cut(t)
    OBVIOUS
  <2>4. n # 0
    <3>1. SUFFICES ASSUME n = 0 PROVE FALSE
      OBVIOUS
    <3>2. t = <<>>
      BY <2>3, <3>1
    <3> QED BY <2>3, <3>2, SplitOfNothing DEF Settled
  <2>5. n - 1 \in Nat /\ n - 1 + 1 = n /\ ~(n <= n - 1)
    BY <2>4
  <2>6. PICK u \in Seq(Nat), x \in Nat : Len(u) = n - 1 /\ t = Append(u, x)
    BY <2>3, <2>5, TextEnds
  <2>7. Cut(u)
    BY <2>2, <2>5, <2>6
  <2>8. SplitSentences(t) = Coalesce(SplitSentences(u), x)
    BY Zenon, <2>6, SplitAppend
  <2>9. SplitSentences(u) \in Seq(Nat)
    BY SplitLetters
  <2>10. Settled(SplitSentences(t)) /\ SplitSentences(t) # <<>>
    BY Zenon, <2>7, <2>8, <2>9, CoalesceSettles
  <2> QED BY <2>3, <2>10
<1>3. Cut(text)
  <2>1. Len(text) \in Nat
    OBVIOUS
  <2> QED BY <1>2, <2>1
<1> QED BY <1>1, <1>3

-----------------------------------------------------------------------------
(* The text of a request *)

\* What was received of the request under way is what was spoken and what is
\* still held, unless a sentence failed; and the buffer, the batch and what the
\* handler is doing say which of them holds it.
Accounted ==
  /\ inbox \in Seq(Sendable) /\ buffer \in Seq(Nat) /\ batch \in Seq(Nat)
  /\ got \in Nat /\ said \in Nat
  /\ batch # <<>> => at = "batch"
  /\ at = "batch" => buffer = <<>>
  /\ at \in {"closing", "ending"} /\ ~aborted => buffer = <<>>
  /\ ~aborted => got = said + Letters(buffer) + Letters(batch)
  /\ said > 0 => audioStarted

LEMMA InitAccounted == Init => Accounted
BY LettersOfNothing, EmptySeq DEF Init, Fresh, Accounted

LEMMA SendAccounted ==
  ASSUME Accounted, NEW e \in Sendable, Send(e)
  PROVE  Accounted'
<1>1. inbox' = Append(inbox, e) /\ UNCHANGED <<at, buffer, audioStarted, aborted, batch, got, said>>
  BY DEF Send, state, history
<1>2. inbox' \in Seq(Sendable)
  BY <1>1 DEF Accounted
<1> QED BY <1>1, <1>2 DEF Accounted

\* The event at the front carries a text.
LEMMA ReadAccounted ==
  ASSUME Accounted, NEW type, Read(type)
  PROVE  /\ inbox' \in Seq(Sendable) /\ at = "reading" /\ batch = <<>>
         /\ Head(inbox) \in Sendable /\ Head(inbox).text \in Seq(Nat)
         /\ Letters(Head(inbox).text) \in Nat
<1>1. inbox \in Seq(Sendable) /\ inbox # <<>> /\ inbox' = Tail(inbox) /\ at = "reading"
  BY DEF Accounted, Read
<1>2. inbox' \in Seq(Sendable) /\ Head(inbox) \in Sendable
  BY <1>1
<1>3. Seq(Nat \ {0}) \subseteq Seq(Nat)
  OBVIOUS
<1>4. \A e \in Sendable : e.text = <<>> \/ e.text \in Texts
  BY DEF Sendable, Start, Stop
<1>5. Head(inbox).text \in Seq(Nat)
  BY <1>2, <1>3, <1>4, TextsAssumption, EmptySeq
<1>6. batch = <<>>
  BY <1>1 DEF Accounted
<1> QED BY <1>1, <1>2, <1>5, <1>6, LettersType

\* A sentence spoken is counted, and heard; after a failure nothing is.
LEMMA EmitAccounted ==
  ASSUME NEW letters \in Nat, said \in Nat, got \in Nat, SynthAndEmit(letters),
         said > 0 => audioStarted
  PROVE  /\ UNCHANGED <<inbox, got>> /\ said' \in Nat
         /\ said' > 0 => audioStarted'
         /\ ~aborted' => ~aborted /\ said' = said + letters
<1>1. CASE Spoken(letters)
  <2>1. audioStarted' = audioStarted \/ audioStarted' = TRUE
    BY <1>1 DEF Spoken
  <2>2. audioStarted'
    BY <1>1 DEF Spoken
  <2> QED BY <1>1, <2>2 DEF Spoken, SynthAndEmit, client
<1>2. CASE Failed
  BY <1>2 DEF Failed, SynthAndEmit, client
<1> QED BY <1>1, <1>2 DEF SynthAndEmit

\* No action loses a letter of a request.
LEMMA StepAccounted ==
  ASSUME Accounted, [Next]_vars
  PROVE  Accounted'
<1> USE LettersOfNothing
<1>1. ASSUME SendStart PROVE Accounted'
  BY <1>1, SendAccounted DEF SendStart, Sendable
<1>2. ASSUME SendChunk PROVE Accounted'
  BY <1>2, SendAccounted DEF SendChunk, Sendable
<1>3. ASSUME SendStop PROVE Accounted'
  BY <1>3, SendAccounted DEF SendStop, Sendable
<1>4. ASSUME SendWhole PROVE Accounted'
  BY <1>4, SendAccounted DEF SendWhole, Sendable
<1>5. ASSUME Hangup PROVE Accounted'
  BY <1>5, EmptySeq DEF Hangup, Accounted
<1>6. ASSUME ReadStart PROVE Accounted'
  BY <1>6, ReadAccounted, EmptySeq DEF ReadStart, Begin, Reset, Accounted
<1>7. ASSUME ReadChunk PROVE Accounted'
  <2> DEFINE text == Head(inbox).text
  <2> DEFINE fresh == Head(inbox).fresh
  <2>1. inbox' \in Seq(Sendable) /\ at = "reading" /\ batch = <<>> /\ text \in Seq(Nat) /\ Letters(text) \in Nat
    BY <1>7, ReadAccounted DEF ReadChunk
  <2>2. UNCHANGED <<audioStarted, aborted, batch, said>>
    BY <1>7 DEF ReadChunk
  <2>3. CASE aborted
    BY <1>7, <2>1, <2>2, <2>3 DEF ReadChunk, Accounted
  <2>4. CASE ~aborted
    <3>1. buffer' = Joined(buffer, text, fresh) /\ got' = got + Letters(text) /\ at' = "flushing"
      BY <1>7, <2>4 DEF ReadChunk
    <3> HIDE DEF text, fresh
    <3>2. /\ Joined(buffer, text, fresh) \in Seq(Nat)
          /\ Letters(Joined(buffer, text, fresh)) = Letters(buffer) + Letters(text)
      BY <2>1, JoinedLetters DEF Accounted
    <3>3. Letters(buffer) \in Nat /\ got' = said' + Letters(buffer') + Letters(batch')
      BY <2>1, <2>2, <2>4, <3>1, <3>2, LettersType DEF Accounted
    <3>4. got' \in Nat /\ buffer' \in Seq(Nat)
      BY <2>1, <3>1, <3>2 DEF Accounted
    <3> QED BY <2>1, <2>2, <3>1, <3>3, <3>4 DEF Accounted
  <2> QED BY <2>3, <2>4
<1>8. ASSUME ReadStop PROVE Accounted'
  BY <1>8, ReadAccounted DEF ReadStop, state, history, Accounted
<1>9. ASSUME ReadWhole PROVE Accounted'
  <2>1. /\ inbox' \in Seq(Sendable) /\ Head(inbox).text \in Seq(Nat)
        /\ Letters(Head(inbox).text) \in Nat
    BY <1>9, ReadAccounted DEF ReadWhole
  <2>2. /\ buffer' = <<>> /\ aborted' = FALSE /\ at' = "batch" /\ said' = 0
        /\ batch' = SplitSentences(Head(inbox).text) /\ got' = Letters(Head(inbox).text)
    BY <1>9 DEF ReadWhole, Begin, Reset
  <2>3. batch' \in Seq(Nat) /\ got' = Letters(batch')
    BY <2>1, <2>2, SplitLetters
  <2> QED BY <2>1, <2>2, <2>3, EmptySeq DEF Accounted
<1>10. ASSUME FlushSentence PROVE Accounted'
  <2>1. /\ at = "flushing" /\ buffer # <<>> /\ buffer' = Tail(buffer)
        /\ SynthAndEmit(Head(buffer)) /\ at' \in {"reading", "flushing"} /\ batch' = batch
    BY <1>10 DEF FlushSentence, Ready, Accounted
  <2>2. /\ Head(buffer) \in Nat /\ buffer' \in Seq(Nat)
        /\ Letters(buffer) = Head(buffer) + Letters(buffer')
    BY <2>1, LettersHead DEF Accounted
  <2>3. /\ UNCHANGED <<inbox, got>> /\ said' \in Nat
        /\ said' > 0 => audioStarted'
        /\ ~aborted' => ~aborted /\ said' = said + Head(buffer)
    BY <2>1, <2>2, EmitAccounted DEF Accounted
  <2>4. batch = <<>> /\ Letters(buffer') \in Nat
    BY <2>1, <2>2, LettersType DEF Accounted
  <2>5. ~aborted' => got' = said' + Letters(buffer') + Letters(batch')
    BY <2>1, <2>2, <2>3, <2>4 DEF Accounted
  <2> QED BY <2>1, <2>2, <2>3, <2>4, <2>5 DEF Accounted
<1>11. ASSUME FlushNoMore PROVE Accounted'
  BY <1>11 DEF FlushNoMore, client, state, history, Accounted
<1>12. ASSUME FlushTail PROVE Accounted'
  <2>1. /\ at = "tail" /\ at' = "closing" /\ buffer' = <<>>
        /\ SynthAndEmit(Letters(buffer)) /\ batch' = batch
    BY <1>12 DEF FlushTail
  <2>2. Letters(buffer) \in Nat /\ batch = <<>>
    BY <2>1, LettersType DEF Accounted
  <2>3. /\ UNCHANGED <<inbox, got>> /\ said' \in Nat
        /\ said' > 0 => audioStarted'
        /\ ~aborted' => ~aborted /\ said' = said + Letters(buffer)
    BY <2>1, <2>2, EmitAccounted DEF Accounted
  <2>4. ~aborted' => got' = said' + Letters(buffer') + Letters(batch')
    BY <2>1, <2>2, <2>3 DEF Accounted
  <2> QED BY <2>1, <2>2, <2>3, <2>4, EmptySeq DEF Accounted
<1>13. ASSUME SpeakBatch PROVE Accounted'
  <2>1. /\ at = "batch" /\ batch # <<>> /\ batch' = Tail(batch)
        /\ SynthAndEmit(Head(batch)) /\ UNCHANGED <<at, buffer>>
    BY <1>13 DEF SpeakBatch
  <2>2. /\ Head(batch) \in Nat /\ batch' \in Seq(Nat)
        /\ Letters(batch) = Head(batch) + Letters(batch')
    BY <2>1, LettersHead DEF Accounted
  <2>3. /\ UNCHANGED <<inbox, got>> /\ said' \in Nat
        /\ said' > 0 => audioStarted'
        /\ ~aborted' => ~aborted /\ said' = said + Head(batch)
    BY <2>1, <2>2, EmitAccounted DEF Accounted
  <2>4. buffer = <<>> /\ Letters(batch') \in Nat
    BY <2>1, <2>2, LettersType DEF Accounted
  <2>5. ~aborted' => got' = said' + Letters(buffer') + Letters(batch')
    BY <2>1, <2>2, <2>3, <2>4 DEF Accounted
  <2> QED BY <2>1, <2>2, <2>3, <2>4, <2>5 DEF Accounted
<1>14. ASSUME BatchDone PROVE Accounted'
  <2>1. /\ at = "batch" /\ (batch = <<>> \/ aborted) /\ at' = "closing" /\ batch' = <<>>
        /\ UNCHANGED <<inbox, buffer, audioStarted, aborted, got, said>>
    BY <1>14 DEF BatchDone, client, state, history
  <2> QED BY <2>1, EmptySeq DEF Accounted
<1>15. ASSUME CloseAudio PROVE Accounted'
  BY <1>15 DEF CloseAudio, client, state, history, Accounted
<1>16. ASSUME EndSession PROVE Accounted'
  <2>1. /\ at = "ending" /\ at' = "reading" /\ buffer' = <<>> /\ got' = 0 /\ said' = 0
        /\ UNCHANGED <<inbox, batch>>
    BY <1>16 DEF EndSession, Reset, client
  <2> QED BY <2>1, EmptySeq DEF Accounted
<1>17. ASSUME UNCHANGED vars PROVE Accounted'
  BY <1>17 DEF vars, client, state, history, Accounted
<1> QED
  BY <1>1, <1>2, <1>3, <1>4, <1>5, <1>6, <1>7, <1>8, <1>9, <1>10, <1>11, <1>12,
     <1>13, <1>14, <1>15, <1>16, <1>17 DEF Next, Handle

\* Every letter received is spoken, held or given up with the whole request, for
\* any texts and any client, one that sends a Synthesize inside a bracket included.
THEOREM TextInvariance == Spec => []Accounted
<1>1. Init => Accounted
  BY InitAccounted
<1>2. Accounted /\ [Next]_vars => Accounted'
  BY StepAccounted
<1> QED BY <1>1, <1>2, PTL DEF Spec

\* A request that has not failed skips and repeats nothing, however its text was
\* cut into events and sentences, and at its end nothing is left over
\* (handle_event, _flush_complete_sentences, _stream_synthesis).
THEOREM TextSpoken == Spec => []NothingSkipped
<1>1. Accounted => NothingSkipped
  BY LettersOfNothing DEF Accounted, NothingSkipped
<1> QED BY <1>1, TextInvariance, PTL

\* A request that had something to say is heard, or its client told of an error,
\* before SynthesizeStopped; in good order unless it was begun in the middle of
\* another (handle_event, _stream_synthesis).
THEOREM EndsHeard == Spec => []NoSilentEnd
<1>1. ASSUME IInv, Accounted PROVE NoSilentEnd
  <2>1. SUFFICES ASSUME at = "ending", got > 0
                 PROVE  stream \in IF spoiled THEN {"garbled"} ELSE {"closed", "refused"}
    BY DEF NoSilentEnd
  <2>2. audioStarted \/ aborted
    <3>1. SUFFICES ASSUME ~aborted PROVE audioStarted
      OBVIOUS
    <3>2. buffer = <<>> /\ batch = <<>> /\ got = said + Letters(buffer) + Letters(batch) /\ said \in Nat
      BY <1>1, <2>1, <3>1 DEF Accounted
    <3>3. got = said
      BY <3>2, LettersOfNothing
    <3> QED BY <1>1, <2>1, <3>3 DEF Accounted
  <2> QED BY <1>1, <2>1, <2>2 DEF IInv, Told, Mixed, Remembered
<1> QED BY <1>1, Invariance, TextInvariance, PTL
=============================================================================
