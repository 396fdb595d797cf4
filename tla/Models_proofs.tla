--------------------------- MODULE Models_proofs ----------------------------
(***************************************************************************)
(* The model's memory and its watcher, for every UnloadAfter and every     *)
(* PollInterval.  A call resets idle and took together, and rest begins    *)
(* where took stops, so idle never runs ahead of the two; a poll, or the   *)
(* end of a call that outlasted the watcher's sleep, is what keeps the     *)
(* next poll in reach.                                                     *)
(***************************************************************************)
EXTENDS Models, TLAPS

LEMMA OlderAge ==
  ASSUME NEW a \in 0..MaxAge
  PROVE  Older(a) \in 0..MaxAge /\ Older(a) <= a + 1 /\ a <= Older(a)
BY TimesAssumption DEF Older

LEMMA Zero == 0 \in 0..MaxAge /\ 0 \in 0..PollInterval /\ PollInterval \in 0..PollInterval
BY TimesAssumption

LEMMA InitInv == Init => IInv
<1> SUFFICES ASSUME Init PROVE IInv
  OBVIOUS
<1>1. TypeOK
  BY Zero DEF Init, TypeOK
<1>2. AgesAgree /\ PollInReach /\ BlocksKnown
  BY TimesAssumption DEF Init, AgesAgree, PollInReach, BlocksKnown, Holding
<1> QED
  BY <1>1, <1>2 DEF IInv

\* Nothing but time and calls changes an age.
LEMMA StepType == TypeOK /\ [Next]_vars => TypeOK'
<1> SUFFICES ASSUME TypeOK, [Next]_vars PROVE TypeOK'
  OBVIOUS
<1> USE TimesAssumption DEF TypeOK
<1>1. CASE Start
  BY <1>1 DEF Start, card
<1>2. CASE Stop
  BY <1>2 DEF Stop, Drop, EmptyCache, history
<1>3. CASE Tick
  <2>1. idle' \in 0..MaxAge /\ took' \in 0..MaxAge /\ rest' \in 0..MaxAge
    BY <1>3, OlderAge DEF Tick
  <2> QED
    BY <1>3, <2>1 DEF Tick, backend, card
<1>4. CASE Synth
  <2>1. reserved' \subseteq Blocks /\ pc' \in {"loading", "speaking"}
    BY <1>4 DEF Synth, Blocks
  <2> QED
    BY <1>4, <2>1, Zero DEF Synth, Stamp, watcher
<1>5. CASE LoadDone
  BY <1>5 DEF LoadDone, Blocks, watcher, history
<1>6. CASE LoadFailed
  <2>1. reserved' \subseteq Blocks /\ failures' \subseteq {"empty", "load"}
    BY <1>6 DEF LoadFailed, Blocks
  <2> QED
    BY <1>6, <2>1, Zero DEF LoadFailed, Returns, watcher
<1>7. CASE Spoken
  <2>1. reserved' \subseteq Blocks /\ failures' \subseteq {"empty", "load"}
    BY <1>7 DEF Spoken, EmptyCache, EmptyRaises
  <2> QED
    BY <1>7, <2>1, Zero DEF Spoken, Returns, watcher
<1>8. CASE Poll
  <2>1. reserved' \subseteq Blocks /\ failures' \subseteq {"empty", "load"} /\ loaded' \in BOOLEAN
    BY <1>8 DEF Poll, Drop, EmptyCache, card
  <2> QED
    BY <1>8, <2>1, Zero DEF Poll, history
<1>9. CASE PollRaises
  BY <1>9 DEF PollRaises, EmptyRaises, history
<1>10. CASE UNCHANGED vars
  BY <1>10 DEF vars, backend, card, watcher, history
<1> QED
  BY <1>1, <1>2, <1>3, <1>4, <1>5, <1>6, <1>7, <1>8, <1>9, <1>10 DEF Next

LEMMA StepAges == TypeOK /\ AgesAgree /\ [Next]_vars => AgesAgree'
<1> SUFFICES ASSUME TypeOK, AgesAgree, [Next]_vars PROVE AgesAgree'
  OBVIOUS
<1> USE TimesAssumption DEF TypeOK, AgesAgree, Holding
<1>1. CASE Start
  BY <1>1 DEF Start
<1>2. CASE Stop
  BY <1>2 DEF Stop, history
<1>3. CASE Tick
  <2>1. CASE pc = "free"
    BY <1>3, <2>1 DEF Tick, Older, backend
  <2>2. CASE pc # "free"
    BY <1>3, <2>2 DEF Tick, Older, backend
  <2> QED
    BY <2>1, <2>2
<1>4. CASE Synth
  BY <1>4 DEF Synth, Stamp
<1>5. CASE LoadDone
  BY <1>5 DEF LoadDone, history
<1>6. CASE LoadFailed
  BY <1>6 DEF LoadFailed, Returns
<1>7. CASE Spoken
  BY <1>7 DEF Spoken, Returns
<1>8. CASE Poll
  BY <1>8 DEF Poll, history
<1>9. CASE PollRaises
  BY <1>9 DEF PollRaises, history
<1>10. CASE UNCHANGED vars
  BY <1>10 DEF vars, backend, history
<1> QED
  BY <1>1, <1>2, <1>3, <1>4, <1>5, <1>6, <1>7, <1>8, <1>9, <1>10 DEF Next

LEMMA StepBlocks == TypeOK /\ BlocksKnown /\ [Next]_vars => BlocksKnown'
<1> SUFFICES ASSUME TypeOK, BlocksKnown, [Next]_vars PROVE BlocksKnown'
  OBVIOUS
<1> USE TimesAssumption DEF TypeOK, BlocksKnown
<1>1. CASE Start
  BY <1>1 DEF Start, card
<1>2. CASE Stop
  BY <1>2 DEF Stop, Drop, EmptyCache
<1>3. CASE Tick
  BY <1>3 DEF Tick, backend, card
<1>4. CASE Synth
  BY <1>4 DEF Synth, watcher
<1>5. CASE LoadDone
  BY <1>5 DEF LoadDone, watcher
<1>6. CASE LoadFailed
  BY <1>6 DEF LoadFailed, Returns, watcher
<1>7. CASE Spoken
  BY <1>7 DEF Spoken, Returns, EmptyCache, EmptyRaises, watcher
<1>8. CASE Poll
  BY <1>8 DEF Poll, Due, Drop, EmptyCache, card
<1>9. CASE PollRaises
  BY <1>9 DEF PollRaises, EmptyRaises, Due
<1>10. CASE UNCHANGED vars
  BY <1>10 DEF vars, backend, card, watcher
<1> QED
  BY <1>1, <1>2, <1>3, <1>4, <1>5, <1>6, <1>7, <1>8, <1>9, <1>10 DEF Next

\* A poll that leaves the model finds it younger than UnloadAfter; time moves
\* one second from idle's side of the sum to the other.
LEMMA StepReach == IInv /\ [Next]_vars => PollInReach'
<1> SUFFICES ASSUME IInv, [Next]_vars PROVE PollInReach'
  OBVIOUS
<1> USE TimesAssumption DEF IInv, TypeOK, PollInReach, BlocksKnown
<1>1. CASE Start
  BY <1>1 DEF Start
<1>2. CASE Stop
  BY <1>2 DEF Stop
<1>3. CASE Tick
  BY <1>3 DEF Tick, Older, backend
<1>4. CASE Synth
  BY <1>4 DEF Synth, Stamp, watcher
<1>5. CASE LoadDone
  BY <1>5 DEF LoadDone, watcher, history
<1>6. CASE LoadFailed
  BY <1>6 DEF LoadFailed, Returns, watcher
<1>7. CASE Spoken
  BY <1>7 DEF Spoken, watcher
<1>8. CASE Poll
  <2>1. CASE IsIdle
    BY <1>8, <2>1 DEF Poll, Due, Drop
  <2>2. CASE ~IsIdle
    <3>1. UNCHANGED <<pc, loaded, idle>> /\ pc = "free" /\ sleep' = PollInterval
      BY <1>8, <2>2 DEF Poll, Due
    <3>2. loaded => idle < UnloadAfter
      BY <2>2 DEF IsIdle
    <3> QED
      BY <3>1, <3>2
  <2> QED
    BY <2>1, <2>2
<1>9. CASE PollRaises
  BY <1>9 DEF PollRaises
<1>10. CASE UNCHANGED vars
  BY <1>10 DEF vars, backend, watcher
<1> QED
  BY <1>1, <1>2, <1>3, <1>4, <1>5, <1>6, <1>7, <1>8, <1>9, <1>10 DEF Next

\* The invariant the theorems below rest on.
THEOREM Inductive == Spec => []IInv
<1>1. Init => IInv
  BY InitInv
<1>2. IInv /\ [Next]_vars => IInv'
  BY StepType, StepAges, StepBlocks, StepReach DEF IInv
<1> QED
  BY <1>1, <1>2, PTL DEF Spec

\* Whatever UnloadAfter is and however calls and polls end, what is held between
\* two calls is the loaded model, or was left by an empty_cache() that raised or
\* a load that broke off since the cache was last emptied.
THEOREM MemoryIsReturned == Spec => []MemoryReturned
<1>1. IInv => MemoryReturned
  BY DEF IInv, TypeOK, BlocksKnown, MemoryReturned
<1> QED
  BY <1>1, Inductive, PTL

\* A model nobody asks for meets a poll less than UnloadAfter + PollInterval
\* seconds after it was asked for.
THEOREM FreesInTime == Spec => []FreedInTime
<1>1. IInv => FreedInTime
  BY TimesAssumption DEF IInv, TypeOK, PollInReach, FreedInTime
<1> QED
  BY <1>1, Inductive, PTL

\* The watcher takes no model that was used in the last UnloadAfter seconds,
\* the last call's own included; with UnloadAfter = 0 it takes none at all.
THEOREM UsedStaysLoaded == Spec => UsedIsKept
<1> DEFINE Kept == loaded /\ ~loaded' /\ pc' # "off" =>
                     pc = "free" /\ UnloadAfter > 0 /\ took + rest >= UnloadAfter
<1>1. IInv /\ [Next]_vars => [Kept]_vars
  <2> SUFFICES ASSUME IInv, Next, loaded, ~loaded', pc' # "off"
               PROVE  pc = "free" /\ UnloadAfter > 0 /\ took + rest >= UnloadAfter
    OBVIOUS
  <2>1. Due /\ IsIdle
    BY DEF Next, Start, Stop, Tick, Synth, LoadDone, LoadFailed, Spoken, Poll, PollRaises, Drop, backend
  <2> QED
    BY <2>1, TimesAssumption DEF Due, IsIdle, IInv, TypeOK, AgesAgree, BlocksKnown
<1> QED
  BY <1>1, Inductive, PTL DEF Spec, UsedIsKept
=============================================================================
