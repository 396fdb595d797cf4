------------------------------- MODULE Models -------------------------------
(***************************************************************************)
(* The model and the memory it takes: ModelManager (models.py), the        *)
(* Chatterbox backend around it (backends/chatterbox.py) and the lifespan  *)
(* that starts and stops both (app.py).                                    *)
(*                                                                         *)
(* A synthesis loads the model if it has to, generates, and returns, all   *)
(* in one call on the event loop: seconds pass meanwhile, but nothing else *)
(* runs.  The watcher that unloads an idle model sleeps on the same loop.  *)
(* A timer that is due is served before the loop waits again: seconds pass *)
(* only while the loop is held, or while nothing is due.                   *)
(*                                                                         *)
(* Torch keeps the blocks it has once taken from the card, also when the   *)
(* tensors in them are gone, until torch.cuda.empty_cache(), which may     *)
(* raise wherever it is called.  Times are ages in seconds, counted up to  *)
(* MaxAge.                                                                 *)
(***************************************************************************)
EXTENDS Naturals

CONSTANTS
  UnloadAfter,   \* MIMIC_UNLOAD_AFTER, 0 to keep the model for ever
  PollInterval,
  MaxAge         \* bound: ages beyond it are not told apart

ASSUME TimesAssumption ==
  /\ UnloadAfter \in Nat /\ PollInterval \in Nat \ {0}
  /\ MaxAge \in Nat /\ MaxAge >= UnloadAfter + PollInterval

VARIABLES
  pc,          \* the process: off, or what the loop is held by
  loaded,      \* whether _loaded has the model
  reserved,    \* what torch has taken from the card and not given back
  temp,        \* whether a one-shot's reference lies in a temporary file
  idle,        \* time since _last_used
  watching,    \* the watcher's task runs
  sleep,       \* seconds left of its sleep
  took, rest,  \* history: how long the last call took, and how long ago it ended
  failures     \* history: what failed since the cache was last emptied

card == <<reserved, failures>>
backend == <<pc, loaded, card, temp>>
watcher == <<watching, sleep>>
history == <<took, rest>>
vars == <<backend, idle, watcher, history>>

\* A load that breaks off leaves blocks of a model that is not there.
Blocks == {"weights", "peak", "remains"}

Init ==
  /\ pc = "off" /\ loaded = FALSE /\ reserved = {} /\ temp = FALSE
  /\ watching = FALSE /\ sleep = 0
  /\ idle = 0 /\ took = 0 /\ rest = 0 /\ failures = {}

\* lifespan up to its yield; run_unload_watcher returns at once when models
\* are to be kept.
Start ==
  /\ pc = "off" /\ pc' = "free"
  /\ idle' = 0 /\ took' = 0 /\ rest' = 0
  /\ watching' = (UnloadAfter > 0) /\ sleep' = PollInterval
  /\ UNCHANGED <<loaded, card, temp>>

\* What is left after empty_cache: the blocks that hold the model's weights.
EmptyCache(held) ==
  /\ reserved' = IF held THEN reserved \cap {"weights"} ELSE {}
  /\ failures' = {}

\* Only an ImportError is caught: the error reaches the caller.
EmptyRaises == UNCHANGED reserved /\ failures' = failures \cup {"empty"}

-----------------------------------------------------------------------------
(* A synthesis: _synth, reached from synth_builtin, synth_clone and, with a  *)
(* temporary file, synth_clone_oneshot                                       *)

\* Mutant: last_used is stamped where the model is loaded.
StampIfLoading == idle' = IF loaded THEN idle ELSE 0

\* get() stamps whether it loads or not.
Stamp == idle' = 0

Synth ==
  /\ pc = "free"
  /\ temp' \in BOOLEAN
  /\ Stamp /\ took' = 0
  /\ IF loaded THEN pc' = "speaking" /\ reserved' = reserved \cup {"peak"}
     ELSE pc' = "loading" /\ UNCHANGED reserved
  /\ UNCHANGED <<loaded, watcher, rest, failures>>

LoadDone ==
  /\ pc = "loading" /\ pc' = "speaking"
  /\ loaded' = TRUE /\ reserved' = reserved \cup {"weights", "peak"}
  /\ UNCHANGED <<temp, idle, watcher, history, failures>>

\* The call returns or raises: the file is gone with its `with` block.
Returns == pc' = "free" /\ temp' = FALSE /\ rest' = 0

\* get() is called before the try: nothing is given back.
LoadFailed ==
  /\ pc = "loading" /\ Returns
  /\ reserved' \in {reserved, reserved \cup {"remains"}}
  /\ failures' = failures \cup {"load"}
  /\ UNCHANGED <<loaded, idle, watcher, took>>

\* Mutant: the cache is emptied after generate() and not in a finally.
SpokenIfNoError ==
  /\ pc = "speaking" /\ Returns
  /\ EmptyCache(loaded) \/ EmptyRaises \/ UNCHANGED card
  /\ UNCHANGED <<loaded, idle, watcher, took>>

\* generate() returned or raised, and so did the finally's empty_cache(): the
\* call has a result or an error.
Spoken ==
  /\ pc = "speaking" /\ Returns
  /\ EmptyCache(loaded) \/ EmptyRaises
  /\ UNCHANGED <<loaded, idle, watcher, took>>

-----------------------------------------------------------------------------
(* Unloading *)

Drop == loaded' = FALSE /\ EmptyCache(FALSE)

\* The watcher wakes up once its sleep is over and the loop is free.
Due == pc = "free" /\ watching /\ sleep = 0

IsIdle == loaded /\ idle >= UnloadAfter

\* Mutant: the watcher asks get() whether a model is loaded.
PollTouching ==
  /\ Due /\ sleep' = PollInterval
  /\ IF IsIdle THEN Drop /\ UNCHANGED idle
     ELSE idle' = 0 /\ UNCHANGED <<loaded, card>>
  /\ UNCHANGED <<pc, temp, watching, history>>

Poll ==
  /\ Due /\ sleep' = PollInterval
  /\ IF IsIdle THEN Drop ELSE UNCHANGED <<loaded, card>>
  /\ UNCHANGED <<pc, temp, idle, watching, history>>

\* An empty_cache() that raises ends the watcher's task, and nobody asks what
\* became of it.
PollRaises ==
  /\ Due /\ IsIdle
  /\ loaded' = FALSE /\ EmptyRaises /\ watching' = FALSE
  /\ UNCHANGED <<pc, temp, idle, sleep, history>>

\* The lifespan's finally, which unloads; and the process goes, whatever became
\* of that, with all that it holds.
Stop ==
  /\ pc = "free" /\ pc' = "off"
  /\ Drop /\ watching' = FALSE
  /\ UNCHANGED <<temp, idle, sleep, history>>

-----------------------------------------------------------------------------
(* Time *)

Older(age) == IF age < MaxAge THEN age + 1 ELSE age

\* Mutant: the watcher sleeps on while a synthesis holds the loop.
TickAsleep ==
  /\ pc # "off" /\ ~Due
  /\ idle' = Older(idle)
  /\ sleep' = IF sleep > 0 /\ pc = "free" THEN sleep - 1 ELSE sleep
  /\ IF pc = "free" THEN rest' = Older(rest) /\ UNCHANGED took
     ELSE took' = Older(took) /\ UNCHANGED rest
  /\ UNCHANGED <<backend, watching>>

Tick ==
  /\ pc # "off" /\ ~Due
  /\ idle' = Older(idle)
  /\ sleep' = IF sleep > 0 THEN sleep - 1 ELSE sleep
  /\ IF pc = "free" THEN rest' = Older(rest) /\ UNCHANGED took
     ELSE took' = Older(took) /\ UNCHANGED rest
  /\ UNCHANGED <<backend, watching>>

Next ==
  \/ Start \/ Stop \/ Tick
  \/ Synth \/ LoadDone \/ LoadFailed \/ Spoken
  \/ Poll \/ PollRaises

Spec == Init /\ [][Next]_vars

\* The loop comes round, and the clock goes on.
FairSpec ==
  /\ Spec
  /\ WF_vars(Tick) /\ WF_vars(Poll \/ PollRaises)
  /\ WF_vars(LoadDone \/ LoadFailed) /\ WF_vars(Spoken)
-----------------------------------------------------------------------------
(* Properties *)

TypeOK ==
  /\ pc \in {"off", "free", "loading", "speaking"}
  /\ loaded \in BOOLEAN /\ temp \in BOOLEAN /\ watching \in BOOLEAN
  /\ reserved \subseteq Blocks /\ failures \subseteq {"empty", "load"}
  /\ idle \in 0..MaxAge /\ took \in 0..MaxAge /\ rest \in 0..MaxAge
  /\ sleep \in 0..PollInterval

\* chatterbox.py:80-86: between two calls nobody else on the card is starved.
\* Nothing is held but the weights of the model that is loaded, however calls
\* and polls ended, and no reference is left in a file.  What an empty_cache()
\* that raised or a load that broke off has left goes with the next
\* empty_cache() that does not raise, a call's or the watcher's.
MemoryReturned ==
  pc = "free" =>
    /\ ~temp
    /\ "peak" \in reserved => "empty" \in failures
    /\ "weights" \in reserved => loaded \/ "empty" \in failures
    /\ "remains" \in reserved => "load" \in failures

\* A model nobody asks for is gone less than UnloadAfter + PollInterval seconds
\* after it was asked for last: a poll that finds it idle comes before that, or
\* at once when a long synthesis has kept the loop beyond it.
FreedInTime ==
  pc = "free" /\ loaded /\ watching /\ sleep > 0 => idle + sleep < UnloadAfter + PollInterval

\* docs/server.md:16, "Seconds idle before models unload": the watcher takes
\* no model that was used since, however calls and polls fall together.  What
\* the last call itself took counts as idle, for it is stamped as it begins.
UsedIsKept ==
  [][loaded /\ ~loaded' /\ pc' # "off" =>
       pc = "free" /\ UnloadAfter > 0 /\ took + rest >= UnloadAfter]_vars

\* A server that is not asked gives the card back, unless the watcher is off.
IdleFreed == []<>(pc # "free" \/ ~loaded \/ ~watching)

-----------------------------------------------------------------------------
(* The inductive invariant *)

Holding == pc \in {"loading", "speaking"}

\* Ages: idle is counted from where took is, and rest from where that stops.
AgesAgree ==
  /\ Holding => idle = took
  /\ idle <= took + rest

\* A poll finds the model before it has been idle too long, or is next.
PollInReach ==
  (loaded \/ pc = "loading") /\ watching => sleep = 0 \/ idle + sleep < UnloadAfter + PollInterval

\* In a call the model has its peak; what else is held is held between calls.
BlocksKnown ==
  /\ pc = "loading" => ~loaded
  /\ pc = "speaking" => loaded
  /\ pc = "off" => ~loaded /\ reserved = {}
  /\ pc \in {"off", "free"} => ~temp
  /\ pc # "speaking" /\ "peak" \in reserved => "empty" \in failures
  /\ "weights" \in reserved => loaded \/ "empty" \in failures
  /\ "remains" \in reserved => "load" \in failures
  /\ watching => UnloadAfter > 0 /\ pc # "off"

IInv == /\ TypeOK /\ AgesAgree /\ PollInReach /\ BlocksKnown
=============================================================================
