# mimic-tts: a TLA+ model

mimic-tts is a self-hosted voice-cloning speech server. One Python process
(FastAPI on a single asyncio event loop) authenticates API keys, keeps voices
on disk and their rows in SQLite, meters characters per day, synthesizes with
Chatterbox, and speaks the Wyoming protocol to Home Assistant. A React page, a
Python client and a command line talk to it.

This directory holds TLA+ modules for the parts of it that keep state, TLC
configurations that check them on small instances, and TLAPS proofs of the
most important invariants for every instance.

| | |
|---|---|
| `M.tla` | the model of one component, with its properties at the end |
| `MCM.tla`, `M_*.cfg` | values for its constants, one file per question asked |
| `M_proofs.tla` | theorems about it |
| `PROJECT.json` | components, runs, mutants, theorems, hazards, findings, and for every definition the source lines it models |

To check one: `tlc -config Registry_crash.cfg MCRegistry`, and
`tlapm Registry_proofs.tla`.

## The system

### Components

| Component (source) | State | Operations | Hard behaviour | Correct when | Module |
|---|---|---|---|---|---|
| Keys and authentication (`identity.py`, `auth.py`, `routes/admin.py`) | `api_keys`; the root row seeded at boot | mint, patch, revoke, purge; authenticate | a request acts on a copy of its key, made earlier in another thread; keys change meanwhile | the root key stays usable; only admins change keys | `Registry` |
| Voices and grants (`voices.py`, `routes/clones.py`, `db.py`) | `voices`, `voice_grants`; `reference/<label>/<name>/{audio.wav,text.txt}` | register (waits for an upload), list, resolve, share, delete | tables and disk are written one after the other and the process may die between; a purge during an upload | no dangling row; nobody's recording is replaced by another's; listing and resolving agree; limits hold | `Registry` |
| Usage (`usage.py`, `synth.py`, `/clone/oneshot`) | `usage_events` | check a quota, record a charge | check and charge are apart, in one path with an await between; midnight; stale copies of the quota | nobody speaks past a quota, except by a bounded overshoot | `Usage` |
| Wyoming server (`wyoming_server.py`) | per connection: buffer, audio started, aborted | SynthesizeStart/Chunk/Stop, Synthesize | text cut at any place; failure after some audio; two paths sharing state; hangups | audio in one bracket; every request ended; no word lost | `Wyoming`, `TtsStream` |
| Legacy migration (`bootstrap.py`) | directories: flat, staging, owner, set aside; rows | evacuate, install, reconcile | may die at any file; backups restored between boots; a voice called like the root key | no file lost, none stranded, no installed voice touched | `Bootstrap` |
| Web session (`web/src/api.js`, `App.jsx`) | token in `localStorage`; signed in, error, list shown | token gate, refresh, speak, save, delete, sign out, reload | answers out of order; two requests of one call; refusals of an earlier token | the page knows when its token is gone; it shows the voices of its token | `WebSession` |
| Model manager (`models.py`, `backends/chatterbox.py`, the lifespan of `app.py`) | the loaded model, time of last use, memory reserved on the card | get, synthesize, unload, idle watcher, start and stop | a watcher beside calls that hold the loop; loads that break off; a driver that raises | idle models are freed in time, used ones stay; memory is handed back | `Models` |
| STT proxy (`stt.py`, `/stt`) | one exchange | transcribe | a silent or closing peer | the request ends | `Stt` |
| Clone card and web recorder (`App.jsx`, `recorder.js`) | current take, phrase, recording | record, upload, transcribe, save | transcripts and saves that end after a newer take | the phrase saved is that of the recording saved; the microphone is released; no button stays disabled | `CloneCard` |
| Client library (`client/mimic/client.py`, `_base.py`) | none between calls | one request and what its end means | a client that gives up on a request the server goes on with; a proxy that answers in its place | success is only told when it was one | `ClientCall` |
| Command line (`client/mimic/cli.py`, `recorder.py`) | a thread per take waiting on standard input | `record`: record, play, keep, retry, register; `say --out` | a waiter outlives its recording and reads beside the prompts | a line reaches the one it is meant for; the take kept is registered; the exit status is true | `Recorder` |
| Synthesis routes (`routes/tts.py`, `routes/openai.py`) | none | check, resolve, synthesize, charge | order of the four | see `Usage` and `Registry` | through `Usage` |
| Schema migrations (`db.py`) | schema version | apply once | one process boots at a time | – | no |
| HTTP app, settings, audio encoding, async client, admin CLI, scripts | none | wiring, conversions, one request per call | – | – | no |

### How they interact

* `_authenticate` runs in a worker thread, reads a key and gives the handler a
  `Caller`, a copy of that row. The handler runs later on the event loop and
  never reads the key again. `Registry` and `Usage` model both halves as
  separate steps with anything in between.
* Handlers are `async def`: one has the loop at a time, and gives it up only
  where it awaits. `clone_register` and `/clone/oneshot` await an upload.
  Synthesis itself does not await, so it keeps the loop. `LoopFree` says this
  in both modules; a mutant of each shows what would break were the handlers
  run in threads.
* Voices live in a table and on disk. No transaction spans the two; the order
  of the writes is the protocol, and the boot repairs what it can
  (`_reconcile_owner_dir`).
* The Wyoming server is a task on the same loop. It speaks as one key, copied
  at startup; `Usage` has it as the connection `Resident`. `Wyoming` calls
  synthesis an action that succeeds or fails as it likes, which covers every
  answer `synthesize` may give.
* The idle watcher is a task on that loop too. While a synthesis holds it, the
  watcher's timer runs out and is served before anything else: `Models` makes
  time pass only while the loop is held or nothing is due.
* A client knows a request by its answer. One that gives up (60 seconds, or a
  broken connection) leaves a request the server still serves; `ClientCall`
  keeps the two apart, and `Recorder` extends it with the command around it.
* The web page only knows its token and the answers it gets. `WebSession`
  keeps of the server the set of tokens it accepts.

## Modules

### Registry

The three tables, the disk and the process. A request (`Conns`) is `idle`,
`authed` with its copy of a key, `uploading`, or between two writes of its
handler (`Holding`). Each write to a table or to one directory is an action, so
`Crash` may fall between any two; a crash loses what is in memory and keeps the
rest. `SeedRoot`, `AdoptVoice` and `StartServing` are `bootstrap()` on the
tables. Rows carry real ids from counters that never go back (AUTOINCREMENT);
foreign keys and cascades are `Cascade` and the guard of `InsertVoice`. The
bytes of a recording are the id of the key that uploaded them, which is what
the properties need to tell whose recording a voice plays.

Abstracted: token hashes (a token is the row it authenticates), timestamps
(an expiry is `never`, `later` or `past`, and `Expire` moves time), notes.

### Usage

Check and charge. `Speak` keeps the loop until `Record`; `BeginOneshot` gives
it up for `Clone`. The event log is the sum `chars_today` computes; `NewDay`
moves its window past everything recorded. Quotas are patched at any time
(`PatchKey`), and each request is judged by its own copy of the quota.

### Wyoming and TtsStream

One connection: events sent, the handler that reads one at a time, and what the
client heard. A sentence is its length; a text is a sequence of sentences, and
a chunk either begins one or goes on with the open one, so texts are cut at
every place. The handler is a small machine (`at`): reading, flushing complete
sentences, speaking the tail, speaking a batch, closing the audio, ending. Each
sentence may fail.

The client may send any event at any time, as the handler takes any: a
Synthesize within a bracket, a second Start, a Stop without one. `slips`
remembers what it sent out of order. A request that begins before the one
before it has ended (`Begin`) overwrites the fields of the connection, and
`spoiled` remembers that until the next SynthesizeStopped.

`TtsStream` is what a client may rely on: `Play`, `Refuse`, `Close`, `End`, in
that order and each once per request. A client that sends events out of order
may have one request begin in the middle of another (`Overtake`) and then hears
anything (`Garble`) but an end it did not ask for; the next `End` puts it
right. `Wyoming` implements it (`Implements`, with the variables of the same
names as refinement mapping, and `slips = {}` for `orderly`): the client's view
is part of the detailed state, changed only by the events the handler sends.

Left out: voice names and the language, `Describe`, the PCM conversion.

### Bootstrap

Two files per voice (the audio, and whatever else comes with it), in four
places: flat, staged, owned by the root key, set aside. A file is the number of
the recording it came from, so a property can say that a particular recording
is still there. `EvacuateVoice` moves any set of files that a boot may have
moved when it died, audio last, and ends the process unless all of them went;
`EvacuateSibling`, `ClearDestination`, `SetAside` and `Install` are the other
moves, `Adopt` the reconciliation. Between boots the operator (`Restore`) puts
back whole or partial directories, and while the server runs the root key
uploads and deletes.

Left out: names `VALID_NAME` refuses (quarantined apart), owner directories of
other keys, incomplete directories that are carried along with a flat voice
called like the root key (they count as set aside, for no boot reads them
again), and a change of `MIMIC_ROOT_LABEL` between boots.

### WebSession

`stored` is `localStorage`; `authed`, `error` and `shown` are App's state;
`net` holds the calls in flight, each with the token it carries, how many requests
it still waits for (a list of voices makes two), and whether it has rejected
already. Any call may be answered at any time; what is refused follows from the
tokens the server still accepts when it answers, and an action may also be
forbidden to a good token. `Reload` forgets all but `localStorage`. A gate that
is no longer shown (`oldgate`) still hears its answer, as the promise in
`TokenGate.submit` does.

The user enters a token, signs out and reloads whenever the page lets him. A
call made before the last token was entered is `old`, and so is the refresh
that follows it. Three things the answers to old calls do are bad, and the code
does nothing against them: wipe the token stored since, open the app, or put
the voices of another token on the page. `astray` remembers which of them have
happened since a token was entered, and the properties say that nothing else
goes wrong.

### CloneCard and Stt

The card's handlers run until they await something and go on with what they
had read before. `asking` are the calls that wait for the microphone, `stops`
those that wait for a recorder's blob, `heard` and `saving` the transcript and
the save under way, each with the take, or the preview URL, that its render
knew. A take is the number of the `setAudio` call that showed it, its object
URL the same number, and a phrase the number of the take it was transcribed
from, so a property can say which belongs to which. A recorder is `active`,
its stop event is queued (`ending`), or `done` has resolved (`ended`); `Unplug`
takes the device away under it. `StopDone` lets all calls that await one blob
go on, as one microtask after another does.

`Stt` is one exchange: converted, sent, listened to, and ended as a text, an
empty one or an error; `CloneCard` extends it, and a transcript under way is an
exchange under way.

The buttons are disabled by some of these waits only, and the code does not
survive a user who clicks in all of them. `hurried` remembers what was not
waited for: Record clicked again before the microphone was granted, a take
begun beside a transcript, a take begun or recorded beside a save.
`TranscriptOfTake` and `TakeKept` fail without these excuses; each is listed as
a hazard in `PROJECT.json`.

A microphone may be granted and the recorder still fail (`RecorderFails`: the
constructor or `start()` raises, and nothing stops the tracks, which the path
without a `MediaRecorder`, in `Denied`, does). Signing out, or a call that is
refused, takes the card off the page at any time (`Leave`): what it was waiting
for goes on, and so does a recording nobody has stopped. And a second recorder
may take the place of the first. These are the three ways in which the page
forgets a live stream; `lost` remembers which stream and how. `MicReleased`
has no excuse for the user: every other live stream has somebody to stop it,
and a recorder is overtaken only after a second click on Record.

Left out: the status line, the text of the phrase, and the wait inside the file
dialog.

### Models

The process (`pc`): off, free, or held by a call that loads or speaks. `loaded`
is `_loaded`; `reserved` what torch holds of the card, in three kinds of blocks
(the weights, the peak of an utterance, the remains of a load that broke off);
`idle` the age of `_last_used`; `sleep` what is left of the watcher's sleep.
`took` and `rest` measure the last call, so that a property can say what "used"
means without the stamp it is about. `Synth`, `LoadDone`, `LoadFailed` and
`Spoken` are the three ways into `_synth` and its `try`; `Poll` is one turn of
the watcher; `Start` and `Stop` the lifespan. `empty_cache()` may raise wherever
it is called (`EmptyRaises`): in a call's `finally`, which keeps the peak and
makes an error of a synthesis that succeeded (`Spoken`), and in the watcher,
whose task is dead from then on and nobody notices (`PollRaises`). `failures`
remembers what failed since the cache was last emptied.

What the code does that a reader may not expect: the stamp is set when a call
begins, so the call's own duration counts as idle (`UsedIsKept`); a watcher
that died frees nothing (`IdleFreed`); blocks stay after an `empty_cache()` that
raised or a load that broke off, which is outside the `try`. `MemoryReturned`
says that these are the only blocks held beside the loaded model's weights, and
that the next `empty_cache()` that goes through takes them, whether the watcher
lives or not.

Left out: the manager's lock (all its holders run on the loop and none awaits
inside it), the names of voices.

### ClientCall and Recorder

`ClientCall` is one call: `call` is the client's side, `request` what became of
the request elsewhere, `outcome` what the method returned or raised. Statuses
are told apart as `raise_for_response` does. `Break` is `map_transport_errors`
at any moment; the server's `Serve` may come after it.

`Recorder` is `mimic record`. A line entered at the terminal remembers what the
user saw when entering it (`at`, `take`), so a property can say whom it was
meant for; it is read by any of those that read, the main thread at a prompt or
the `_wait_for_enter` threads (`waiters`), each of which is gone when it has
read one. `RecordingEnds` is `record_until_enter`, in time or by its cap; a
retry is a take of its own, with its own event and thread. `capped`, `hasty`
and `stray` are history: a recording ran into its cap, the user typed ahead of
the prompts, a line went astray. The initial state may also be `mimic say --out`,
which is the call alone.

After a recording that ran into its 30 seconds, its thread still reads: the
answer to "Keep this take?", or the Enter that should stop the next recording,
may be lost to it. `LinesReachReaders` says that this is the only way; what is
registered is right even then (`RegisteredAsAnswered`). `ExitTellsTruth` allows
one case that the code does not tell apart: a redirection, whose body
`say --out` writes as the audio.

Left out: `record --audio` and the other commands (one call each), playing
what `say` received, the wording of errors.

## Runs

Every constant named `Max…`, and `Slots`, is a bound of the check and not of the
code. The runs of one module cover all its actions between them.

| Run | Instance | Shows |
|---|---|---|
| `Registry_crash` | 2 labels, 1 name, 2 requests, 3 key ids, users and admins, 1 crash | `ReferentialIntegrity`, `NobodyElsesRecording`, `VoicesHaveFiles`, `RootRecordingsListed`, `RootRecoverable`, `OnlyAdminsChangeKeys`, `OnlyOwnersChangeVoices`, and the inductive invariant `IInv`, while a label is minted, purged and minted again under requests of its first holder, and admins change each other's keys |
| `Registry_voices` | 2 labels, 2 names, 2 requests, a limit of 1, lowered to 0 | `ListedResolves` through every way to share, `LimitHonoured` with two uploads under way, and the second inductive invariant `WInv` |
| `Registry_orphan` | no crash | finding: `PurgedFilesGone` fails |
| `Usage_quota` | 1 key, 2 HTTP requests and Wyoming, quotas 0, 2, 3, texts of 1 or 2 | `SpeaksWithinQuota`, `DailyOvershoot`, `IInv` |
| `Wyoming_session` | 5 events in any order, 2 unread, texts of none, one short, one long and three sentences | `NothingSkipped`, `NoSilentEnd`, `Implements`, `EveryRequestEnds` |
| `Wyoming_mixed` | the same | finding: `AudioStartsOnce` fails |
| `Wyoming_latency` | the same | finding: `NothingWaits` fails |
| `Bootstrap_boot` | a voice called like the root key and another, 4 recordings, any number of boots and crashes | `NothingLost`, `NoneStranded`, `ListedHaveAudio`, `InstalledUntouched` |
| `Web_session` | 2 tokens, 3 calls in flight, a user who waits for nothing | `SignedInHasToken`, `ShownIsMine` |
| `Clone_card` | 3 takes, 2 microphone streams, 2 calls of a kind waiting | `PreviewIsTake`, `StopHasRecorder`, `MicReleased`, `TranscriptOfTake`, `TakeKept`, `StopEnds`, `CallsEnd` |
| `Models_idle` | unloaded after 4 seconds, a poll every 3, calls of any length, a driver that raises anywhere, any number of restarts | `MemoryReturned`, `FreedInTime`, `UsedIsKept`, `IdleFreed` |
| `Recorder_session` | 3 takes, 2 lines ahead, one call | `LinesReachReaders`, `RegisteredAsAnswered`, `ExitTellsTruth`, `CommandGoesOn` |

Why the bounds are enough. The hazards of `Registry` need a key and its
successor under the same label (three ids with the root's), two requests that
overlap, and one crash; a second crash starts from a state the first may leave.
A limit matters with one voice more than it allows, hence two names and a limit
of one. The overshoot of `Usage` needs as many requests as it is stated for.
`Wyoming` needs a sentence below the minimum, one at it, and enough events for
a request and the beginning of the next, or for one begun in the middle of
another; two unread events are enough for the client to be ahead of the
handler. `Bootstrap` needs a recording, its backup, a
newer one in the way and one more, and a voice whose directory is the owner's.
`WebSession` needs a token and the one after, and beside a check or an old call
a list of whose two requests one is answered. `CloneCard` needs a take, the one begun
while something waits, and one after; two streams, for a second microphone; and
two clicks on the one Stop button. `Models` needs times that are no multiples of each
other, and ages up to their sum, beyond which none is told apart. `Recorder`
needs a take that is cut off, the one its thread disturbs, and one more, and a
line typed ahead of another. Where a theorem exists (below), the bound does not
matter at all.

`Registry_crash` and `Registry_voices` declare the connections symmetric
(`AnyConn`), and `Web_session` the slots of its calls and its tokens
(`Renamings`): no constant tells one of them from another, the initial state and every action treat them alike, and none
of these runs checks a liveness property.

In `Clone_card` and `Recorder_session` the system may come to an end (the card
leaves the page, the command exits); there, deadlock is not checked. In all
other runs it is: something (a crash, a reload, a hangup, a new day, time) can
always happen.

Mutants. For each property of a passing run there is a mutated definition,
marked `Mutant:` in the module and placed before the definition it stands in
for: a dropped guard, a wrong order, a missing reset that TLC then finds.

### Fairness

Four modules need any. In `Wyoming`, `FairSpec` is weak fairness of `Handle`, the handler's
own steps. The handler is one task of an event loop that runs every task that
is ready, and nothing on the loop keeps it for ever (synthesis is finite). No
fairness is assumed of the client: it need not send a stop, and may hang up.
`EveryRequestEnds` says that a request made is ended, or its client is gone.

In `CloneCard`, `FairSpec` is weak fairness of what the browser does by itself
(a recorder that was stopped fires its event, a resolved promise is taken up)
and of answers: to a save, and by the steps of `Stt`. The last is an assumption
about the ASR server, that it answers or closes the connection: `transcribe()`
reads without a timeout, so a server that takes the audio and stays silent
holds the request for ever. No fairness is assumed of the user, nor of the
question for the microphone, which may stay open.

In `Models`, `FairSpec` says that time passes, that a call which holds the loop
returns or raises, and that a watcher which is due gets its turn, as asyncio
serves every ready callback. Nothing is assumed of who calls.

In `Recorder`, that a line is read when there is a reader, that a wait with a
timeout ends, and that a call of the library does (its timeout is 60 seconds
for each wait); the user need not enter anything, nor the server answer.

## Theorems

Nearly all are of the form `Spec => []P` (or `[][A]_vars`) for every value of
the constants that satisfies the named assumptions, checked by `tlapm`. Every
property of a passing run is a theorem but for the liveness properties.

**Registry_proofs** (`Integrity`, `RootSafe`, `RecordingsSafe`, `TypeCorrect`).
None of the three properties is inductive. The argument: ids are fresh
(`IdsFresh`), so a label belongs to an id for good (`LabelOfId`): a copy of a
key may be stale in every field and its row gone, but no row gives its id
another label. Hence a late upload under a label reused by another key carries
an id that no key has (`CallersKnown`, `JobsKnown`, `FilesKnown`), which is the
disjunct `NobodyElsesRecording` allows. `OneHolder` says one handler is between
two writes, without which two uploads of the same new name could insert two
rows: that is where the single loop enters the proof of integrity.
`RootKnown` ties `managed_by_env` to the root label and makes the allowlist of
`_guard_root_mutation` sufficient. The proofs cover all three values of
`AuthMode`; the runs use `"token"`.

Registry_proofs, continued (`FilesSafe`, `RootListed`, `ListingSafe`,
`KeysAdministered`, `VoicesOwned`, `LimitSafe`). `IInv` says who may write
where, not how far a handler has got, so a second invariant `WInv` stands on
top of it (`IInv /\ WInv` and a step give `WInv'`). `HandlersKnown`: a handler
between two writes still has the right it checked, for it never gave up the
loop, and one that deletes has already removed the row it deletes the files of.
`WritesKnown`: before the first crash, what it has written is still there when
it inserts the row; this is what makes `VoicesHaveFiles` hold of the row it
adds. `RootRecordingsAtWork` is `RootRecordingsListed` without its excuse for
the moments between two writes: a recording without a row has a handler that is
about to insert the row or remove the recording. `ListedResolves` needs only
that names are unique among the voices of an owner, and owners' labels among the keys.
The action properties go action by action: which tables and directories a step
touches, and whose label its handler's copy carries. For `LimitHonoured` the
count after `InsertVoice` is compared with the limit in the copy, by
`Cardinality` of the set with one voice more; the copy may be older than a
patch, and the theorem says no more than the code does: the limit as it was
when the request was authenticated. `RootRowStays` is the part of
`KeysAdministered` about the root key: nothing deletes its row, it never
expires, and a patch leaves it every field the allowlist does not name.

**Usage_proofs** (`SpeakingIsExact`, `OvershootBounded`). The bound on a day's
charge rests on `RoomLeft`: among the requests still to be charged there is one
whose check left room for all the others. It is not enough to remember the last
check: midnight, patches and failures change who that is. The rest is counting
with `Cardinality`.

**Bootstrap_proofs** (`NothingIsLost`, `NothingStranded`, `RowsHaveAudio`,
`InstalledSafe`). `Resumable`: what a dead boot left of a whole recording still
looks like a voice to the next boot, because the text waits beside its audio or
is ahead of it. `Phases`: what each phase has finished stays finished until the
process dies. `Numbered`: files come from recordings made before, so a new
number is none of them.

**WebSession_proofs** (`SignedIn`, `ShowsMine`), for every user and any number
of calls in flight. The invariant speaks of the calls that are not old, as long
as no old one has wiped the token or opened the app (`OnCourse`). `CheckAlone`:
of these a check is the only one, and its token is stored; `RejectedIsKnown`: a
call that has rejected left an error or the gate; `SameToken`: all carry the
stored token; `ShownOrComing`: while another list is shown than that of the
token in use, the right one is under way, or an old one has come. What an old
call may do in between is either nothing of this or remembered in `astray`, and
a token entered makes every call an old one.

**Wyoming_proofs** (`Refines`), for every client, who may also send any number
of events ahead. `Told`: what the client has heard agrees with `audioStarted`
and `aborted`, but from the moment a request was begun in the middle of another
to the next end. `Owed`: the requests asked for and not ended are those still
unread and the one in hand, which is what makes an end one that was asked for.
That only a client that is out of order has a request spoiled is a fact about
what is unread: `Chained`, its inbox is a chain of brackets, each event possible
after the one before it, the last one agreeing with what the client has open;
`Placed`, the handler is where the head of that chain, or the open bracket,
says. `Refines` maps every step of the handler to one of `TtsStream` or a
stutter.

Wyoming_proofs, continued (`TextSpoken`, `EndsHeard`, `SplitIsSound`).
`Accounted` is the invariant behind the first two: letters received are letters
spoken, in the buffer or in the batch, unless the request failed; each action
of the handler moves them from one place to the next, or forgets them all where
a request begins. With `Told` it gives `EndsHeard`. Both rest on what `Letters` and `SplitSentences` compute for every
text, and these are folds. The library's induction theorems are no help (they
take an operator, which the provers cannot instantiate), so the inductions are
by a least counterexample: the lengths of the texts for which a lemma fails are
a set of naturals, the set has a least member (`MinNat`, from the
well-foundedness of `<`), and one sentence less is no counterexample
(`TextEnds`). `FoldExists` shows in this way that the function `FoldLeft`
chooses exists, `FoldsAgree` that a prefix of a text has the same fold, and
`LettersAppend`, `LettersConcat`, `JoinedLetters` and `SplitLetters` follow.
`SplitIsSound` is the promise of `_split_sentences` for every text and every
`_MIN_SENTENCE_CHARS`. The buffer of a stream keeps no such promise: that is
finding 2.

**CloneCard_proofs** (`StopAlwaysWorks`, `PreviewPlays`, `MicrophoneReleased`).
The first two are inductive: whatever URL a handler remembers and revokes, it
then shows one made later, or none. The microphone needs `Tracked`: every live
stream has its recorder in `recRef`, or a call that awaits its blob and will
stop it, or was lost, and each step that takes a recorder out of `recRef` loses
it unless a call awaits it. It needs no word about the user. `OneMicrophone`
does: as long as Record was not clicked beside its own question, there is one
question, or one stream with its recorder and the calls that stop it, so none
is overtaken.

`WaitsKnown`, on top of that invariant, is for `TranscriptMatches` and
`TakeSafe`: while a transcript or a save is waited for, by a user who begins no
take beside it, no question for the microphone is open and no recording runs
that could bring a take, so the one remembered is still shown (a transcript may
also find that its take was saved).

**Models_proofs** (`MemoryIsReturned`, `FreesInTime`, `UsedStaysLoaded`), for
every `unload_after` and poll interval. `PollInReach`: the age of the stamp and
the rest of the watcher's sleep stay below their sum, unless a poll is due;
every tick moves one from the other. `AgesAgree` ties the stamp to how long the
last call took and how long ago it ended. `BlocksKnown` says which blocks are
held in which state of the process, and which failure since the cache was last
emptied left any other.

**Recorder_proofs** (`ReachesReaders`, `RegistersTheTake`, `TellsTruth`), for
any number of takes and of lines ahead. `OneAnswer`: of a user who is not hasty
there is at most one unread line, and it answers what is being asked, because
at every point he is asked something somebody reads (`Listening`: a recording
that was not stopped still has its thread). `NoneLeft`: until a cap no other
thread reads. `Entered` is what the prompts before a call were answered with,
and needs no word about the threads: a line may be lost, but is never read by
the wrong prompt. `CallInv` carries the exit status.

Only model-checked: what needs fairness (`EveryRequestEnds`, `StopEnds`,
`CallsEnd`, `IdleFreed`, `CommandGoesOn`), for neither weak fairness, which is
about `ENABLED`, nor the well-founded arguments that end in a `~>` are within
the prover's reach; and the three findings, which are counterexamples. No
theorem depends on a recursive operator; there is none in these modules.

## Findings

1. **A purge leaves a recording behind** (`Registry_orphan`, `voices.py:106`).
   A key is purged while an upload of its own waits; the files are written
   afterwards, the row is refused by the foreign key, the files stay.
   `docs/server.md:123` promises the key's files are deleted.
2. **A short first sentence holds up all others** (`Wyoming_latency`,
   `wyoming_server.py:245`). Pushed back to the front of the buffer, it is found
   and pushed back again; nothing behind it is spoken before the stop, against
   the comment above it.
3. **A Synthesize within a bracket is heard as a second AudioStart**
   (`Wyoming_mixed`, `wyoming_server.py:300`). It resets the fields of the
   bracket, and with them that audio has started: a client that is hearing the
   bracket's audio is sent another AudioStart. `server/tests/test_wyoming.py:265`
   says of a session that this "should fire exactly once". The words the bracket
   still held are lost.

Three more disagreements have no run of their own; the models reach them, and
the properties excuse them by name. A refused call wipes the token stored now,
though another was entered since, and neither a check nor the second request of
a list tells the page (`api.js:56`, against the comment above it: the app stays
open without a token); `OnCourse` remembers it. Enter after a recording that hit its cap may be lost (`cli.py:314`,
against `docs/client.md:53`); `capped` remembers it. A status below 400 that is
no 2xx counts as success (`_base.py:67`, against `errors.py:26`).

## Plan

Done, in this order: Registry, Usage, Wyoming over TtsStream, Bootstrap,
WebSession, CloneCard over Stt, Models, Recorder over ClientCall, each with its
proofs.

Next, most important first:

1. An abstract library of voices that `Registry` implements.
2. `mimic say` and `Models` composed: a user who tries again after a timeout,
   and a model that was unloaded in between.
3. `Bootstrap`: a variable root label; other owners' directories.
4. `WebSession`: versions of the list of voices, for refreshes out of order,
   composed with the card, whose `Leave` it decides.

Hazards found in the code and not yet covered by a property are in
`PROJECT.json` with the reason.

## Not modelled

Schema migrations (applied once, in a transaction, by one process), the wiring
of the app and its start-up checks, parsing and encoding of audio and requests,
`AsyncClient` (the sync client's text with `await`), the admin commands (one
call and a table each), and the build and benchmark files: none keeps state that other parts could disagree with. Chatterbox
itself, SQLite and the browser are external and appear as what the code relies
on: synthesis that succeeds or fails, constraints that hold, answers that come
in any order.
