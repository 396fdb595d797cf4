----------------------------- MODULE Bootstrap ------------------------------
(***************************************************************************)
(* The move of flat voices reference/<name>/ under reference/<root>/       *)
(* (bootstrap.py), which every boot goes through and any boot may not      *)
(* survive, with what the operator does to the directory between boots and *)
(* the root key does to it while the server runs.                          *)
(*                                                                         *)
(* A voice is two files, its audio and whatever else came with it; a file  *)
(* is the number of the recording it is from.  A directory with no file in *)
(* it is no directory.  reference/<root>/ holds the files of a flat voice  *)
(* called as the root key is, and, one level down, the root key's voices.  *)
(***************************************************************************)
EXTENDS Naturals, FiniteSets

CONSTANTS
  Names,          \* usable voice names
  RootLabel,      \* MIMIC_ROOT_LABEL, a voice name too
  MaxRecordings   \* bound: recordings ever made

ASSUME RootAssumption == RootLabel \in Names
ASSUME BoundAssumption == MaxRecordings \in Nat

VARIABLES
  at,        \* what the process is doing
  flat,      \* reference/<name>/
  staged,    \* reference/.migrate-staging/<name>/
  owned,     \* reference/<root>/<name>/
  aside,     \* reference/.conflict-*: the files no boot looks at again
  listed,    \* names of the root key's rows
  made,      \* recordings ever made
  recorded,  \* history: the files nobody has removed or replaced on purpose
  whole      \* history: recordings that were put there with all their files

disk == <<flat, staged, owned, aside>>
history == <<made, recorded, whole>>
vars == <<at, disk, listed, history>>

File == {"audio", "text"}
None == 0
Place == [Names -> [File -> Nat]]

TypeOK ==
  /\ at \in {"down", "evacuating", "installing", "reconciling", "serving"}
  /\ flat \in Place /\ staged \in Place /\ owned \in Place
  /\ aside \subseteq Names \X File \X Nat
  /\ listed \subseteq Names
  /\ made \in Nat
  /\ recorded \subseteq Names \X File \X Nat
  /\ whole \subseteq Nat

Empty == [f \in File |-> None]

\* The files of voice n in a place, as aside and recorded name them.
Contents(place, n) == {<<n, f, place[n][f]>> : f \in {g \in File : place[n][g] # None}}

\* The directory holds what makes a directory a voice.
HasAudio(place, n) == place[n]["audio"] # None

\* Neither is empty, and only one has the audio.
Incomplete(place, n) == ~HasAudio(place, n) /\ place[n]["text"] # None

Init ==
  /\ at = "down"
  /\ flat = [n \in Names |-> Empty] /\ staged = flat /\ owned = flat
  /\ aside = {} /\ listed = {} /\ made = 0 /\ recorded = {} /\ whole = {}

-----------------------------------------------------------------------------
(* Between boots *)

\* Recording made+1 replaces these files of a voice.
Recorded(place, n, files) ==
  /\ made < MaxRecordings /\ made' = made + 1
  /\ recorded' = (recorded \ {<<n, f, place[n][f]>> : f \in files})
                   \cup {<<n, f, made + 1>> : f \in files}

Replaced(place, n, files) ==
  [place EXCEPT ![n] = [f \in File |-> IF f \in files THEN made + 1 ELSE @[f]]]

\* A server of the flat layout records a voice, or the operator restores one
\* from a backup, entirely or not.
Restore(n, files) ==
  /\ at = "down"
  /\ Recorded(flat, n, files)
  /\ flat' = Replaced(flat, n, files)
  /\ whole' = IF files = File THEN whole \cup {made + 1} ELSE whole
  /\ UNCHANGED <<at, staged, owned, aside, listed>>

Boot ==
  /\ at = "down" /\ at' = "evacuating"
  /\ UNCHANGED <<disk, listed, history>>

Crash ==
  /\ at # "down" /\ at' = "down"
  /\ UNCHANGED <<disk, listed, history>>

-----------------------------------------------------------------------------
(* Evacuate *)

\* Mutant: a voice called as the root key sweeps the root key's voices along.
SiblingsSwept(n) ==
  IF n = RootLabel THEN {m \in Names : owned[m] # Empty} ELSE {}

\* Directories of the root key that are not voices are part of the payload
\* of the flat voice beside them.
Siblings(n) ==
  IF n = RootLabel THEN {m \in Names : Incomplete(owned, m)} ELSE {}

\* Mutant: the files go in the order the directory lists them.
MovableInAnyOrder(n) == SUBSET {f \in File : flat[n][f] # None}

\* What a boot that dies here has moved, or all of it: audio.wav goes last.
Movable(n) ==
  LET payload == {f \in File : flat[n][f] # None}
  IN  (SUBSET (payload \ {"audio"})) \cup {payload}

\* Mutant: a staged file is replaced.
StageOver(n, files) ==
  /\ staged' = [staged EXCEPT ![n] = [f \in File |-> IF f \in files THEN flat[n][f] ELSE @[f]]]
  /\ UNCHANGED aside

\* A file that is staged already stays, the incoming one goes aside.
Stage(n, files) ==
  LET colliding == {f \in files : staged[n][f] # None}
  IN  /\ staged' = [staged EXCEPT ![n] =
                      [f \in File |-> IF f \in files \ colliding THEN flat[n][f] ELSE @[f]]]
      /\ aside' = aside \cup {<<n, f, flat[n][f]>> : f \in colliding}

EvacuateVoice(n) ==
  /\ at = "evacuating" /\ HasAudio(flat, n)
  /\ \E files \in Movable(n) :
       /\ "audio" \in files => Siblings(n) = {}
       /\ Stage(n, files)
       /\ flat' = [flat EXCEPT ![n] = [f \in File |-> IF f \in files THEN None ELSE @[f]]]
       /\ at' = IF "audio" \in files THEN at ELSE "down"
  /\ UNCHANGED <<owned, listed, history>>

\* The incomplete directories beside it go first too.  They end within that
\* voice's own directory, and no boot takes them for voices there.
EvacuateSibling(n, m) ==
  /\ at = "evacuating" /\ HasAudio(flat, n) /\ m \in Siblings(n)
  /\ owned' = [owned EXCEPT ![m] = Empty]
  /\ aside' = aside \cup Contents(owned, m)
  /\ UNCHANGED <<at, flat, staged, listed, history>>

EvacuateDone ==
  /\ at = "evacuating" /\ (\A n \in Names : ~HasAudio(flat, n))
  /\ at' = "installing"
  /\ UNCHANGED <<disk, listed, history>>

-----------------------------------------------------------------------------
(* Install *)

Installing(n) == at = "installing" /\ HasAudio(staged, n)

\* A destination without audio makes way.
ClearDestination(n) ==
  /\ Installing(n) /\ Incomplete(owned, n)
  /\ owned' = [owned EXCEPT ![n] = Empty]
  /\ aside' = aside \cup Contents(owned, n)
  /\ UNCHANGED <<at, flat, staged, listed, history>>

\* A destination that is a voice stays, and the staged one, the same or not,
\* goes aside.
SetAside(n) ==
  /\ Installing(n) /\ HasAudio(owned, n)
  /\ staged' = [staged EXCEPT ![n] = Empty]
  /\ aside' = aside \cup Contents(staged, n)
  /\ UNCHANGED <<at, flat, owned, listed, history>>

Install(n) ==
  /\ Installing(n) /\ owned[n] = Empty
  /\ owned' = [owned EXCEPT ![n] = staged[n]]
  /\ staged' = [staged EXCEPT ![n] = Empty]
  /\ UNCHANGED <<at, flat, aside, listed, history>>

InstallDone ==
  /\ at = "installing" /\ (\A n \in Names : ~HasAudio(staged, n))
  /\ at' = "reconciling"
  /\ UNCHANGED <<disk, listed, history>>

-----------------------------------------------------------------------------
(* Reconcile, and serve *)

Adopt(n) ==
  /\ at = "reconciling" /\ HasAudio(owned, n) /\ n \notin listed
  /\ listed' = listed \cup {n}
  /\ UNCHANGED <<at, disk, history>>

Serve ==
  /\ at = "reconciling" /\ (\A n \in Names : HasAudio(owned, n) => n \in listed)
  /\ at' = "serving"
  /\ UNCHANGED <<disk, listed, history>>

\* register(): audio, text, row; a crash may follow each.
Upload(n) ==
  /\ at = "serving"
  /\ \E files \in {{"audio"}, File} :
       /\ Recorded(owned, n, files)
       /\ owned' = Replaced(owned, n, files)
       /\ \/ files = File /\ listed' = listed \cup {n} /\ UNCHANGED at
          \/ UNCHANGED listed /\ at' = "down"
  /\ UNCHANGED <<flat, staged, aside, whole>>

Removed(n, files) ==
  /\ owned' = [owned EXCEPT ![n] = [f \in File |-> IF f \in files THEN None ELSE @[f]]]
  /\ recorded' = recorded \ {<<n, f, owned[n][f]>> : f \in files}

\* Mutant: the files go before the row.
DeleteFilesFirst(n) ==
  /\ at = "serving" /\ n \in listed
  /\ \E files \in SUBSET File :
       /\ Removed(n, files)
       /\ \/ files = File /\ listed' = listed \ {n} /\ UNCHANGED at
          \/ UNCHANGED listed /\ at' = "down"
  /\ UNCHANGED <<flat, staged, aside, made, whole>>

\* delete(): the row, then the directory, file by file in any order.
Delete(n) ==
  /\ at = "serving" /\ n \in listed
  /\ listed' = listed \ {n}
  /\ \E files \in SUBSET File :
       /\ Removed(n, files)
       /\ at' = IF files = File THEN at ELSE "down"
  /\ UNCHANGED <<flat, staged, aside, made, whole>>

Voice(n) ==
  \/ \E files \in (SUBSET File) \ {{}} : Restore(n, files)
  \/ EvacuateVoice(n)
  \/ \E m \in Names : EvacuateSibling(n, m)
  \/ ClearDestination(n)
  \/ SetAside(n)
  \/ Install(n)
  \/ Adopt(n)
  \/ Upload(n)
  \/ Delete(n)

Next ==
  \/ Boot \/ EvacuateDone \/ InstallDone \/ Serve \/ Crash
  \/ \E n \in Names : Voice(n)

Spec == Init /\ [][Next]_vars
-----------------------------------------------------------------------------
(* Properties *)

\* bootstrap.py:128 and 267 (moved aside instead of destroyed): whatever boots
\* die, and whatever reappears meanwhile, every file that nobody removed or
\* replaced on purpose is still on the disk.
NothingLost ==
  \A r \in recorded :
    r \in aside \/ (\E place \in {flat, staged, owned} : place[r[1]][r[2]] = r[3])

\* bootstrap.py:114-119: no boot that dies leaves part of a flat voice where no
\* later boot picks it up.  Once the server serves, the files of a recording
\* that was there as a whole are with the root key's voices or set aside.
NoneStranded ==
  at = "serving" =>
    \A n \in Names, f \in File : flat[n][f] \notin whole /\ staged[n][f] \notin whole

\* bootstrap.py:54-62: a voice the root key has is never touched by a boot,
\* not even when a flat voice shares its name or the name of its directory.
InstalledUntouched ==
  [][at \notin {"down", "serving"} =>
       (\A n \in Names : HasAudio(owned, n) => owned'[n] = owned[n])]_vars

\* The root key's rows name recordings that are there, through crashes too:
\* delete() drops the row first, register() writes it last, and a boot moves
\* no voice from under its row.
ListedHaveAudio == \A n \in listed : HasAudio(owned, n)
=============================================================================
