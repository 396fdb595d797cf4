-------------------------- MODULE Bootstrap_proofs --------------------------
(***************************************************************************)
(* Proofs about Bootstrap, for any names and any number of recordings.     *)
(***************************************************************************)
EXTENDS Bootstrap, TLAPS

-----------------------------------------------------------------------------
(* The inductive invariant *)

\* What a boot that died left of a whole recording, a later boot still sees:
\* the text waits beside the audio, or ahead of it.
Resumable ==
  /\ whole \subseteq Nat \ {None}
  /\ \A n \in Names :
       /\ flat[n]["text"] \in whole => HasAudio(flat, n)
       /\ staged[n]["text"] \in whole => HasAudio(staged, n) \/ HasAudio(flat, n)

\* What each phase leaves behind for the next.
Phases ==
  /\ at \in {"installing", "reconciling", "serving"} => \A n \in Names : ~HasAudio(flat, n)
  /\ at \in {"reconciling", "serving"} => \A n \in Names : ~HasAudio(staged, n)

\* A file is of a recording already made.
Numbered ==
  /\ \A n \in Names, f \in File :
       flat[n][f] <= made /\ staged[n][f] <= made /\ owned[n][f] <= made
  /\ \A v \in whole : v <= made

IInv == TypeOK /\ Numbered /\ NothingLost /\ ListedHaveAudio /\ Resumable /\ Phases

\* Init establishes it.
LEMMA InitIInv == Init => IInv
  BY DEF Init, IInv, TypeOK, Numbered, NothingLost, ListedHaveAudio, Resumable, Phases, Place, File,
     Empty, None, HasAudio

\* Every action of the process, between its phases or by a crash.
LEMMA StepOnly ==
  ASSUME IInv, Boot \/ EvacuateDone \/ InstallDone \/ Serve \/ Crash
  PROVE  IInv'
  <1>1. UNCHANGED <<flat, staged, owned, aside, listed, made, recorded, whole>>
    BY DEF Boot, EvacuateDone, InstallDone, Serve, Crash, disk, history
  <1>2. TypeOK' /\ Numbered' /\ ListedHaveAudio' /\ Resumable'
    BY <1>1 DEF IInv, Boot, EvacuateDone, InstallDone, Serve, Crash, TypeOK, Numbered,
       ListedHaveAudio, Resumable, HasAudio
  <1>3. NothingLost'
    BY <1>1 DEF IInv, NothingLost
  <1>4. Phases'
    BY <1>1 DEF IInv, Boot, EvacuateDone, InstallDone, Serve, Crash, Phases, HasAudio
  <1> QED
    BY <1>2, <1>3, <1>4 DEF IInv

LEMMA RestoreIInv ==
  ASSUME IInv, NEW n \in Names, NEW files \in (SUBSET File) \ {{}}, Restore(n, files)
  PROVE  IInv'
  <1> USE DEF File, None
  <1>0. /\ flat \in Place /\ made \in Nat /\ at = "down" /\ files \subseteq File
        /\ made' = made + 1
        /\ UNCHANGED <<at, staged, owned, aside, listed>>
        /\ \A m \in Names, f \in File :
             flat'[m][f] = IF m = n /\ f \in files THEN made + 1 ELSE flat[m][f]
        /\ flat' \in Place
    BY DEF IInv, Restore, Recorded, Replaced, TypeOK, Place
  <1>a. /\ recorded' = (recorded \ {<<n, f, flat[n][f]>> : f \in files})
                          \cup {<<n, f, made + 1>> : f \in files}
        /\ whole' \in {whole, whole \cup {made + 1}}
    BY DEF Restore, Recorded
  <1>6. Numbered'
    <2> SUFFICES ASSUME NEW m \in Names, NEW f \in File
                 PROVE  flat'[m][f] <= made' /\ staged'[m][f] <= made' /\ owned'[m][f] <= made'
      BY <1>0, <1>a DEF IInv, TypeOK, Numbered
    <2>1. /\ flat[m][f] \in Nat /\ staged[m][f] \in Nat /\ owned[m][f] \in Nat
          /\ flat[m][f] <= made /\ staged[m][f] <= made /\ owned[m][f] <= made
      BY DEF IInv, TypeOK, Place, Numbered
    <2> QED
      BY <2>1, <1>0
  <1>1. TypeOK'
    <2>1. recorded' \subseteq Names \X File \X Nat
      <3>1. \A f \in files : <<n, f, made + 1>> \in Names \X File \X Nat
        BY <1>0
      <3>2. recorded \subseteq Names \X File \X Nat
        BY DEF IInv, TypeOK
      <3> QED
        BY <3>1, <3>2, <1>a
    <2>2. whole' \subseteq Nat
      BY <1>0, <1>a DEF IInv, TypeOK
    <2> QED
      BY <2>1, <2>2, <1>0 DEF IInv, TypeOK
  <1>2. NothingLost'
    <2> SUFFICES ASSUME NEW r \in recorded'
                 PROVE  r \in aside' \/ \E place \in {flat', staged', owned'} :
                                           place[r[1]][r[2]] = r[3]
      BY DEF NothingLost
    <2>1. CASE r \in {<<n, f, made + 1>> : f \in files}
      BY <2>1, <1>0
    <2>2. CASE r \in recorded /\ r \notin {<<n, f, flat[n][f]>> : f \in files}
      <3>1. r \in Names \X File \X Nat
        BY <2>2 DEF IInv, TypeOK
      <3>2. PICK m \in Names, f \in File, v \in Nat : r = <<m, f, v>>
        BY <3>1
      <3>3. flat[m][f] = v => flat'[m][f] = v
        BY <2>2, <3>2, <1>0
      <3>4. r \in aside \/ flat[m][f] = v \/ staged[m][f] = v \/ owned[m][f] = v
        BY <2>2, <3>2 DEF IInv, NothingLost
      <3> QED
        BY <3>2, <3>3, <3>4, <1>0
    <2> QED
      BY <2>1, <2>2, <1>a
  <1>3. ListedHaveAudio'
    BY DEF IInv, Restore, ListedHaveAudio, HasAudio
  <1>4. Resumable'
    <2>1. whole' \subseteq Nat \ {None}
      BY <1>0, <1>a DEF IInv, Resumable
    <2> SUFFICES ASSUME NEW m \in Names
                 PROVE  /\ flat'[m]["text"] \in whole' => flat'[m]["audio"] # None
                        /\ staged'[m]["text"] \in whole' =>
                             staged'[m]["audio"] # None \/ flat'[m]["audio"] # None
      BY <2>1 DEF Resumable, HasAudio
    <2>2. flat[m]["audio"] # None => flat'[m]["audio"] # None
      BY <1>0
    <2>3. flat[m]["text"] # made + 1 /\ staged[m]["text"] # made + 1
      BY <1>0 DEF IInv, TypeOK, Place, Numbered
    <2>4. flat'[m]["text"] # flat[m]["text"] => flat'[m]["text"] = made + 1
      BY <1>0
    <2>5. CASE files = File
      BY <2>2, <2>3, <2>5, <1>0, <1>a DEF IInv, Resumable, HasAudio
    <2>6. CASE files # File
      <3>1. whole' = whole
        BY <2>6 DEF Restore
      <3>2. made + 1 \notin whole
        BY DEF IInv, TypeOK, Numbered
      <3> QED
        BY <2>2, <2>4, <3>1, <3>2, <1>0 DEF IInv, Resumable, HasAudio
    <2> QED
      BY <2>5, <2>6
  <1>5. Phases'
    BY DEF Restore, Phases
  <1> QED
    BY <1>1, <1>2, <1>3, <1>4, <1>5, <1>6 DEF IInv

LEMMA EvacuateVoiceIInv ==
  ASSUME IInv, NEW n \in Names, EvacuateVoice(n)
  PROVE  IInv'
  <1> USE DEF File, None
  <1>0. PICK files \in Movable(n) :
          /\ Stage(n, files)
          /\ flat' = [flat EXCEPT ![n] = [f \in File |-> IF f \in files THEN None ELSE @[f]]]
          /\ at' = IF "audio" \in files THEN at ELSE "down"
    BY DEF EvacuateVoice
  <1>a. /\ files \subseteq File
        /\ \A f \in files : flat[n][f] # None
        /\ "audio" \in files => \A f \in File \ files : flat[n][f] = None
    BY DEF Movable
  <1>b. UNCHANGED <<owned, listed, made, recorded, whole>>
    BY DEF EvacuateVoice, history
  <1>c. /\ flat' \in Place /\ staged' \in Place
        /\ \A m \in Names, f \in File :
             /\ flat'[m][f] \in {None, flat[m][f]}
             /\ staged'[m][f] \in {staged[m][f], flat[m][f]}
    BY <1>0 DEF IInv, Stage, TypeOK, Place
  <1>1. TypeOK' /\ Numbered'
    <2>1. aside' \subseteq Names \X File \X Nat
      BY <1>0, <1>a DEF IInv, Stage, TypeOK, Place
    <2>2. at' \in {"evacuating", "down"}
      BY <1>0 DEF EvacuateVoice
    <2>3. TypeOK'
      BY <1>b, <1>c, <2>1, <2>2 DEF IInv, TypeOK
    <2>4. Numbered'
      BY <1>b, <1>c DEF IInv, TypeOK, Numbered
    <2> QED
      BY <2>3, <2>4
  <1>2. NothingLost'
    BY <1>0, <1>a, <1>b DEF IInv, Stage, TypeOK, Place, NothingLost
  <1>3. ListedHaveAudio'
    BY <1>b DEF IInv, ListedHaveAudio, HasAudio
  <1>4. Resumable'
    BY <1>0, <1>a, <1>b DEF IInv, EvacuateVoice, Stage, TypeOK, Place, Resumable, HasAudio
  <1>5. Phases'
    BY <1>0 DEF EvacuateVoice, Phases
  <1> QED
    BY <1>1, <1>2, <1>3, <1>4, <1>5 DEF IInv

\* A directory of the root key that goes aside, or makes way, is no voice.
LEMMA MakeWayIInv ==
  ASSUME IInv, NEW n \in Names, Incomplete(owned, n),
         owned' = [owned EXCEPT ![n] = Empty],
         aside' = aside \cup Contents(owned, n),
         UNCHANGED <<at, flat, staged, listed, history>>
  PROVE  IInv'
  <1> USE DEF File, None
  <1>1. TypeOK' /\ Numbered'
    BY DEF IInv, TypeOK, Numbered, Place, Empty, Contents, history
  <1>2. NothingLost'
    BY DEF IInv, TypeOK, Place, Empty, Contents, NothingLost, history
  <1>3. ListedHaveAudio'
    BY DEF IInv, TypeOK, Place, Incomplete, ListedHaveAudio, HasAudio
  <1>4. Resumable' /\ Phases'
    BY DEF IInv, Resumable, Phases, HasAudio, history
  <1> QED
    BY <1>1, <1>2, <1>3, <1>4 DEF IInv

LEMMA SetAsideIInv ==
  ASSUME IInv, NEW n \in Names, SetAside(n)
  PROVE  IInv'
  <1> USE DEF File, None
  <1>1. TypeOK' /\ Numbered'
    BY DEF IInv, SetAside, TypeOK, Numbered, Place, Empty, Contents, history
  <1>2. NothingLost'
    BY DEF IInv, SetAside, TypeOK, Place, Empty, Contents, NothingLost, history
  <1>3. ListedHaveAudio'
    BY DEF IInv, SetAside, ListedHaveAudio, HasAudio
  <1>4. Resumable' /\ Phases'
    BY DEF IInv, SetAside, Installing, TypeOK, Place, Empty, Resumable, Phases, HasAudio, history
  <1> QED
    BY <1>1, <1>2, <1>3, <1>4 DEF IInv

LEMMA InstallIInv ==
  ASSUME IInv, NEW n \in Names, Install(n)
  PROVE  IInv'
  <1> USE DEF File, None
  <1>1. TypeOK' /\ Numbered'
    BY DEF IInv, Install, TypeOK, Numbered, Place, Empty, history
  <1>2. NothingLost'
    BY DEF IInv, Install, TypeOK, Place, Empty, NothingLost, history
  <1>3. ListedHaveAudio'
    BY DEF IInv, Install, Installing, TypeOK, Place, ListedHaveAudio, HasAudio
  <1>4. Resumable' /\ Phases'
    BY DEF IInv, Install, Installing, TypeOK, Place, Empty, Resumable, Phases, HasAudio, history
  <1> QED
    BY <1>1, <1>2, <1>3, <1>4 DEF IInv

LEMMA AdoptIInv ==
  ASSUME IInv, NEW n \in Names, Adopt(n)
  PROVE  IInv'
  BY DEF IInv, Adopt, TypeOK, Numbered, NothingLost, ListedHaveAudio, Resumable, Phases, Place, HasAudio,
     disk, history

LEMMA UploadIInv ==
  ASSUME IInv, NEW n \in Names, Upload(n)
  PROVE  IInv'
  <1> USE DEF File, None
  <1>1. PICK files \in {{"audio"}, File} :
          /\ Recorded(owned, n, files)
          /\ owned' = Replaced(owned, n, files)
          /\ \/ listed' = listed \cup {n} /\ UNCHANGED at
             \/ UNCHANGED listed /\ at' = "down"
    BY DEF Upload
  <1>2. UNCHANGED <<flat, staged, aside, whole>> /\ at = "serving"
    BY DEF Upload
  <1>3. TypeOK' /\ Numbered'
    BY <1>1, <1>2 DEF IInv, Recorded, Replaced, TypeOK, Numbered, Place
  <1>4. NothingLost'
    BY <1>1, <1>2 DEF IInv, Recorded, Replaced, TypeOK, Place, NothingLost
  <1>5. ListedHaveAudio'
    BY <1>1, <1>2 DEF IInv, Recorded, Replaced, TypeOK, Place, ListedHaveAudio, HasAudio
  <1>6. Resumable' /\ Phases'
    BY <1>1, <1>2 DEF IInv, Resumable, Phases, HasAudio
  <1> QED
    BY <1>3, <1>4, <1>5, <1>6 DEF IInv

LEMMA DeleteIInv ==
  ASSUME IInv, NEW n \in Names, Delete(n)
  PROVE  IInv'
  <1> USE DEF File, None
  <1>1. PICK files \in SUBSET File :
          Removed(n, files) /\ at' = IF files = File THEN at ELSE "down"
    BY DEF Delete
  <1>2. /\ UNCHANGED <<flat, staged, aside, made, whole>> /\ at = "serving"
        /\ listed' = listed \ {n}
    BY DEF Delete
  <1>3. TypeOK' /\ Numbered'
    BY <1>1, <1>2 DEF IInv, Removed, TypeOK, Numbered, Place
  <1>4. NothingLost'
    BY <1>1, <1>2 DEF IInv, Removed, TypeOK, Place, NothingLost
  <1>5. ListedHaveAudio'
    BY <1>1, <1>2 DEF IInv, Removed, TypeOK, Place, ListedHaveAudio, HasAudio
  <1>6. Resumable' /\ Phases'
    BY <1>1, <1>2 DEF IInv, Resumable, Phases, HasAudio
  <1> QED
    BY <1>3, <1>4, <1>5, <1>6 DEF IInv

\* Every step preserves the invariant.
LEMMA NextIInv == IInv /\ [Next]_vars => IInv'
  <1> SUFFICES ASSUME IInv, [Next]_vars PROVE IInv'
    OBVIOUS
  <1>1. CASE UNCHANGED vars
    BY <1>1 DEF IInv, TypeOK, Numbered, NothingLost, ListedHaveAudio, Resumable, Phases, HasAudio, vars, disk,
       history
  <1>2. CASE Boot \/ EvacuateDone \/ InstallDone \/ Serve \/ Crash
    BY <1>2, StepOnly
  <1>3. ASSUME NEW n \in Names, Voice(n) PROVE IInv'
    <2>1. CASE \E files \in (SUBSET File) \ {{}} : Restore(n, files)
      BY <2>1, RestoreIInv
    <2>2. CASE EvacuateVoice(n)
      BY <2>2, EvacuateVoiceIInv
    <2>3. CASE \E m \in Names : EvacuateSibling(n, m)
      <3>1. PICK m \in Names : EvacuateSibling(n, m)
        BY <2>3
      <3>2. Incomplete(owned, m)
        BY <3>1 DEF EvacuateSibling, Siblings
      <3> QED
        BY <3>1, <3>2, MakeWayIInv DEF EvacuateSibling
    <2>4. CASE ClearDestination(n)
      BY <2>4, MakeWayIInv DEF ClearDestination
    <2>5. CASE SetAside(n)
      BY <2>5, SetAsideIInv
    <2>6. CASE Install(n)
      BY <2>6, InstallIInv
    <2>7. CASE Adopt(n)
      BY <2>7, AdoptIInv
    <2>8. CASE Upload(n)
      BY <2>8, UploadIInv
    <2>9. CASE Delete(n)
      BY <2>9, DeleteIInv
    <2> QED
      BY <1>3, <2>1, <2>2, <2>3, <2>4, <2>5, <2>6, <2>7, <2>8, <2>9 DEF Voice
  <1> QED
    BY <1>1, <1>2, <1>3 DEF Next

-----------------------------------------------------------------------------
(* Theorems *)

\* The invariant, over every boot, crash and restored backup.
THEOREM Invariance == Spec => []IInv
  BY InitIInv, NextIInv, PTL DEF Spec

\* Every file nobody removed on purpose is still on the disk (bootstrap.py:128, 267).
THEOREM NothingIsLost == Spec => []NothingLost
  <1>1. IInv => NothingLost
    BY DEF IInv
  <1> QED
    BY <1>1, Invariance, PTL

\* Rows of the root key name recordings that are there (voices.py:104-117, 201-206).
THEOREM RowsHaveAudio == Spec => []ListedHaveAudio
  <1>1. IInv => ListedHaveAudio
    BY DEF IInv
  <1> QED
    BY <1>1, Invariance, PTL

\* No interrupted boot leaves part of a voice where none looks for it
\* (bootstrap.py:114-119).
THEOREM NothingStranded == Spec => []NoneStranded
  <1>1. IInv => NoneStranded
    BY DEF IInv, NoneStranded, Phases, Resumable, HasAudio, File, None
  <1> QED
    BY <1>1, Invariance, PTL

\* A boot leaves the root key's voices as they are (bootstrap.py:54-62).
THEOREM InstalledSafe == Spec => InstalledUntouched
  <1>1. IInv /\ [Next]_vars =>
          [at \notin {"down", "serving"} =>
             (\A n \in Names : HasAudio(owned, n) => owned'[n] = owned[n])]_vars
    <2> SUFFICES ASSUME IInv, Next, at \notin {"down", "serving"},
                        NEW n \in Names, HasAudio(owned, n)
                 PROVE  owned'[n] = owned[n]
      OBVIOUS
    <2>1. owned \in Place
      BY DEF IInv, TypeOK
    <2>2. CASE UNCHANGED owned
      BY <2>2
    <2>3. ASSUME NEW m \in Names, NEW k \in Names,
                 EvacuateSibling(k, m) \/ ClearDestination(m)
          PROVE  owned'[n] = owned[n]
      <3>1. m # n
        BY <2>3 DEF EvacuateSibling, ClearDestination, Siblings, Incomplete
      <3> QED
        BY <2>1, <2>3, <3>1 DEF EvacuateSibling, ClearDestination, Place
    <2>4. ASSUME NEW m \in Names, Install(m) PROVE owned'[n] = owned[n]
      <3>1. m # n
        BY <2>4 DEF Install, HasAudio, Empty, File, None
      <3> QED
        BY <2>1, <2>4, <3>1 DEF Install, Place
    <2> QED
      BY <2>2, <2>3, <2>4 DEF Next, Voice, Boot, EvacuateDone, InstallDone, Serve, Crash, Restore,
         EvacuateVoice, SetAside, Adopt, Upload, Delete, disk
  <1> QED
    BY <1>1, Invariance, PTL DEF Spec, InstalledUntouched
=============================================================================
