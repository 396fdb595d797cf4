--------------------------- MODULE Registry_proofs ---------------------------
(***************************************************************************)
(* The registry's safety for any number of labels, voice names, concurrent *)
(* requests, crashes, and any bodies the administrators send.  IInv is     *)
(* inductive, and WInv is on top of it; a lemma takes each of them through *)
(* each action.  The action properties follow from both.                   *)
(***************************************************************************)
EXTENDS Registry, FiniteSetTheorems, TLAPS

-----------------------------------------------------------------------------
(* Rows *)

LEMMA PatchedIsKey ==
  ASSUME NEW k \in Key, NEW fields \in PatchBodies
  PROVE  /\ Patched(k, fields) \in Key
         /\ Patched(k, fields).id = k.id
         /\ Patched(k, fields).label = k.label
         /\ Patched(k, fields).managed_by_env = k.managed_by_env
<1>1. /\ Sent(fields, "enabled", k.enabled) \in BOOLEAN
      /\ Sent(fields, "expires", k.expires) \in Expiries
      /\ Sent(fields, "role", k.role) \in Roles
      /\ Sent(fields, "can_upload", k.can_upload) \in BOOLEAN
      /\ Sent(fields, "max_voices", k.max_voices) \in Nat
  BY BodyAssumption DEF Sent, Key
<1> QED
  BY <1>1 DEF Patched, Key

\* What the allowlist leaves of a patch to the root key.
LEMMA PatchedRoot ==
  ASSUME NEW k \in Key, NEW fields \in PatchBodies, MayPatch(k, fields), k.managed_by_env
  PROVE  /\ Patched(k, fields).role = k.role
         /\ Patched(k, fields).enabled = k.enabled
         /\ Patched(k, fields).expires = k.expires
<1>1. "role" \notin DOMAIN fields /\ "enabled" \notin DOMAIN fields
      /\ "expires" \notin DOMAIN fields
  BY DEF MayPatch, RootPatchable
<1> QED
  BY <1>1 DEF Patched, Sent, Key

\* A step that gives no id a new label.
LabelsStable ==
  /\ nextKey' \in Nat /\ nextKey <= nextKey'
  /\ \A k2 \in keys' : k2.id < nextKey =>
       \E k \in keys : k.id = k2.id /\ k.label = k2.label

LEMMA LabelsStay ==
  ASSUME nextKey \in Nat, LabelsStable, NEW i \in Nat, NEW label, LabelOfId(i, label)
  PROVE  i < nextKey' /\ \A k \in keys' : k.id = i => k.label = label
BY DEF LabelsStable, LabelOfId

LEMMA FilesStay ==
  ASSUME TypeOK, FilesKnown, LabelsStable, UNCHANGED disk
  PROVE  FilesKnown'
<1> SUFFICES ASSUME NEW label \in Labels, NEW n \in Names
             PROVE  /\ audio'[<<label, n>>] # None => LabelOfId(audio[<<label, n>>], label)'
                    /\ text'[<<label, n>>] # None => LabelOfId(text[<<label, n>>], label)'
  BY DEF FilesKnown
<1> DEFINE a == audio[<<label, n>>]
           t == text[<<label, n>>]
<1>1. a \in Nat \cup {None} /\ t \in Nat \cup {None} /\ nextKey \in Nat
  BY DEF TypeOK, Dirs
<1>2. (a # None => LabelOfId(a, label)) /\ (t # None => LabelOfId(t, label))
  BY DEF FilesKnown
<1>3. a # None => a < nextKey' /\ \A k \in keys' : k.id = a => k.label = label
  BY <1>1, <1>2, LabelsStay
<1>4. t # None => t < nextKey' /\ \A k \in keys' : k.id = t => k.label = label
  BY <1>1, <1>2, LabelsStay
<1> QED
  BY <1>3, <1>4 DEF LabelOfId, disk

\* A request a step leaves in the server keeps what is known of its caller.
LEMMA CallerStays ==
  ASSUME TypeOK, CallersKnown, LabelsStable, phase' = phase, NEW c \in Conns,
         pc[c] # "idle", caller'[c] = caller[c]
  PROVE  /\ phase' = "serving" /\ caller'[c] \in Key
         /\ LabelOfId(caller[c].id, caller[c].label)'
<1>1. phase = "serving" /\ caller[c] \in Key /\ LabelOfId(caller[c].id, caller[c].label)
  BY DEF CallersKnown
<1>2. caller[c].id \in Nat /\ nextKey \in Nat
  BY <1>1 DEF Key, TypeOK
<1>3. /\ caller[c].id < nextKey'
      /\ \A k \in keys' : k.id = caller[c].id => k.label = caller[c].label
  BY <1>1, <1>2, LabelsStay
<1> QED
  BY <1>1, <1>3 DEF LabelOfId

\* What ends one request leaves the others as they were known.
LEMMA OthersStay ==
  ASSUME IInv, LabelsStable, phase' = phase, NEW c \in Conns, Done(c),
         LoopFree \/ pc[c] \in Holding
  PROVE  CallersKnown' /\ JobsKnown' /\ OneHolder'
<1>1. ASSUME NEW d \in Conns, d # c
      PROVE  pc'[d] = pc[d] /\ caller'[d] = caller[d] /\ job'[d] = job[d]
  BY <1>1 DEF Done, IInv, TypeOK
<1>2. pc'[c] = "idle"
  BY DEF Done, IInv, TypeOK
<1>3. ASSUME NEW d \in Conns, d # c PROVE pc[d] \notin Holding
  BY <1>3 DEF IInv, OneHolder, LoopFree, Waiting, Holding
<1>4. CallersKnown'
  BY <1>1, <1>2, CallerStays DEF CallersKnown, IInv
<1>5. JobsKnown'
  <2> SUFFICES ASSUME NEW d \in Conns, d # c
      PROVE /\ pc'[d] \in {"uploading", "wroteAudio", "wroteText"} =>
                 job'[d].label = caller'[d].label /\ \E n \in Names : job'[d].names = {n}
            /\ pc'[d] \notin Holding
    BY <1>2 DEF JobsKnown, Holding
  <2> QED
    BY <1>1, <1>3 DEF JobsKnown, IInv
<1>6. OneHolder'
  BY <1>1, <1>2, <1>3 DEF OneHolder, Holding
<1> QED
  BY <1>4, <1>5, <1>6

LEMMA DoneTypes ==
  ASSUME TypeOK, NEW c \in Conns, Done(c)
  PROVE  /\ pc' \in [Conns -> Waiting \cup Holding]
         /\ caller' \in [Conns -> Key \cup {None}]
         /\ job' \in [Conns -> [label : Labels, names : SUBSET Names]]
BY RootAssumption DEF TypeOK, Done, NoJob, Waiting

\* An UPDATE of one row: its id, label and managed_by_env stay.
LEMMA UpdateKey ==
  ASSUME IInv, NEW k \in keys, NEW k1 \in Key,
         k1.id = k.id, k1.label = k.label, k1.managed_by_env = k.managed_by_env,
         k.managed_by_env => /\ k1.role = k.role /\ k1.enabled = k.enabled
                             /\ k1.expires = k.expires,
         keys' = (keys \ {k}) \cup {k1},
         UNCHANGED <<voices, grants, nextKey, nextVoice, disk, server>>
  PROVE  /\ LabelsStable /\ keys' \subseteq Key
         /\ ReferentialIntegrity' /\ IdsFresh' /\ RootKnown' /\ FilesKnown'
<1> USE DEF IInv
<1>1. keys' \subseteq Key /\ k \in Key /\ keys \subseteq Key
  BY DEF TypeOK
<1>2. LabelsStable
  BY <1>1 DEF LabelsStable, TypeOK
<1>3. KeysUnique'
  BY DEF ReferentialIntegrity, KeysUnique
<1>4. Ids' = Ids
  BY DEF Ids
<1>5. VoicesUnique' /\ ForeignKeys'
  BY <1>4 DEF ReferentialIntegrity, VoicesUnique, ForeignKeys
<1>6. IdsFresh'
  BY DEF IdsFresh
<1>7. RootKnown'
  <2>1. \A r \in keys' : r.managed_by_env <=> r.label = RootLabel
    BY DEF RootKnown
  <2>2. ASSUME phase # "down"
        PROVE  \E r \in keys' : /\ r.label = RootLabel /\ IsAdmin(r)
                                /\ r.enabled /\ r.expires = "never"
    <3>1. PICK r \in keys : r.label = RootLabel /\ IsAdmin(r) /\ r.enabled /\ r.expires = "never"
      BY <2>2 DEF RootKnown
    <3>2. CASE r = k
      BY <3>1, <3>2 DEF RootKnown, IsAdmin
    <3>3. CASE r # k
      BY <3>1, <3>3
    <3> QED
      BY <3>2, <3>3
  <2>3. ASSUME phase # "down"
        PROVE  /\ rootKey \in Key /\ rootKey.label = RootLabel
               /\ \E r \in keys' : r.id = rootKey.id /\ r.label = RootLabel
    BY <2>3 DEF RootKnown
  <2> QED
    BY <2>1, <2>2, <2>3 DEF RootKnown, server, IsAdmin
<1>8. FilesKnown'
  BY <1>2, FilesStay
<1> QED
  BY <1>1, <1>2, <1>3, <1>5, <1>6, <1>7, <1>8 DEF ReferentialIntegrity

LEMMA KeysStay ==
  ASSUME IInv, UNCHANGED <<keys, nextKey, server>>
  PROVE  LabelsStable /\ RootKnown' /\ KeysUnique' /\ Ids' = Ids
<1>1. LabelsStable
  BY DEF LabelsStable, IInv, TypeOK
<1> QED
  BY <1>1 DEF IInv, RootKnown, ReferentialIntegrity, KeysUnique, Ids, server, IsAdmin

LEMMA TablesStay ==
  ASSUME IInv, UNCHANGED tables
  PROVE  LabelsStable /\ ReferentialIntegrity' /\ IdsFresh'
<1>1. LabelsStable
  BY DEF LabelsStable, IInv, TypeOK, tables
<1> QED
  BY <1>1 DEF IInv, ReferentialIntegrity, KeysUnique, VoicesUnique, ForeignKeys, Ids,
              IdsFresh, tables

-----------------------------------------------------------------------------
(* Key management *)

LEMMA UpdateStep ==
  ASSUME IInv, NEW c \in Conns, LoopFree, Done(c), NEW k \in keys, NEW k1 \in Key,
         k1.id = k.id, k1.label = k.label, k1.managed_by_env = k.managed_by_env,
         k.managed_by_env => /\ k1.role = k.role /\ k1.enabled = k.enabled
                             /\ k1.expires = k.expires,
         keys' = (keys \ {k}) \cup {k1},
         UNCHANGED <<voices, grants, nextKey, nextVoice, disk, server>>
  PROVE  IInv'
<1>1. /\ LabelsStable /\ keys' \subseteq Key
      /\ ReferentialIntegrity' /\ IdsFresh' /\ RootKnown' /\ FilesKnown'
  BY UpdateKey
<1>2. CallersKnown' /\ JobsKnown' /\ OneHolder'
  BY <1>1, OthersStay DEF server
<1>3. TypeOK'
  BY <1>1, DoneTypes DEF IInv, TypeOK, disk, server
<1> QED
  BY <1>1, <1>2, <1>3 DEF IInv

LEMMA PatchKeyInv ==
  ASSUME IInv, NEW c \in Conns, PatchKey(c)
  PROVE  IInv'
<1>1. PICK k \in keys, fields \in PatchBodies :
        MayPatch(k, fields) /\ keys' = (keys \ {k}) \cup {Patched(k, fields)}
  BY DEF PatchKey
<1>2. k \in Key
  BY DEF IInv, TypeOK
<1> QED
  BY <1>1, <1>2, PatchedIsKey, PatchedRoot, UpdateStep
     DEF PatchKey, Administering, Handling

LEMMA RevokeKeyInv ==
  ASSUME IInv, NEW c \in Conns, RevokeKey(c)
  PROVE  IInv'
<1>1. PICK k \in keys : ~k.managed_by_env
                        /\ keys' = (keys \ {k}) \cup {[k EXCEPT !.enabled = FALSE]}
  BY DEF RevokeKey
<1> DEFINE k1 == [k EXCEPT !.enabled = FALSE]
<1>2. k \in Key
  BY DEF IInv, TypeOK
<1>3. /\ k1 \in Key /\ k1.id = k.id /\ k1.label = k.label
      /\ k1.managed_by_env = k.managed_by_env
  BY <1>2 DEF Key
<1> QED
  BY <1>1, <1>3, UpdateStep DEF RevokeKey, Administering, Handling

LEMMA ExpireInv ==
  ASSUME IInv, Expire
  PROVE  IInv'
<1>1. PICK k \in keys : k.expires = "later"
                        /\ keys' = (keys \ {k}) \cup {[k EXCEPT !.expires = "past"]}
  BY DEF Expire
<1> DEFINE k1 == [k EXCEPT !.expires = "past"]
<1>2. k \in Key
  BY DEF IInv, TypeOK
<1>3. /\ k1 \in Key /\ k1.id = k.id /\ k1.label = k.label
      /\ k1.managed_by_env = k.managed_by_env
  BY <1>2 DEF Key, Expiries
<1>4. ~k.managed_by_env
  <2>1. PICK r \in keys : r.label = RootLabel /\ r.expires = "never"
    BY DEF IInv, RootKnown, Expire
  <2>2. r # k
    BY <1>1, <2>1
  <2> QED
    BY <2>1, <2>2 DEF IInv, RootKnown, ReferentialIntegrity, KeysUnique
<1>5. /\ LabelsStable /\ keys' \subseteq Key
      /\ ReferentialIntegrity' /\ IdsFresh' /\ RootKnown' /\ FilesKnown'
  <2> HIDE DEF k1
  <2> QED
    BY <1>1, <1>3, <1>4, UpdateKey DEF Expire, k1
<1>6. CallersKnown'
  BY <1>5, CallerStays DEF Expire, IInv, CallersKnown, server, requests
<1>7. JobsKnown' /\ OneHolder'
  BY DEF Expire, IInv, JobsKnown, OneHolder, requests, Find, Owned
<1>8. TypeOK'
  BY <1>5 DEF Expire, IInv, TypeOK, disk, server, requests
<1> QED
  BY <1>5, <1>6, <1>7, <1>8 DEF IInv

LEMMA MintKeyInv ==
  ASSUME IInv, NEW c \in Conns, MintKey(c)
  PROVE  IInv'
<1>1. PICK label \in Labels, b \in MintBodies :
        /\ ~\E k \in keys : k.label = label
        /\ keys' = keys \cup {[id |-> nextKey, label |-> label, role |-> b.role,
             enabled |-> TRUE, expires |-> b.expires, can_upload |-> b.can_upload,
             max_voices |-> b.max_voices, managed_by_env |-> FALSE]}
  BY DEF MintKey
<1> DEFINE new == [id |-> nextKey, label |-> label, role |-> b.role,
             enabled |-> TRUE, expires |-> b.expires, can_upload |-> b.can_upload,
             max_voices |-> b.max_voices, managed_by_env |-> FALSE]
<1>2. new \in Key
  BY BodyAssumption DEF IInv, TypeOK, Key
<1>3. new.id = nextKey /\ new.label = label /\ ~new.managed_by_env
  OBVIOUS
<1>4. keys' = keys \cup {new}
  BY <1>1
<1> HIDE DEF new
<1>5. nextKey \in Nat /\ nextKey' = nextKey + 1 /\ keys \subseteq Key
      /\ \A k \in keys : k.id < nextKey /\ k.id \in Nat
  BY DEF MintKey, IInv, TypeOK, IdsFresh, Key
<1>6. LabelsStable
  BY <1>3, <1>4, <1>5 DEF LabelsStable
<1>7. phase = "serving" /\ phase' = phase /\ rootKey' = rootKey
  BY DEF MintKey, Administering, Handling, IInv, CallersKnown, server
<1>8. KeysUnique'
  BY <1>1, <1>3, <1>4, <1>5 DEF IInv, ReferentialIntegrity, KeysUnique
<1>9. VoicesUnique' /\ ForeignKeys'
  <2>1. Ids \subseteq Ids'
    BY <1>4 DEF Ids
  <2> QED
    BY <2>1 DEF MintKey, IInv, ReferentialIntegrity, VoicesUnique, ForeignKeys
<1>10. IdsFresh'
  BY <1>3, <1>4, <1>5 DEF IdsFresh, MintKey, IInv
<1>11. RootKnown'
  BY <1>1, <1>3, <1>4, <1>7 DEF IInv, RootKnown, IsAdmin
<1>12. FilesKnown'
  BY <1>6, FilesStay DEF MintKey, IInv
<1>13. CallersKnown' /\ JobsKnown' /\ OneHolder'
  BY <1>6, <1>7, OthersStay DEF MintKey, Administering, Handling
<1>14. TypeOK'
  BY <1>2, <1>4, <1>5, DoneTypes DEF MintKey, IInv, TypeOK, disk, server
<1> QED
  BY <1>8, <1>9, <1>10, <1>11, <1>12, <1>13, <1>14 DEF IInv, ReferentialIntegrity

\* A request that goes on, of its own accord, from one waiting point or
\* step to the next: what has to be known of it before and after.
LEMMA RequestGoesOn ==
  ASSUME IInv, NEW c \in Conns, LabelsStable, phase' = phase,
         LoopFree \/ pc[c] \in Holding, pc[c] # "idle", caller' = caller,
         NEW to \in Waiting \cup Holding, pc' = [pc EXCEPT ![c] = to],
         NEW work \in [label : Labels, names : SUBSET Names],
         job' = [job EXCEPT ![c] = work],
         to \in {"uploading", "wroteAudio", "wroteText"} =>
           work.label = caller[c].label /\ \E n \in Names : work.names = {n},
         to = "wroteText" => \A n \in work.names : Find(caller[c], n)' = {},
         to = "purging" => work.label # RootLabel
  PROVE  CallersKnown' /\ JobsKnown' /\ OneHolder' 
<1>1. ASSUME NEW d \in Conns, d # c PROVE pc'[d] = pc[d] /\ job'[d] = job[d] /\ pc[d] \notin Holding
  BY <1>1 DEF IInv, TypeOK, OneHolder, LoopFree, Waiting, Holding
<1>2. pc'[c] = to /\ job'[c] = work
  BY DEF IInv, TypeOK
<1>3. CallersKnown'
  BY <1>1, <1>2, CallerStays DEF CallersKnown, IInv
<1>4. ASSUME NEW d \in Conns
      PROVE  /\ pc'[d] \in {"uploading", "wroteAudio", "wroteText"} =>
                  job'[d].label = caller'[d].label /\ \E n \in Names : job'[d].names = {n}
             /\ pc'[d] = "wroteText" => \A n \in job'[d].names : Find(caller[d], n)' = {}
             /\ pc'[d] = "purging" => job'[d].label # RootLabel
  <2>1. CASE d = c
    BY <1>2, <2>1
  <2>2. CASE d # c
    BY <1>1, <2>2 DEF IInv, JobsKnown, Holding
  <2> QED
    BY <2>1, <2>2
<1>5. JobsKnown'
  BY <1>4 DEF JobsKnown
<1>6. OneHolder'
  BY <1>1 DEF OneHolder
<1> QED
  BY <1>3, <1>5, <1>6

LEMMA StartPurgeInv ==
  ASSUME IInv, NEW c \in Conns, StartPurge(c)
  PROVE  IInv'
<1>1. PICK k \in keys :
        /\ ~k.managed_by_env
        /\ job' = [job EXCEPT ![c] = [label |-> k.label, names |-> {v.name : v \in Owned(k)}]]
  BY DEF StartPurge
<1> DEFINE work == [label |-> k.label, names |-> {v.name : v \in Owned(k)}]
<1>2. work \in [label : Labels, names : SUBSET Names] /\ work.label # RootLabel
  BY <1>1 DEF IInv, TypeOK, Key, Voice, Owned, RootKnown
<1>3. LabelsStable /\ ReferentialIntegrity' /\ IdsFresh'
  BY TablesStay DEF StartPurge
<1>0. /\ job' = [job EXCEPT ![c] = work] /\ pc' = [pc EXCEPT ![c] = "purging"]
      /\ LoopFree /\ pc[c] = "authed" /\ caller' = caller /\ phase' = phase
  BY <1>1 DEF StartPurge, Administering, Handling, server
<1> HIDE DEF work
<1>4. CallersKnown' /\ JobsKnown' /\ OneHolder'
  <2>1. "purging" \in Waiting \cup Holding
    BY DEF Holding
  <2> QED
    BY <1>0, <1>2, <1>3, <2>1, RequestGoesOn
<1>5. RootKnown'
  BY KeysStay DEF StartPurge, tables
<1>6. FilesKnown'
  BY <1>3, FilesStay DEF StartPurge, IInv
<1>7. TypeOK'
  BY <1>1, <1>2 DEF StartPurge, IInv, TypeOK, tables, disk, server, Holding, work
<1> QED
  BY <1>3, <1>4, <1>5, <1>6, <1>7 DEF IInv

LEMMA RemoveDirKnown ==
  ASSUME IInv, LabelsStable, NEW label \in Labels, NEW n \in Names, RemoveDir(label, n)
  PROVE  /\ FilesKnown'
         /\ audio' \in [Dirs -> Nat \cup {None}] /\ text' \in [Dirs -> Nat \cup {None}]
<1>1. /\ audio' \in [Dirs -> Nat \cup {None}] /\ text' \in [Dirs -> Nat \cup {None}]
      /\ nextKey \in Nat
  BY DEF RemoveDir, IInv, TypeOK
<1>2. ASSUME NEW l \in Labels, NEW m \in Names, NEW i \in {audio[<<l, m>>], text[<<l, m>>]},
             i # None
      PROVE  i < nextKey' /\ \A k \in keys' : k.id = i => k.label = l
  <2>1. i \in Nat /\ LabelOfId(i, l)
    BY <1>2 DEF IInv, TypeOK, FilesKnown, Dirs
  <2> QED
    BY <1>1, <2>1, LabelsStay
<1>3. ASSUME NEW l \in Labels, NEW m \in Names
      PROVE  /\ audio'[<<l, m>>] \in {None, audio[<<l, m>>]}
             /\ text'[<<l, m>>] \in {None, text[<<l, m>>]}
  BY DEF RemoveDir, IInv, TypeOK, Dirs
<1>4. FilesKnown'
  <2> SUFFICES ASSUME NEW l \in Labels, NEW m \in Names
      PROVE  /\ audio'[<<l, m>>] # None => LabelOfId(audio[<<l, m>>], l)'
             /\ text'[<<l, m>>] # None => LabelOfId(text[<<l, m>>], l)'
    BY DEF FilesKnown
  <2> QED
    BY <1>2, <1>3 DEF LabelOfId
<1> QED
  BY <1>1, <1>4

LEMMA PurgeDirInv ==
  ASSUME IInv, NEW c \in Conns, PurgeDir(c)
  PROVE  IInv'
<1>1. PICK n \in job[c].names : /\ RemoveDir(job[c].label, n)
                                /\ job' = [job EXCEPT ![c].names = @ \ {n}]
  BY DEF PurgeDir
<1> DEFINE work == [job[c] EXCEPT !.names = @ \ {n}]
<1>9. job[c] \in [label : Labels, names : SUBSET Names] /\ pc[c] = "purging"
      /\ job[c].label # RootLabel
  BY DEF PurgeDir, IInv, TypeOK, JobsKnown
<1>2. /\ work \in [label : Labels, names : SUBSET Names]
      /\ work.label = job[c].label /\ n \in Names /\ job[c].label \in Labels
      /\ job' = [job EXCEPT ![c] = work]
  BY <1>1, <1>9
<1>3. pc' = [pc EXCEPT ![c] = "purging"]
  BY <1>9 DEF PurgeDir, IInv, TypeOK
<1>4. LabelsStable /\ ReferentialIntegrity' /\ IdsFresh'
  BY TablesStay DEF PurgeDir
<1> HIDE DEF work
<1>5. CallersKnown' /\ JobsKnown' /\ OneHolder'
  BY <1>2, <1>3, <1>4, <1>9, RequestGoesOn DEF PurgeDir, server, Holding
<1>6. /\ FilesKnown'
      /\ audio' \in [Dirs -> Nat \cup {None}] /\ text' \in [Dirs -> Nat \cup {None}]
  BY <1>1, <1>2, <1>4, RemoveDirKnown
<1>7. RootKnown'
  BY KeysStay DEF PurgeDir, tables
<1>8. TypeOK'
  BY <1>2, <1>6 DEF PurgeDir, IInv, TypeOK, tables, server
<1> QED
  BY <1>4, <1>5, <1>6, <1>7, <1>8 DEF IInv

\* The rows a cascade leaves satisfy what the schema promises.
LEMMA CascadeKeepsIntegrity ==
  ASSUME IInv, NEW ks \in SUBSET keys, NEW vs \in SUBSET voices, Cascade(ks, vs),
         UNCHANGED <<nextKey, nextVoice>>
  PROVE  /\ LabelsStable /\ ReferentialIntegrity' /\ IdsFresh'
         /\ keys' \subseteq keys /\ voices' \subseteq voices /\ grants' \subseteq grants
<1> DEFINE gone == vs \cup {v \in voices : \E k \in ks : v.owner = k.id}
<1>1. /\ keys' = keys \ ks /\ voices' = voices \ gone
      /\ grants' = {g \in grants : /\ \A v \in gone : g.voice # v.id
                                   /\ \A k \in ks : g.grantee # k.id}
  BY DEF Cascade
<1>2. LabelsStable
  BY <1>1 DEF LabelsStable, IInv, TypeOK
<1>3. KeysUnique' /\ VoicesUnique' /\ IdsFresh'
  BY <1>1 DEF IInv, ReferentialIntegrity, KeysUnique, VoicesUnique, IdsFresh
<1>4. \A v \in voices' : v.owner \in Ids'
  BY <1>1 DEF IInv, ReferentialIntegrity, ForeignKeys, Ids
<1>5. \A g \in grants' : g.grantee \in Ids' /\ \E v \in voices' : v.id = g.voice
  BY <1>1 DEF IInv, ReferentialIntegrity, ForeignKeys, Ids
<1> QED
  BY <1>1, <1>2, <1>3, <1>4, <1>5 DEF ReferentialIntegrity, ForeignKeys

LEMMA PurgeKeyInv ==
  ASSUME IInv, NEW c \in Conns, PurgeKey(c)
  PROVE  IInv'
<1> DEFINE ks == {k \in keys : k.label = job[c].label}
<1>1. Cascade(ks, {}) /\ UNCHANGED <<nextKey, nextVoice, disk, server>> /\ Done(c)
  BY DEF PurgeKey
<1>2. /\ LabelsStable /\ ReferentialIntegrity' /\ IdsFresh'
      /\ keys' \subseteq keys /\ voices' \subseteq voices /\ grants' \subseteq grants
  BY <1>1, CascadeKeepsIntegrity
<1>3. job[c].label # RootLabel /\ pc[c] \in Holding
  BY DEF PurgeKey, IInv, JobsKnown, Holding
<1>4. \A k \in keys : k.label = RootLabel => k \in keys'
  BY <1>1, <1>3 DEF Cascade
<1>5. RootKnown'
  BY <1>1, <1>2, <1>4 DEF IInv, RootKnown, server, IsAdmin
<1>6. FilesKnown'
  BY <1>1, <1>2, FilesStay DEF IInv
<1>7. CallersKnown' /\ JobsKnown' /\ OneHolder'
  BY <1>1, <1>2, <1>3, OthersStay DEF server
<1>8. TypeOK'
  BY <1>1, <1>2, DoneTypes DEF IInv, TypeOK, disk, server
<1> QED
  BY <1>2, <1>5, <1>6, <1>7, <1>8 DEF IInv

-----------------------------------------------------------------------------
(* Voices *)

LEMMA BeginUploadInv ==
  ASSUME IInv, NEW c \in Conns, BeginUpload(c)
  PROVE  IInv'
<1>1. PICK n \in Names :
        job' = [job EXCEPT ![c] = [label |-> caller[c].label, names |-> {n}]]
  BY DEF BeginUpload
<1> DEFINE work == [label |-> caller[c].label, names |-> {n}]
<1>2. /\ pc' = [pc EXCEPT ![c] = "uploading"] /\ job' = [job EXCEPT ![c] = work]
      /\ LoopFree /\ pc[c] = "authed" /\ caller' = caller /\ phase' = phase
      /\ UNCHANGED <<tables, disk, server>>
  BY <1>1 DEF BeginUpload, Handling, server
<1>3. work \in [label : Labels, names : SUBSET Names]
  BY <1>2 DEF IInv, CallersKnown, Key
<1>4. LabelsStable /\ ReferentialIntegrity' /\ IdsFresh' /\ RootKnown'
  BY <1>2, TablesStay, KeysStay DEF tables
<1>5. work.label = caller[c].label /\ \E m \in Names : work.names = {m}
  OBVIOUS
<1>6. "uploading" \in Waiting \cup Holding
  BY DEF Waiting
<1> HIDE DEF work
<1>7. CallersKnown' /\ JobsKnown' /\ OneHolder'
  BY <1>2, <1>3, <1>4, <1>5, <1>6, RequestGoesOn
<1>8. FilesKnown'
  BY <1>2, <1>4, FilesStay DEF IInv
<1>9. TypeOK'
  BY <1>2, <1>3, <1>6 DEF IInv, TypeOK, tables, disk, server
<1> QED
  BY <1>4, <1>7, <1>8, <1>9 DEF IInv

\* A file written under the caller's label is by an id of that label.
LEMMA WrittenKnown ==
  ASSUME IInv, UNCHANGED tables, NEW c \in Conns, pc[c] # "idle", NEW n \in Names,
         NEW d, d = <<caller[c].label, n>>,
         audio' \in {audio, [audio EXCEPT ![d] = caller[c].id]},
         text' \in {text, [text EXCEPT ![d] = caller[c].id]}
  PROVE  /\ FilesKnown'
         /\ audio' \in [Dirs -> Nat \cup {None}] /\ text' \in [Dirs -> Nat \cup {None}]
<1>1. caller[c] \in Key /\ LabelOfId(caller[c].id, caller[c].label)
  BY DEF IInv, CallersKnown
<1>2. caller[c].id \in Nat /\ d \in Dirs
  BY <1>1 DEF Key, Dirs
<1>3. /\ audio' \in [Dirs -> Nat \cup {None}] /\ text' \in [Dirs -> Nat \cup {None}]
      /\ audio \in [Dirs -> Nat \cup {None}] /\ text \in [Dirs -> Nat \cup {None}]
  BY <1>2 DEF IInv, TypeOK
<1>4. ASSUME NEW l \in Labels, NEW m \in Names,
             NEW i \in {audio'[<<l, m>>], text'[<<l, m>>]}, i # None
      PROVE  LabelOfId(i, l)
  <2>1. /\ audio[<<l, m>>] # None => LabelOfId(audio[<<l, m>>], l)
        /\ text[<<l, m>>] # None => LabelOfId(text[<<l, m>>], l)
    BY DEF IInv, FilesKnown
  <2>2. CASE <<l, m>> = d
    <3>1. l = caller[c].label
      BY <2>2
    <3>2. i \in {caller[c].id, audio[<<l, m>>], text[<<l, m>>]}
      BY <1>2, <1>3, <1>4, <2>2
    <3> QED
      BY <1>1, <1>4, <2>1, <3>1, <3>2
  <2>3. CASE <<l, m>> # d
    <3>1. <<l, m>> \in Dirs
      BY DEF Dirs
    <3>2. i \in {audio[<<l, m>>], text[<<l, m>>]}
      BY <1>3, <1>4, <2>3, <3>1
    <3> QED
      BY <1>4, <2>1, <3>2
  <2> QED
    BY <2>2, <2>3
<1>5. FilesKnown'
  <2> SUFFICES ASSUME NEW l \in Labels, NEW m \in Names
      PROVE  /\ audio'[<<l, m>>] # None => LabelOfId(audio[<<l, m>>], l)'
             /\ text'[<<l, m>>] # None => LabelOfId(text[<<l, m>>], l)'
    BY DEF FilesKnown
  <2> QED
    BY <1>4 DEF LabelOfId, tables
<1> QED
  BY <1>3, <1>5

LEMMA WriteAudioInv ==
  ASSUME IInv, NEW c \in Conns, WriteAudio(c)
  PROVE  IInv'
<1>1. /\ job[c].label = caller[c].label /\ (\E m \in Names : job[c].names = {m})
      /\ job[c] \in [label : Labels, names : SUBSET Names]
      /\ UNCHANGED tables /\ LoopFree /\ pc[c] = "uploading"
  BY DEF WriteAudio, IInv, JobsKnown, TypeOK
<1>2. PICK n \in Names : audio' = [audio EXCEPT ![<<caller[c].label, n>>] = caller[c].id]
  BY <1>1 DEF WriteAudio
<1>3. /\ FilesKnown'
      /\ audio' \in [Dirs -> Nat \cup {None}] /\ text' \in [Dirs -> Nat \cup {None}]
  BY <1>1, <1>2, WrittenKnown DEF WriteAudio
<1>4. LabelsStable /\ ReferentialIntegrity' /\ IdsFresh' /\ RootKnown'
  BY TablesStay, KeysStay DEF WriteAudio, tables
<1>5. /\ pc' = [pc EXCEPT ![c] = "wroteAudio"] /\ job' = [job EXCEPT ![c] = job[c]]
      /\ caller' = caller /\ phase' = phase /\ "wroteAudio" \in Waiting \cup Holding
  BY DEF WriteAudio, server, Holding, IInv, TypeOK
<1>6. CallersKnown' /\ JobsKnown' /\ OneHolder'
  BY <1>1, <1>4, <1>5, RequestGoesOn
<1>7. TypeOK'
  BY <1>3, <1>5 DEF WriteAudio, IInv, TypeOK, tables, server
<1> QED
  BY <1>3, <1>4, <1>6, <1>7 DEF IInv

LEMMA WriteTextInv ==
  ASSUME IInv, NEW c \in Conns, WriteText(c)
  PROVE  IInv'
<1>1. /\ job[c].label = caller[c].label
      /\ job[c] \in [label : Labels, names : SUBSET Names]
      /\ UNCHANGED tables /\ pc[c] = "wroteAudio" /\ pc[c] \in Holding
      /\ audio' = audio /\ UNCHANGED server
  BY DEF WriteText, IInv, JobsKnown, TypeOK, Holding
<1>2. PICK n \in Names : job[c].names = {n}
  BY <1>1 DEF IInv, JobsKnown
<1>3. /\ text' = [text EXCEPT ![<<caller[c].label, n>>] = caller[c].id]
      /\ IF Find(caller[c], n) # {} THEN Done(c)
         ELSE pc' = [pc EXCEPT ![c] = "wroteText"] /\ UNCHANGED <<caller, job>>
  BY <1>1, <1>2 DEF WriteText
<1>4. /\ FilesKnown'
      /\ audio' \in [Dirs -> Nat \cup {None}] /\ text' \in [Dirs -> Nat \cup {None}]
  BY <1>1, <1>3, WrittenKnown
<1>5. LabelsStable /\ ReferentialIntegrity' /\ IdsFresh' /\ RootKnown'
  BY <1>1, TablesStay, KeysStay DEF tables
<1>6. CASE Find(caller[c], n) # {}
  <2>1. CallersKnown' /\ JobsKnown' /\ OneHolder'
    BY <1>1, <1>3, <1>5, <1>6, OthersStay DEF server
  <2>2. TypeOK'
    BY <1>1, <1>3, <1>4, <1>6, DoneTypes DEF IInv, TypeOK, tables, server
  <2> QED
    BY <1>4, <1>5, <2>1, <2>2 DEF IInv
<1>7. CASE Find(caller[c], n) = {}
  <2>1. /\ pc' = [pc EXCEPT ![c] = "wroteText"] /\ job' = [job EXCEPT ![c] = job[c]]
        /\ caller' = caller /\ phase' = phase /\ "wroteText" \in Waiting \cup Holding
    BY <1>1, <1>3, <1>7 DEF server, Holding, IInv, TypeOK
  <2>2. \A m \in job[c].names : Find(caller[c], m)' = {}
    BY <1>1, <1>2, <1>7, <2>1 DEF Find, Owned, tables
  <2>3. CallersKnown' /\ JobsKnown' /\ OneHolder'
    BY <1>1, <1>2, <1>5, <2>1, <2>2, RequestGoesOn
  <2>4. TypeOK'
    BY <1>1, <1>4, <2>1 DEF IInv, TypeOK, tables, server
  <2> QED
    BY <1>4, <1>5, <2>3, <2>4 DEF IInv
<1> QED
  BY <1>6, <1>7

\* A new row for a key that has none of that name.
LEMMA InsertKeepsIntegrity ==
  ASSUME IInv, NEW who \in Key, who.id \in Ids, NEW n \in Names, Find(who, n) = {},
         voices' = voices \cup {NewVoice(who, n)}, nextVoice' = nextVoice + 1,
         UNCHANGED <<keys, grants, nextKey>>
  PROVE  /\ voices' \subseteq Voice /\ nextVoice' \in Nat
         /\ ReferentialIntegrity' /\ IdsFresh'
<1> DEFINE new == NewVoice(who, n)
<1>1. /\ new \in Voice /\ new.id = nextVoice /\ new.owner = who.id /\ new.name = n
      /\ voices \subseteq Voice /\ nextVoice \in Nat
  BY DEF NewVoice, Voice, Key, IInv, TypeOK
<1>2. \A v \in voices : v.id # new.id /\ (v.owner # new.owner \/ v.name # new.name)
  BY <1>1 DEF IInv, IdsFresh, Find, Owned, Voice
<1>3. voices' = voices \cup {new}
  OBVIOUS
<1> HIDE DEF new
<1>4. VoicesUnique'
  BY <1>2, <1>3 DEF VoicesUnique, IInv, ReferentialIntegrity
<1>5. KeysUnique' /\ ForeignKeys'
  BY <1>1, <1>3 DEF KeysUnique, ForeignKeys, IInv, ReferentialIntegrity, Ids
<1>6. IdsFresh'
  BY <1>1, <1>3 DEF IdsFresh, IInv, Voice
<1> QED
  BY <1>1, <1>3, <1>4, <1>5, <1>6 DEF ReferentialIntegrity

LEMMA InsertVoiceInv ==
  ASSUME IInv, NEW c \in Conns, InsertVoice(c)
  PROVE  IInv'
<1>1. /\ pc[c] = "wroteText" /\ pc[c] \in Holding /\ caller[c] \in Key
      /\ Done(c) /\ UNCHANGED <<keys, grants, nextKey, disk, server>>
  BY DEF InsertVoice, Holding, IInv, CallersKnown
<1>2. PICK n \in Names :
        /\ Find(caller[c], n) = {}
        /\ IF caller[c].id \in Ids
           THEN /\ voices' = voices \cup {NewVoice(caller[c], n)}
                /\ nextVoice' = nextVoice + 1
           ELSE UNCHANGED <<voices, nextVoice>>
  BY <1>1 DEF InsertVoice, IInv, JobsKnown
<1>3. LabelsStable /\ RootKnown'
  BY <1>1, KeysStay
<1>4. /\ voices' \subseteq Voice /\ nextVoice' \in Nat
      /\ ReferentialIntegrity' /\ IdsFresh'
  <2>1. CASE caller[c].id \in Ids
    BY <1>1, <1>2, <2>1, InsertKeepsIntegrity
  <2>2. CASE caller[c].id \notin Ids
    BY <1>1, <1>2, <2>2, TablesStay DEF tables, IInv, TypeOK
  <2> QED
    BY <2>1, <2>2
<1>5. CallersKnown' /\ JobsKnown' /\ OneHolder'
  BY <1>1, <1>3, OthersStay DEF server
<1>6. FilesKnown'
  BY <1>1, <1>3, FilesStay DEF IInv
<1>7. TypeOK'
  BY <1>1, <1>4, DoneTypes DEF IInv, TypeOK, disk, server
<1> QED
  BY <1>3, <1>4, <1>5, <1>6, <1>7 DEF IInv

LEMMA ChangeableAreVoices ==
  ASSUME IInv, NEW who, NEW spec, NEW v \in Changeable(who, spec)
  PROVE  v \in voices
BY DEF Changeable, Resolve, VisibleTo, Find, Owned

LEMMA DeleteVoiceInv ==
  ASSUME IInv, NEW c \in Conns, DeleteVoice(c)
  PROVE  IInv'
<1>1. PICK v \in voices, k \in keys :
        /\ Cascade({}, {v})
        /\ job' = [job EXCEPT ![c] = [label |-> k.label, names |-> {v.name}]]
  BY ChangeableAreVoices DEF DeleteVoice
<1> DEFINE work == [label |-> k.label, names |-> {v.name}]
<1>2. /\ pc' = [pc EXCEPT ![c] = "deleting"] /\ job' = [job EXCEPT ![c] = work]
      /\ LoopFree /\ pc[c] = "authed" /\ caller' = caller /\ phase' = phase
      /\ UNCHANGED <<nextKey, nextVoice, disk, server>>
  BY <1>1 DEF DeleteVoice, Handling, server
<1>3. work \in [label : Labels, names : SUBSET Names]
  BY DEF IInv, TypeOK, Key, Voice
<1>4. /\ LabelsStable /\ ReferentialIntegrity' /\ IdsFresh'
      /\ keys' \subseteq keys /\ voices' \subseteq voices /\ grants' \subseteq grants
  BY <1>1, <1>2, CascadeKeepsIntegrity
<1>5. keys' = keys
  BY <1>1 DEF Cascade
<1>6. RootKnown'
  BY <1>2, <1>5, KeysStay
<1> HIDE DEF work
<1>7. CallersKnown' /\ JobsKnown' /\ OneHolder'
  <2>1. "deleting" \in Waiting \cup Holding
    BY DEF Holding
  <2> QED
    BY <1>2, <1>3, <1>4, <2>1, RequestGoesOn
<1>8. FilesKnown'
  BY <1>2, <1>4, FilesStay DEF IInv
<1>9. TypeOK'
  BY <1>2, <1>3, <1>4 DEF IInv, TypeOK, disk, server, Holding
<1> QED
  BY <1>4, <1>6, <1>7, <1>8, <1>9 DEF IInv

LEMMA RemoveVoiceDirInv ==
  ASSUME IInv, NEW c \in Conns, RemoveVoiceDir(c)
  PROVE  IInv'
<1>1. /\ job[c] \in [label : Labels, names : SUBSET Names]
      /\ pc[c] \in Holding /\ Done(c) /\ UNCHANGED <<tables, server>>
  BY DEF RemoveVoiceDir, IInv, TypeOK, Holding
<1>2. LabelsStable /\ ReferentialIntegrity' /\ IdsFresh' /\ RootKnown'
  BY <1>1, TablesStay, KeysStay DEF tables
<1>3. /\ FilesKnown'
      /\ audio' \in [Dirs -> Nat \cup {None}] /\ text' \in [Dirs -> Nat \cup {None}]
  BY <1>1, <1>2, RemoveDirKnown DEF RemoveVoiceDir
<1>4. CallersKnown' /\ JobsKnown' /\ OneHolder'
  BY <1>1, <1>2, OthersStay DEF server
<1>5. TypeOK'
  BY <1>1, <1>3, DoneTypes DEF IInv, TypeOK, tables, server
<1> QED
  BY <1>2, <1>3, <1>4, <1>5 DEF IInv

\* Handlers that only rewrite voices or grants.
LEMMA SharingInv ==
  ASSUME IInv, NEW c \in Conns, LoopFree, Done(c),
         UNCHANGED <<keys, nextKey, nextVoice, disk, server>>,
         voices' \subseteq Voice, grants' \subseteq Grant,
         VoicesUnique', ForeignKeys', \A v \in voices' : v.id < nextVoice
  PROVE  IInv'
<1>1. LabelsStable /\ RootKnown' /\ KeysUnique'
  BY KeysStay
<1>2. IdsFresh'
  BY DEF IInv, IdsFresh
<1>3. CallersKnown' /\ JobsKnown' /\ OneHolder'
  BY <1>1, OthersStay DEF server
<1>4. FilesKnown'
  BY <1>1, FilesStay DEF IInv
<1>5. TypeOK'
  BY DoneTypes DEF IInv, TypeOK, disk, server
<1> QED
  BY <1>1, <1>2, <1>3, <1>4, <1>5 DEF IInv, ReferentialIntegrity

LEMMA SetVisibilityInv ==
  ASSUME IInv, NEW c \in Conns, SetVisibility(c)
  PROVE  IInv'
<1>1. PICK v \in voices, vis \in {"private", "public"} :
        voices' = (voices \ {v}) \cup {[v EXCEPT !.visibility = vis]}
  BY ChangeableAreVoices DEF SetVisibility
<1> DEFINE new == [v EXCEPT !.visibility = vis]
<1>2. /\ v \in Voice /\ voices \subseteq Voice /\ new \in Voice
      /\ new.id = v.id /\ new.owner = v.owner /\ new.name = v.name
  BY DEF IInv, TypeOK, Voice
<1>3. voices' = (voices \ {v}) \cup {new}
  BY <1>1
<1> HIDE DEF new
<1>4. VoicesUnique' /\ voices' \subseteq Voice
  BY <1>2, <1>3 DEF VoicesUnique, IInv, ReferentialIntegrity
<1>5. ForeignKeys'
  BY <1>2, <1>3 DEF SetVisibility, ForeignKeys, IInv, ReferentialIntegrity, Ids
<1>6. \A w \in voices' : w.id < nextVoice
  BY <1>2, <1>3 DEF IInv, IdsFresh
<1> QED
  BY <1>4, <1>5, <1>6, SharingInv DEF SetVisibility, Handling, IInv, TypeOK

LEMMA GrantVoiceInv ==
  ASSUME IInv, NEW c \in Conns, GrantVoice(c)
  PROVE  IInv'
<1>1. PICK v \in voices, k \in keys : grants' = grants \cup {[voice |-> v.id, grantee |-> k.id]}
  BY ChangeableAreVoices DEF GrantVoice
<1>2. grants' \subseteq Grant
  BY <1>1 DEF IInv, TypeOK, Grant, Voice, Key
<1>3. VoicesUnique' /\ ForeignKeys'
  BY <1>1 DEF GrantVoice, VoicesUnique, ForeignKeys, IInv, ReferentialIntegrity, Ids
<1> QED
  BY <1>2, <1>3, SharingInv DEF GrantVoice, Handling, IInv, TypeOK, IdsFresh

LEMMA RevokeGrantInv ==
  ASSUME IInv, NEW c \in Conns, RevokeGrant(c)
  PROVE  IInv'
<1>1. grants' \subseteq grants
  BY DEF RevokeGrant
<1>2. VoicesUnique' /\ ForeignKeys'
  BY <1>1 DEF RevokeGrant, VoicesUnique, ForeignKeys, IInv, ReferentialIntegrity, Ids
<1> QED
  BY <1>1, <1>2, SharingInv DEF RevokeGrant, Handling, IInv, TypeOK, IdsFresh

-----------------------------------------------------------------------------
(* Requests coming and going, and the boot *)

LEMMA AuthenticatedKnown ==
  ASSUME IInv, phase = "serving", NEW k \in Authenticated
  PROVE  k \in Key /\ LabelOfId(k.id, k.label)
<1>1. CASE AuthMode = "token"
  BY <1>1 DEF Authenticated, IInv, TypeOK, LabelOfId, IdsFresh, ReferentialIntegrity, KeysUnique
<1>2. rootKey \in Key /\ LabelOfId(rootKey.id, rootKey.label)
  BY DEF IInv, RootKnown, LabelOfId, IdsFresh, ReferentialIntegrity, KeysUnique
<1>3. CASE AuthMode = "local"
  BY <1>2, <1>3 DEF Authenticated
<1>4. CASE AuthMode = "anonymous"
  <2>1. k = [rootKey EXCEPT !.role = "user"]
    BY <1>4 DEF Authenticated
  <2>2. k \in Key /\ k.id = rootKey.id /\ k.label = rootKey.label
    BY <1>2, <2>1 DEF Key, Roles
  <2> QED
    BY <1>2, <2>2 DEF LabelOfId
<1> QED
  BY <1>1, <1>3, <1>4, ModeAssumption

LEMMA AuthenticateInv ==
  ASSUME IInv, NEW c \in Conns, Authenticate(c)
  PROVE  IInv'
<1>1. PICK k \in Authenticated : caller' = [caller EXCEPT ![c] = k]
  BY DEF Authenticate
<1>2. phase = "serving" /\ phase' = phase /\ pc' = [pc EXCEPT ![c] = "authed"] /\ job' = job
  BY DEF Authenticate, server
<1>3. k \in Key /\ LabelOfId(k.id, k.label)
  BY <1>1, <1>2, AuthenticatedKnown
<1>4. LabelsStable /\ ReferentialIntegrity' /\ IdsFresh' /\ RootKnown'
  BY TablesStay, KeysStay DEF Authenticate, tables
<1>5. ASSUME NEW d \in Conns, d # c PROVE pc'[d] = pc[d] /\ caller'[d] = caller[d]
  BY <1>1, <1>2, <1>5 DEF IInv, TypeOK
<1>6. pc'[c] = "authed" /\ caller'[c] = k
  BY <1>1, <1>2 DEF IInv, TypeOK
<1>7. LabelOfId(k.id, k.label)'
  BY <1>3 DEF LabelOfId, Authenticate, tables
<1>8. CallersKnown'
  BY <1>2, <1>3, <1>4, <1>5, <1>6, <1>7, CallerStays DEF IInv, CallersKnown
<1>9. JobsKnown' /\ OneHolder'
  BY <1>2, <1>5, <1>6 DEF IInv, JobsKnown, OneHolder, Holding, Find, Owned, Authenticate, tables
<1>10. FilesKnown'
  BY <1>4, FilesStay DEF IInv, Authenticate
<1>11. TypeOK'
  BY <1>1, <1>2, <1>3 DEF Authenticate, IInv, TypeOK, tables, disk, server, Waiting
<1> QED
  BY <1>4, <1>8, <1>9, <1>10, <1>11 DEF IInv

LEMMA AnswerInv ==
  ASSUME IInv, NEW c \in Conns, Answer(c)
  PROVE  IInv'
<1>1. LabelsStable /\ ReferentialIntegrity' /\ IdsFresh' /\ RootKnown'
  BY TablesStay, KeysStay DEF Answer, tables
<1>2. CallersKnown' /\ JobsKnown' /\ OneHolder'
  BY <1>1, OthersStay DEF Answer, server
<1>3. FilesKnown'
  BY <1>1, FilesStay DEF IInv, Answer
<1>4. TypeOK'
  BY DoneTypes DEF Answer, IInv, TypeOK, tables, disk, server
<1> QED
  BY <1>1, <1>2, <1>3, <1>4 DEF IInv

\* While the process is down or booting no request is under way.
LEMMA BootAlone ==
  ASSUME IInv, phase # "serving", UNCHANGED requests
  PROVE  CallersKnown' /\ JobsKnown' /\ OneHolder'
<1>1. \A c \in Conns : pc[c] = "idle"
  BY DEF IInv, CallersKnown
<1> QED
  BY <1>1 DEF CallersKnown, JobsKnown, OneHolder, Holding, requests

LEMMA SeedRootInv ==
  ASSUME IInv, SeedRoot
  PROVE  IInv'
<1> USE DEF IInv
<1>0. /\ UNCHANGED <<voices, grants, nextVoice, disk, requests, crashes>>
      /\ phase = "down" /\ phase' = "adopting"
  BY DEF SeedRoot
<1>1. ASSUME NEW new \in Key,
             new.label = RootLabel, new.role = "admin", new.enabled, new.expires = "never",
             new.managed_by_env,
             rootKey' = new, new \in keys',
             nextKey' \in Nat, nextKey <= nextKey', new.id < nextKey',
             \A k \in keys' : k = new \/ (k \in keys /\ k.label # RootLabel /\ k.id # new.id),
             \A k \in keys : k \in keys' \/ k.id = new.id,
             new.id < nextKey => \E k \in keys : k.id = new.id /\ k.label = RootLabel
      PROVE  IInv'
  <2>1. keys \subseteq Key /\ nextKey \in Nat /\ \A k \in keys : k.id < nextKey /\ k.id \in Nat
    BY DEF TypeOK, IdsFresh, Key
  <2>2. LabelsStable
    BY <1>1, <2>1 DEF LabelsStable
  <2>3. KeysUnique'
    BY <1>1 DEF ReferentialIntegrity, KeysUnique
  <2>4. Ids \subseteq Ids'
    BY <1>1 DEF Ids
  <2>5. VoicesUnique' /\ ForeignKeys'
    BY <1>0, <2>4 DEF ReferentialIntegrity, VoicesUnique, ForeignKeys
  <2>6. IdsFresh'
    BY <1>0, <1>1, <2>1 DEF IdsFresh
  <2>7. RootKnown'
    BY <1>1 DEF RootKnown, IsAdmin
  <2>8. FilesKnown'
    BY <1>0, <2>2, FilesStay
  <2>9. CallersKnown' /\ JobsKnown' /\ OneHolder'
    BY <1>0, BootAlone
  <2>10. TypeOK'
    BY <1>0, <1>1, <2>1 DEF TypeOK, disk, requests
  <2> QED
    BY <2>3, <2>5, <2>6, <2>7, <2>8, <2>9, <2>10 DEF ReferentialIntegrity
<1>2. CASE ~\E k \in keys : k.label = RootLabel
  <2> DEFINE new == RootRow(nextKey)
  <2>1. rootKey' = new /\ keys' = keys \cup {new} /\ nextKey' = nextKey + 1
    BY <1>2 DEF SeedRoot
  <2>2. /\ new \in Key /\ new.id = nextKey /\ new.label = RootLabel /\ nextKey \in Nat
        /\ new.role = "admin" /\ new.enabled /\ new.expires = "never" /\ new.managed_by_env
    BY RootAssumption DEF RootRow, Key, Roles, Expiries, TypeOK
  <2>3. \A k \in keys : k.id # nextKey
    BY DEF TypeOK, IdsFresh, Key
  <2> HIDE DEF new
  <2> QED
    BY <1>1, <1>2, <2>1, <2>2, <2>3
<1>3. CASE \E k \in keys : k.label = RootLabel
  <2>1. PICK r \in keys :
          /\ r.label = RootLabel
          /\ rootKey' = [r EXCEPT !.role = "admin", !.enabled = TRUE,
                                  !.expires = "never", !.managed_by_env = TRUE]
          /\ keys' = (keys \ {r}) \cup {rootKey'} /\ UNCHANGED nextKey
    BY <1>3 DEF SeedRoot
  <2> DEFINE new == [r EXCEPT !.role = "admin", !.enabled = TRUE,
                              !.expires = "never", !.managed_by_env = TRUE]
  <2>2. r \in Key /\ nextKey \in Nat /\ r.id < nextKey
    BY DEF TypeOK, IdsFresh
  <2>3. /\ new \in Key /\ new.id = r.id /\ new.label = RootLabel
        /\ new.role = "admin" /\ new.enabled /\ new.expires = "never" /\ new.managed_by_env
    BY <2>1, <2>2 DEF Key, Roles, Expiries
  <2>4. rootKey' = new /\ keys' = (keys \ {r}) \cup {new} /\ nextKey' = nextKey
    BY <2>1
  <2>5. \A k \in keys \ {r} : k.label # RootLabel /\ k.id # r.id
    BY <2>1 DEF ReferentialIntegrity, KeysUnique
  <2> HIDE DEF new
  <2> QED
    BY <1>1, <2>1, <2>2, <2>3, <2>4, <2>5
<1> QED
  BY <1>2, <1>3

LEMMA AdoptVoiceInv ==
  ASSUME IInv, NEW n \in Names, AdoptVoice(n)
  PROVE  IInv'
<1>1. /\ rootKey \in Key /\ rootKey.id \in Ids /\ Find(rootKey, n) = {}
  BY DEF AdoptVoice, Unlisted, IInv, RootKnown, Ids
<1>2. /\ voices' \subseteq Voice /\ nextVoice' \in Nat
      /\ ReferentialIntegrity' /\ IdsFresh'
  BY <1>1, InsertKeepsIntegrity DEF AdoptVoice
<1>3. LabelsStable /\ RootKnown'
  BY KeysStay DEF AdoptVoice
<1>4. CallersKnown' /\ JobsKnown' /\ OneHolder'
  BY BootAlone DEF AdoptVoice
<1>5. FilesKnown'
  BY <1>3, FilesStay DEF AdoptVoice, IInv
<1>6. TypeOK'
  BY <1>2 DEF AdoptVoice, IInv, TypeOK, disk, server, requests
<1> QED
  BY <1>2, <1>3, <1>4, <1>5, <1>6 DEF IInv

LEMMA StartServingInv ==
  ASSUME IInv, StartServing
  PROVE  IInv'
<1>1. LabelsStable /\ ReferentialIntegrity' /\ IdsFresh'
  BY TablesStay DEF StartServing
<1>2. RootKnown'
  BY DEF StartServing, IInv, RootKnown, IsAdmin, tables
<1>3. CallersKnown' /\ JobsKnown' /\ OneHolder'
  BY BootAlone DEF StartServing
<1>4. FilesKnown'
  BY <1>1, FilesStay DEF StartServing, IInv
<1>5. TypeOK'
  BY DEF StartServing, IInv, TypeOK, tables, disk, requests
<1> QED
  BY <1>1, <1>2, <1>3, <1>4, <1>5 DEF IInv

LEMMA CrashInv ==
  ASSUME IInv, Crash
  PROVE  IInv'
<1>1. LabelsStable /\ ReferentialIntegrity' /\ IdsFresh'
  BY TablesStay DEF Crash
<1>2. RootKnown'
  BY DEF Crash, IInv, RootKnown, tables
<1>3. CallersKnown' /\ JobsKnown' /\ OneHolder'
  BY DEF Crash, CallersKnown, JobsKnown, OneHolder, Holding
<1>4. FilesKnown'
  BY <1>1, FilesStay DEF Crash, IInv
<1>5. TypeOK'
  BY RootAssumption DEF Crash, IInv, TypeOK, tables, disk, NoJob, Waiting
<1> QED
  BY <1>1, <1>2, <1>3, <1>4, <1>5 DEF IInv

LEMMA StutterInv ==
  ASSUME IInv, UNCHANGED vars
  PROVE  IInv'
BY DEF vars, tables, disk, server, requests, IInv, TypeOK, ReferentialIntegrity, KeysUnique,
       VoicesUnique, ForeignKeys, Ids, IdsFresh, RootKnown, IsAdmin, CallersKnown, LabelOfId,
       JobsKnown, Find, Owned, OneHolder, FilesKnown

-----------------------------------------------------------------------------
(* The theorems *)

LEMMA InitInv ==
  ASSUME Init
  PROVE  IInv
<1>1. TypeOK
  BY RootAssumption DEF Init, TypeOK, NoJob, Waiting
<1>2. FilesKnown
  BY DEF Init, FilesKnown, Dirs
<1> QED
  BY <1>1, <1>2 DEF Init, IInv, ReferentialIntegrity, KeysUnique, VoicesUnique, ForeignKeys, Ids, IdsFresh,
     RootKnown, CallersKnown, JobsKnown, OneHolder, Holding

LEMMA NextInv ==
  ASSUME IInv, [Next]_vars
  PROVE  IInv'
<1>1. CASE BootStep
  BY <1>1, SeedRootInv, AdoptVoiceInv, StartServingInv DEF BootStep
<1>2. CASE Crash
  BY <1>2, CrashInv
<1>3. CASE Expire
  BY <1>3, ExpireInv
<1>4. ASSUME NEW c \in Conns, Authenticate(c) \/ Answer(c) PROVE IInv'
  BY <1>4, AuthenticateInv, AnswerInv
<1>5. ASSUME NEW c \in Conns, AdminStep(c) PROVE IInv'
  BY <1>5, MintKeyInv, PatchKeyInv, RevokeKeyInv, StartPurgeInv, PurgeDirInv, PurgeKeyInv
     DEF AdminStep
<1>6. ASSUME NEW c \in Conns, VoiceStep(c) PROVE IInv'
  BY <1>6, BeginUploadInv, WriteAudioInv, WriteTextInv, InsertVoiceInv, DeleteVoiceInv,
     RemoveVoiceDirInv, SetVisibilityInv, GrantVoiceInv, RevokeGrantInv DEF VoiceStep
<1>7. CASE UNCHANGED vars
  BY <1>7, StutterInv
<1> QED
  BY <1>1, <1>2, <1>3, <1>4, <1>5, <1>6, <1>7 DEF Next

\* The inductive invariant holds of every behaviour of the registry.
THEOREM Invariance == Spec => []IInv
<1>1. Init => IInv
  BY InitInv
<1>2. IInv /\ [Next]_vars => IInv'
  BY NextInv
<1> QED
  BY <1>1, <1>2, PTL DEF Spec

\* Every variable keeps its type.
THEOREM TypeCorrect == Spec => []TypeOK
<1>1. IInv => TypeOK
  BY DEF IInv
<1> QED
  BY <1>1, Invariance, PTL

\* However requests, purges and crashes interleave, the tables keep the
\* schema's promises (db.py): unique keys and voices, no dangling reference.
THEOREM Integrity == Spec => []ReferentialIntegrity
<1>1. IInv => ReferentialIntegrity
  BY DEF IInv
<1> QED
  BY <1>1, Invariance, PTL

\* The allowlist of admin.py and ensure_env_root together keep the recovery
\* path open, whatever any number of admins send.
THEOREM RootSafe == Spec => []RootRecoverable
<1>1. IInv => RootRecoverable
  BY DEF IInv, RootKnown, RootRecoverable, ReferentialIntegrity, KeysUnique
<1> QED
  BY <1>1, Invariance, PTL

\* No request, however stale its caller, writes into a voice of another key
\* that is still in use.
THEOREM RecordingsSafe == Spec => []NobodyElsesRecording
<1>1. ASSUME IInv PROVE NobodyElsesRecording
  <2> USE DEF IInv
  <2> SUFFICES ASSUME NEW v \in voices, NEW k \in keys, NEW n \in Names, k.id = v.owner
               PROVE  /\ audio[<<k.label, n>>] = v.owner \/ audio[<<k.label, n>>] \notin Ids
                      /\ text[<<k.label, n>>] = v.owner \/ text[<<k.label, n>>] \notin Ids
    BY DEF NobodyElsesRecording
  <2>1. k.label \in Labels /\ None \notin Ids
    BY <1>1, NoneAssumption DEF TypeOK, Key, Ids
  <2>2. ASSUME NEW i, i \in Ids, LabelOfId(i, k.label) PROVE i = v.owner
    BY <1>1, <2>2 DEF Ids, LabelOfId, ReferentialIntegrity, KeysUnique
  <2> QED
    BY <1>1, <2>1, <2>2 DEF FilesKnown
<1> QED
  BY <1>1, Invariance, PTL

-----------------------------------------------------------------------------
(* What handlers between two writes rely on: WInv is inductive over IInv.  *)

\* Every row of voices is still there after the step, but for its id and who
\* may see it, and no other is.
RowsStay ==
  /\ \A w \in voices' : \E v \in voices : v.owner = w.owner /\ v.name = w.name
  /\ \A v \in voices : \E w \in voices' : v.owner = w.owner /\ v.name = w.name

\* Every key keeps its row, its id and its label.
KeyRowsStay == \A k \in keys : \E k2 \in keys' : k2.id = k.id /\ k2.label = k.label

LEMMA OthersWait ==
  ASSUME IInv, NEW c \in Conns, LoopFree \/ pc[c] \in Holding
  PROVE  \A d \in Conns : d # c => pc[d] \notin Holding
BY DEF IInv, OneHolder, LoopFree, Waiting, Holding

\* A caller under the root label is the root key as long as its row stays.
LEMMA RootCallerStays ==
  ASSUME IInv, HandlersKnown, NEW c \in Conns, pc[c] # "idle", caller[c].label = RootLabel,
         \A k \in keys : k.label = RootLabel => k.id \in Ids'
  PROVE  caller[c].id \in Ids'
<1>1. PICK k \in keys : k.id = caller[c].id
  BY DEF HandlersKnown, Ids
<1>2. k.label = RootLabel
  BY <1>1 DEF IInv, CallersKnown, LabelOfId
<1> QED
  BY <1>1, <1>2

LEMMA HandlersStep ==
  ASSUME IInv, HandlersKnown, NEW c \in Conns, LoopFree \/ pc[c] \in Holding,
         \A k \in keys : k.label = RootLabel => k.id \in Ids',
         \A d \in Conns : d # c => pc'[d] = pc[d] /\ caller'[d] = caller[d] /\ job'[d] = job[d],
         pc'[c] # "idle" /\ caller'[c].label = RootLabel => caller'[c].id \in Ids',
         pc'[c] = "purging" => IsAdmin(caller'[c]),
         pc'[c] \in {"wroteAudio", "wroteText"} =>
           \A n \in job'[c].names : MayRegister(caller[c], n)',
         pc'[c] = "deleting" => \E n \in Names :
           /\ job'[c].names = {n}
           /\ \A v \in voices' : Belongs(v, job[c].label)' => v.name # n
  PROVE  HandlersKnown'
<1> SUFFICES ASSUME NEW d \in Conns
    PROVE /\ pc'[d] # "idle" /\ caller'[d].label = RootLabel => caller'[d].id \in Ids'
          /\ pc'[d] = "purging" => IsAdmin(caller'[d])
          /\ pc'[d] \in {"wroteAudio", "wroteText"} =>
               \A n \in job'[d].names : MayRegister(caller[d], n)'
          /\ pc'[d] = "deleting" => \E n \in Names :
               /\ job'[d].names = {n}
               /\ \A v \in voices' : Belongs(v, job[d].label)' => v.name # n
  BY DEF HandlersKnown, IsAdmin
<1>1. CASE d = c
  BY <1>1
<1>2. CASE d # c
  <2>1. pc[d] \notin Holding /\ pc'[d] = pc[d] /\ caller'[d] = caller[d]
    BY <1>2, OthersWait
  <2>2. pc[d] # "idle" /\ caller[d].label = RootLabel => caller[d].id \in Ids'
    BY RootCallerStays
  <2> QED
    BY <2>1, <2>2 DEF Holding
<1> QED
  BY <1>1, <1>2

\* A request that ends, or waits, relies on nothing but its caller.
LEMMA HandlersWait ==
  ASSUME IInv, HandlersKnown, NEW c \in Conns, LoopFree \/ pc[c] \in Holding,
         \A k \in keys : k.label = RootLabel => k.id \in Ids',
         \/ Done(c)
         \/ /\ caller' = caller /\ pc[c] # "idle" /\ pc' = [pc EXCEPT ![c] = "uploading"]
            /\ \E work : job' = [job EXCEPT ![c] = work]
  PROVE  HandlersKnown'
<1>1. \A d \in Conns : d # c => pc'[d] = pc[d] /\ caller'[d] = caller[d] /\ job'[d] = job[d]
  BY DEF Done, IInv, TypeOK
<1>2. pc'[c] \in {"idle", "uploading"}
  BY DEF Done, IInv, TypeOK
<1>3. pc'[c] # "idle" /\ caller'[c].label = RootLabel => caller'[c].id \in Ids'
  BY RootCallerStays DEF Done, IInv, TypeOK
<1> QED
  BY <1>1, <1>2, <1>3, HandlersStep

\* A step that writes no file and leaves the rows of voices as they are.
LEMMA DiskStays ==
  ASSUME IInv, WInv, LabelsStable, RowsStay, KeyRowsStay, UNCHANGED <<disk, server>>,
         \A c \in Conns : pc[c] \in Holding => pc'[c] = pc[c] /\ job'[c] = job[c],
         \A c \in Conns : pc'[c] \in Holding => pc[c] \in Holding \/ pc'[c] = "purging"
  PROVE  WritesKnown' /\ VoicesHaveFiles' /\ RootRecordingsAtWork'
<1> USE DEF WInv
<1>1. audio' = audio /\ text' = text /\ phase' = phase /\ crashes' = crashes
  BY DEF disk, server
<1>2. WritesKnown'
  <2>1. \A c \in Conns : pc'[c] \in {"wroteAudio", "wroteText"} => pc[c] = pc'[c] /\ job'[c] = job[c]
    BY DEF Holding
  <2> QED
    BY <1>1, <2>1 DEF WritesKnown
<1>3. VoicesHaveFiles'
  <2> SUFFICES ASSUME crashes = 0, NEW w \in voices', NEW k2 \in keys', k2.id = w.owner
      PROVE \/ audio[<<k2.label, w.name>>] # None /\ text[<<k2.label, w.name>>] # None
            \/ \E c \in Conns : pc'[c] = "purging" /\ job'[c].label = k2.label
    BY <1>1 DEF VoicesHaveFiles
  <2>1. PICK v \in voices : v.owner = w.owner /\ v.name = w.name
    BY DEF RowsStay
  <2>2. PICK k \in keys : k.id = v.owner
    BY DEF IInv, ReferentialIntegrity, ForeignKeys, Ids
  <2>3. k2.id < nextKey
    BY <2>1, <2>2 DEF IInv, IdsFresh
  <2>4. k.label = k2.label
    BY <2>1, <2>2, <2>3 DEF LabelsStable, IInv, ReferentialIntegrity, KeysUnique
  <2> QED
    BY <2>1, <2>2, <2>4 DEF VoicesHaveFiles, Holding
<1>4. RootRecordingsAtWork'
  <2> SUFFICES ASSUME phase = "serving", NEW n \in Names, audio[<<RootLabel, n>>] # None
      PROVE \/ \E k \in keys' : k.label = RootLabel /\ \E w \in voices' : w.owner = k.id /\ w.name = n
            \/ \E c \in Conns : /\ pc'[c] \in {"wroteAudio", "wroteText", "deleting"}
                                /\ job'[c].label = RootLabel /\ n \in job'[c].names
    BY <1>1 DEF RootRecordingsAtWork, Find, Owned
  <2>1. CASE \E k \in keys : k.label = RootLabel /\ Find(k, n) # {}
    <3>1. PICK k \in keys, v \in voices : k.label = RootLabel /\ v.owner = k.id /\ v.name = n
      BY <2>1 DEF Find, Owned
    <3> QED
      BY <3>1 DEF RowsStay, KeyRowsStay
  <2>2. CASE \E c \in Conns : /\ pc[c] \in {"wroteAudio", "wroteText", "deleting"}
                              /\ job[c].label = RootLabel /\ n \in job[c].names
    BY <2>2 DEF Holding
  <2> QED
    BY <2>1, <2>2 DEF RootRecordingsAtWork
<1> QED
  BY <1>2, <1>3, <1>4

\* A handler that ends its request without writing a file, its rows as they were.
LEMMA QuietStep ==
  ASSUME IInv, WInv, NEW c \in Conns, LoopFree, Done(c),
         LabelsStable, RowsStay, KeyRowsStay, IsFiniteSet(voices'), UNCHANGED <<disk, server>>
  PROVE  WInv'
<1>1. \A k \in keys : k.label = RootLabel => k.id \in Ids'
  BY DEF KeyRowsStay, Ids
<1>2. HandlersKnown'
  BY <1>1, HandlersWait DEF WInv
<1>3. \A d \in Conns : pc[d] \notin Holding /\ (pc'[d] = pc[d] \/ pc'[d] = "idle")
  BY DEF LoopFree, Waiting, Holding, Done, IInv, TypeOK
<1>4. WritesKnown' /\ VoicesHaveFiles' /\ RootRecordingsAtWork'
  BY <1>3, DiskStays DEF Holding
<1> QED
  BY <1>2, <1>4 DEF WInv

LEMMA KeysAsTheyWere ==
  ASSUME IInv, keys' = keys, nextKey' = nextKey
  PROVE  LabelsStable /\ KeyRowsStay /\ \A k \in keys : k.label = RootLabel => k.id \in Ids'
BY DEF LabelsStable, KeyRowsStay, Ids, IInv, TypeOK

LEMMA VoicesAsTheyWere ==
  ASSUME WInv, voices' = voices
  PROVE  RowsStay /\ IsFiniteSet(voices')
BY DEF RowsStay, WInv

LEMMA KeyUpdateWork ==
  ASSUME IInv, WInv, NEW k \in keys, NEW k1, k1.id = k.id, k1.label = k.label,
         keys' = (keys \ {k}) \cup {k1}, nextKey' = nextKey
  PROVE  LabelsStable /\ KeyRowsStay
BY DEF LabelsStable, KeyRowsStay, IInv, TypeOK

LEMMA PatchKeyWork ==
  ASSUME IInv, WInv, NEW c \in Conns, PatchKey(c)
  PROVE  WInv'
<1>1. PICK k \in keys, fields \in PatchBodies : keys' = (keys \ {k}) \cup {Patched(k, fields)}
  BY DEF PatchKey
<1>2. k \in Key
  BY DEF IInv, TypeOK
<1>3. LabelsStable /\ KeyRowsStay
  BY <1>1, <1>2, PatchedIsKey, KeyUpdateWork DEF PatchKey
<1> QED
  BY <1>3, VoicesAsTheyWere, QuietStep DEF PatchKey, Administering, Handling

LEMMA RevokeKeyWork ==
  ASSUME IInv, WInv, NEW c \in Conns, RevokeKey(c)
  PROVE  WInv'
<1>1. PICK k \in keys : keys' = (keys \ {k}) \cup {[k EXCEPT !.enabled = FALSE]}
  BY DEF RevokeKey
<1> DEFINE k1 == [k EXCEPT !.enabled = FALSE]
<1>2. k1.id = k.id /\ k1.label = k.label
  BY DEF IInv, TypeOK, Key
<1>3. LabelsStable /\ KeyRowsStay
  BY <1>1, <1>2, KeyUpdateWork DEF RevokeKey
<1> QED
  BY <1>3, VoicesAsTheyWere, QuietStep DEF RevokeKey, Administering, Handling

LEMMA MintKeyWork ==
  ASSUME IInv, WInv, NEW c \in Conns, MintKey(c)
  PROVE  WInv'
<1>1. PICK new : keys' = keys \cup {new} /\ new.id = nextKey
  <2>1. PICK label \in Labels, b \in MintBodies :
          keys' = keys \cup {[id |-> nextKey, label |-> label, role |-> b.role,
             enabled |-> TRUE, expires |-> b.expires, can_upload |-> b.can_upload,
             max_voices |-> b.max_voices, managed_by_env |-> FALSE]}
    BY DEF MintKey
  <2> DEFINE row == [id |-> nextKey, label |-> label, role |-> b.role,
             enabled |-> TRUE, expires |-> b.expires, can_upload |-> b.can_upload,
             max_voices |-> b.max_voices, managed_by_env |-> FALSE]
  <2>2. row.id = nextKey /\ keys' = keys \cup {row}
    BY <2>1
  <2> HIDE DEF row
  <2> QED
    BY <2>2
<1>2. nextKey \in Nat /\ nextKey' = nextKey + 1
  BY DEF MintKey, IInv, TypeOK
<1>3. LabelsStable /\ KeyRowsStay
  BY <1>1, <1>2 DEF LabelsStable, KeyRowsStay
<1> QED
  BY <1>3, VoicesAsTheyWere, QuietStep DEF MintKey, Administering, Handling

LEMMA AnswerWork ==
  ASSUME IInv, WInv, NEW c \in Conns, Answer(c)
  PROVE  WInv'
BY KeysAsTheyWere, VoicesAsTheyWere, QuietStep DEF Answer, tables

LEMMA GrantsWork ==
  ASSUME IInv, WInv, NEW c \in Conns, GrantVoice(c) \/ RevokeGrant(c)
  PROVE  WInv'
BY KeysAsTheyWere, VoicesAsTheyWere, QuietStep DEF GrantVoice, RevokeGrant, Handling

LEMMA SetVisibilityWork ==
  ASSUME IInv, WInv, NEW c \in Conns, SetVisibility(c)
  PROVE  WInv'
<1>1. PICK v \in voices, vis \in {"private", "public"} :
        voices' = (voices \ {v}) \cup {[v EXCEPT !.visibility = vis]}
  BY ChangeableAreVoices DEF SetVisibility
<1> DEFINE new == [v EXCEPT !.visibility = vis]
<1>2. new.owner = v.owner /\ new.name = v.name
  BY DEF IInv, TypeOK, Voice
<1>3. voices' = (voices \ {v}) \cup {new}
  BY <1>1
<1> HIDE DEF new
<1>4. RowsStay
  BY <1>2, <1>3 DEF RowsStay
<1>5. IsFiniteSet(voices')
  BY <1>3, FS_AddElement, FS_RemoveElement DEF WInv
<1> QED
  BY <1>4, <1>5, KeysAsTheyWere, QuietStep DEF SetVisibility, Handling

\* A step of a waiting request that leaves it waiting, or starting a purge.
LEMMA WaitingStep ==
  ASSUME IInv, WInv, NEW c \in Conns, LoopFree, UNCHANGED <<tables, disk, server>>,
         \A d \in Conns : d # c => pc'[d] = pc[d] /\ caller'[d] = caller[d] /\ job'[d] = job[d],
         pc'[c] \in {"authed", "uploading", "purging"},
         caller'[c].label = RootLabel => caller'[c].id \in Ids,
         pc'[c] = "purging" => IsAdmin(caller'[c])
  PROVE  WInv'
<1>1. /\ LabelsStable /\ KeyRowsStay /\ \A k \in keys : k.label = RootLabel => k.id \in Ids'
      /\ RowsStay /\ IsFiniteSet(voices')
  BY KeysAsTheyWere, VoicesAsTheyWere DEF tables
<1>2. Ids' = Ids
  BY DEF Ids, tables
<1>3. HandlersKnown'
  BY <1>1, <1>2, HandlersStep DEF WInv
<1>4. \A d \in Conns : pc[d] \notin Holding /\ (pc'[d] \notin Holding \/ pc'[d] = "purging")
  BY DEF LoopFree, Waiting, Holding
<1>5. WritesKnown' /\ VoicesHaveFiles' /\ RootRecordingsAtWork'
  BY <1>1, <1>4, DiskStays
<1> QED
  BY <1>1, <1>3, <1>5 DEF WInv

LEMMA StartPurgeWork ==
  ASSUME IInv, WInv, NEW c \in Conns, StartPurge(c)
  PROVE  WInv'
<1>1. /\ pc' = [pc EXCEPT ![c] = "purging"] /\ caller' = caller /\ LoopFree /\ pc[c] = "authed"
      /\ IsAdmin(caller[c]) /\ UNCHANGED <<tables, disk, server>>
      /\ \A d \in Conns : d # c => job'[d] = job[d]
  BY DEF StartPurge, Administering, Handling, IInv, TypeOK
<1> QED
  BY <1>1, WaitingStep DEF WInv, HandlersKnown, IInv, TypeOK

LEMMA BeginUploadWork ==
  ASSUME IInv, WInv, NEW c \in Conns, BeginUpload(c)
  PROVE  WInv'
<1>1. /\ pc' = [pc EXCEPT ![c] = "uploading"] /\ caller' = caller /\ LoopFree /\ pc[c] = "authed"
      /\ UNCHANGED <<tables, disk, server>>
      /\ \A d \in Conns : d # c => job'[d] = job[d]
  BY DEF BeginUpload, Handling, IInv, TypeOK
<1> QED
  BY <1>1, WaitingStep DEF WInv, HandlersKnown, IInv, TypeOK

LEMMA ExpireWork ==
  ASSUME IInv, WInv, Expire
  PROVE  WInv'
<1>1. PICK k \in keys : keys' = (keys \ {k}) \cup {[k EXCEPT !.expires = "past"]}
  BY DEF Expire
<1> DEFINE k1 == [k EXCEPT !.expires = "past"]
<1>2. k1.id = k.id /\ k1.label = k.label
  BY DEF IInv, TypeOK, Key
<1>3. LabelsStable /\ KeyRowsStay
  BY <1>1, <1>2, KeyUpdateWork DEF Expire
<1>4. /\ voices' = voices /\ pc' = pc /\ caller' = caller /\ job' = job
      /\ UNCHANGED <<disk, server>>
  BY DEF Expire, requests
<1>5. WritesKnown' /\ VoicesHaveFiles' /\ RootRecordingsAtWork'
  BY <1>3, <1>4, VoicesAsTheyWere, DiskStays
<1>6. \A l : \A v \in voices : Belongs(v, l)' => Belongs(v, l)
  <2>1. keys' = (keys \ {k}) \cup {k1}
    BY <1>1
  <2> HIDE DEF k1
  <2> QED
    BY <1>2, <2>1 DEF Belongs
<1>7. Ids' = Ids
  <2>1. keys' = (keys \ {k}) \cup {k1}
    BY <1>1
  <2> HIDE DEF k1
  <2> QED
    BY <1>2, <2>1 DEF Ids
<1>8. HandlersKnown'
  <2>1. \A who, n : MayRegister(who, n)' <=> MayRegister(who, n)
    BY <1>4 DEF MayRegister, Find, Owned, IsAdmin
  <2> QED
    BY <1>4, <1>6, <1>7, <2>1 DEF WInv, HandlersKnown, IsAdmin
<1> QED
  BY <1>4, <1>5, <1>8 DEF WInv

LEMMA AuthenticateWork ==
  ASSUME IInv, WInv, NEW c \in Conns, Authenticate(c)
  PROVE  WInv'
<1>1. PICK k \in Authenticated : caller' = [caller EXCEPT ![c] = k]
  BY DEF Authenticate
<1>2. /\ pc[c] = "idle" /\ pc' = [pc EXCEPT ![c] = "authed"] /\ phase = "serving" /\ job' = job
      /\ UNCHANGED <<keys, nextKey, voices, disk, server>>
  BY DEF Authenticate, tables
<1>3. k.id \in Ids
  <2>1. rootKey \in Key /\ rootKey.id \in Ids
    BY <1>2 DEF IInv, RootKnown, Ids
  <2>2. CASE AuthMode = "token"
    BY <2>2 DEF Authenticated, Ids
  <2>3. CASE AuthMode = "local"
    BY <2>1, <2>3 DEF Authenticated
  <2>4. CASE AuthMode = "anonymous"
    BY <2>1, <2>4 DEF Authenticated, Key
  <2> QED
    BY <2>2, <2>3, <2>4, ModeAssumption
<1>4. /\ LabelsStable /\ KeyRowsStay /\ RowsStay /\ IsFiniteSet(voices')
  BY <1>2, KeysAsTheyWere, VoicesAsTheyWere
<1>5. \A d \in Conns : d # c => pc'[d] = pc[d] /\ caller'[d] = caller[d] /\ job'[d] = job[d]
  BY <1>1, <1>2 DEF IInv, TypeOK
<1>6. pc'[c] = "authed" /\ caller'[c] = k
  BY <1>1, <1>2 DEF IInv, TypeOK
<1>7. HandlersKnown'
  <2>1. \A d \in Conns : pc'[d] # "idle" /\ caller'[d].label = RootLabel => caller'[d].id \in Ids'
    BY <1>2, <1>3, <1>5, <1>6 DEF WInv, HandlersKnown, Ids
  <2>2. ASSUME NEW d \in Conns, pc'[d] \in Holding
        PROVE  pc'[d] = pc[d] /\ caller'[d] = caller[d] /\ job'[d] = job[d]
    BY <1>5, <1>6, <2>2 DEF Holding
  <2>3. \A d \in Conns : pc'[d] = "purging" => IsAdmin(caller[d])'
    BY <2>2 DEF WInv, HandlersKnown, Holding, IsAdmin
  <2>4. ASSUME NEW d \in Conns, pc'[d] \in {"wroteAudio", "wroteText"}, NEW n \in job'[d].names
        PROVE  MayRegister(caller[d], n)'
    BY <1>2, <2>2, <2>4 DEF WInv, HandlersKnown, Holding, MayRegister, Find, Owned, IsAdmin
  <2>5. ASSUME NEW d \in Conns, pc'[d] = "deleting"
        PROVE  \E n \in Names :
                 /\ job'[d].names = {n}
                 /\ \A v \in voices' : Belongs(v, job[d].label)' => v.name # n
    BY <1>2, <2>2, <2>5 DEF WInv, HandlersKnown, Holding, Belongs
  <2> QED
    BY <2>1, <2>3, <2>4, <2>5 DEF HandlersKnown
<1>8. WritesKnown' /\ VoicesHaveFiles' /\ RootRecordingsAtWork'
  <2>1. \A d \in Conns : pc[d] \in Holding => pc'[d] = pc[d] /\ job'[d] = job[d]
    BY <1>2, <1>5 DEF Holding
  <2>2. \A d \in Conns : pc'[d] \in Holding => pc[d] \in Holding
    BY <1>5, <1>6 DEF Holding
  <2> QED
    BY <1>2, <1>4, <2>1, <2>2, DiskStays
<1> QED
  BY <1>4, <1>7, <1>8 DEF WInv

\* The handlers that have the loop, one write at a time.
LEMMA PurgeDirWork ==
  ASSUME IInv, WInv, NEW c \in Conns, PurgeDir(c)
  PROVE  WInv'
<1> USE DEF WInv
<1>1. PICK n \in job[c].names : /\ RemoveDir(job[c].label, n)
                                /\ job' = [job EXCEPT ![c].names = @ \ {n}]
  BY DEF PurgeDir
<1>2. /\ pc[c] = "purging" /\ pc' = pc /\ caller' = caller
      /\ keys' = keys /\ voices' = voices /\ nextKey' = nextKey
      /\ phase' = phase /\ crashes' = crashes
  BY DEF PurgeDir, tables, server
<1>3. job[c].label # RootLabel /\ n \in Names /\ job[c].label \in Labels
      /\ job[c] \in [label : Labels, names : SUBSET Names]
  BY <1>2 DEF IInv, JobsKnown, TypeOK
<1>4. /\ \A d \in Conns : d # c => job'[d] = job[d] /\ pc[d] \notin Holding
      /\ job'[c].label = job[c].label
  BY <1>1, <1>2, <1>3, OthersWait DEF Holding, IInv, TypeOK
<1>5. \A d \in Dirs : d # <<job[c].label, n>> => audio'[d] = audio[d] /\ text'[d] = text[d]
  BY <1>1 DEF RemoveDir, IInv, TypeOK
<1>51. \A d \in Dirs : audio[d] = None => audio'[d] = None
  BY <1>1 DEF RemoveDir, IInv, TypeOK
<1>6. HandlersKnown'
  BY <1>2, <1>4, HandlersStep DEF Holding, HandlersKnown, Ids
<1>7. WritesKnown'
  BY <1>2, <1>4, <1>51 DEF WritesKnown, Holding
<1>8. VoicesHaveFiles'
  <2> SUFFICES ASSUME crashes = 0, NEW v \in voices, NEW k \in keys, k.id = v.owner,
                      k.label # job[c].label
      PROVE audio'[<<k.label, v.name>>] # None /\ text'[<<k.label, v.name>>] # None
    BY <1>2, <1>4 DEF VoicesHaveFiles
  <2>1. audio[<<k.label, v.name>>] # None /\ text[<<k.label, v.name>>] # None
    BY <1>4, <1>2 DEF VoicesHaveFiles, Holding
  <2>2. <<k.label, v.name>> \in Dirs /\ <<k.label, v.name>> # <<job[c].label, n>>
    BY DEF Dirs, IInv, TypeOK, Key, Voice
  <2> QED
    BY <1>5, <2>1, <2>2
<1>9. RootRecordingsAtWork'
  <2>1. \A m \in Names : audio'[<<RootLabel, m>>] = audio[<<RootLabel, m>>]
    BY <1>3, <1>5, RootAssumption DEF Dirs
  <2>2. \A d \in Conns : pc[d] \in {"wroteAudio", "wroteText", "deleting"} => job'[d] = job[d]
    BY <1>2, <1>4
  <2> QED
    BY <1>2, <2>1, <2>2 DEF RootRecordingsAtWork, Find, Owned
<1> QED
  BY <1>2, <1>6, <1>7, <1>8, <1>9

LEMMA PurgeKeyWork ==
  ASSUME IInv, WInv, NEW c \in Conns, PurgeKey(c)
  PROVE  WInv'
<1> USE DEF WInv
<1> DEFINE ks == {k \in keys : k.label = job[c].label}
           gone == {v \in voices : \E k \in ks : v.owner = k.id}
<1>1. /\ keys' = keys \ ks /\ voices' = voices \ gone /\ Done(c)
      /\ pc[c] = "purging" /\ UNCHANGED <<nextKey, disk, server>>
  BY DEF PurgeKey, Cascade
<1>2. audio' = audio /\ text' = text /\ phase' = phase /\ crashes' = crashes
  BY <1>1 DEF disk, server
<1>3. job[c].label # RootLabel
  BY <1>1 DEF IInv, JobsKnown
<1>4. \A d \in Conns : d # c => pc'[d] = pc[d] /\ job'[d] = job[d] /\ pc[d] \notin Holding
  BY <1>1, OthersWait DEF Done, Holding, IInv, TypeOK
<1>41. pc'[c] = "idle"
  BY <1>1 DEF Done, IInv, TypeOK
<1>5. \A k \in keys : k.label = RootLabel => k \in keys' /\ k.id \in Ids'
  BY <1>1, <1>3 DEF Ids
<1>6. HandlersKnown'
  BY <1>1, <1>5, HandlersWait DEF Holding
<1>7. WritesKnown'
  BY <1>2, <1>4, <1>41 DEF WritesKnown, Holding
<1>8. VoicesHaveFiles'
  <2> SUFFICES ASSUME crashes = 0, NEW v \in voices', NEW k \in keys', k.id = v.owner
      PROVE audio[<<k.label, v.name>>] # None /\ text[<<k.label, v.name>>] # None
    BY <1>2 DEF VoicesHaveFiles
  <2>1. v \in voices /\ k \in keys /\ k.label # job[c].label
    BY <1>1
  <2> QED
    BY <1>4, <2>1 DEF VoicesHaveFiles, Holding
<1>9. RootRecordingsAtWork'
  <2> SUFFICES ASSUME phase = "serving", NEW n \in Names, audio[<<RootLabel, n>>] # None
      PROVE \E k \in keys' : k.label = RootLabel /\ \E w \in voices' : w.owner = k.id /\ w.name = n
    BY <1>2 DEF RootRecordingsAtWork, Find, Owned
  <2>1. ~\E d \in Conns : pc[d] \in {"wroteAudio", "wroteText", "deleting"}
    BY <1>1, <1>4 DEF Holding
  <2>2. PICK k \in keys, v \in voices : k.label = RootLabel /\ v.owner = k.id /\ v.name = n
    BY <2>1 DEF RootRecordingsAtWork, Find, Owned
  <2>3. v \in voices'
    BY <1>1, <1>3, <2>2 DEF IInv, ReferentialIntegrity, KeysUnique
  <2> QED
    BY <1>5, <2>2, <2>3
<1>10. IsFiniteSet(voices')
  BY <1>1, FS_Subset
<1> QED
  BY <1>6, <1>7, <1>8, <1>9, <1>10

LEMMA WriteAudioWork ==
  ASSUME IInv, WInv, NEW c \in Conns, WriteAudio(c)
  PROVE  WInv'
<1> USE DEF WInv
<1>1. PICK n \in job[c].names :
        /\ MayRegister(caller[c], n)
        /\ audio' = [audio EXCEPT ![<<job[c].label, n>>] = caller[c].id]
  BY DEF WriteAudio
<1>2. /\ LoopFree /\ pc[c] = "uploading" /\ pc' = [pc EXCEPT ![c] = "wroteAudio"]
      /\ keys' = keys /\ voices' = voices /\ text' = text /\ caller' = caller /\ job' = job
      /\ phase' = phase /\ crashes' = crashes
  BY DEF WriteAudio, tables, server
<1>3. /\ job[c].label = caller[c].label /\ job[c].names = {n} /\ n \in Names
      /\ job[c].label \in Labels /\ phase = "serving" /\ caller[c].id \in Nat
  BY <1>2 DEF IInv, JobsKnown, TypeOK, CallersKnown, Key
<1>4. /\ \A d \in Conns : d # c => pc'[d] = pc[d] /\ pc[d] \notin Holding
      /\ pc'[c] = "wroteAudio"
  BY <1>2, OthersWait DEF IInv, TypeOK
<1>5. caller[c].id # None
  BY <1>3, NoneAssumption
<1>6. \A d \in Dirs : audio'[d] = IF d = <<job[c].label, n>> THEN caller[c].id ELSE audio[d]
  BY <1>1 DEF IInv, TypeOK
<1>7. HandlersKnown'
  <2>1. \A m \in job'[c].names : MayRegister(caller[c], m)'
    BY <1>1, <1>2, <1>3 DEF MayRegister, Find, Owned, IsAdmin
  <2> QED
    BY <1>2, <1>4, <2>1, HandlersStep DEF Ids, HandlersKnown
<1>8. WritesKnown'
  <2>1. audio'[<<job[c].label, n>>] # None
    BY <1>3, <1>5, <1>6 DEF Dirs
  <2> QED
    BY <1>2, <1>3, <1>4, <2>1 DEF WritesKnown, Holding
<1>9. VoicesHaveFiles'
  <2> SUFFICES ASSUME crashes = 0, NEW v \in voices, NEW k \in keys, k.id = v.owner
      PROVE audio'[<<k.label, v.name>>] # None /\ text[<<k.label, v.name>>] # None
    BY <1>2 DEF VoicesHaveFiles
  <2>1. audio[<<k.label, v.name>>] # None /\ text[<<k.label, v.name>>] # None
    BY <1>2 DEF VoicesHaveFiles, LoopFree, Waiting
  <2>2. <<k.label, v.name>> \in Dirs
    BY DEF Dirs, IInv, TypeOK, Key, Voice
  <2> QED
    BY <1>5, <1>6, <2>1, <2>2
<1>10. RootRecordingsAtWork'
  <2> SUFFICES ASSUME NEW m \in Names, audio'[<<RootLabel, m>>] # None
      PROVE \/ \E k \in keys : k.label = RootLabel /\ Find(k, m) # {}
            \/ job[c].label = RootLabel /\ m \in job[c].names
    BY <1>2, <1>4 DEF RootRecordingsAtWork, Find, Owned
  <2>1. CASE <<RootLabel, m>> = <<job[c].label, n>>
    BY <1>3, <2>1
  <2>2. CASE <<RootLabel, m>> # <<job[c].label, n>>
    <3>1. audio[<<RootLabel, m>>] # None
      BY <1>6, <2>2, RootAssumption DEF Dirs
    <3> QED
      BY <1>2, <1>3, <3>1 DEF RootRecordingsAtWork, LoopFree, Waiting
  <2> QED
    BY <2>1, <2>2
<1> QED
  BY <1>2, <1>7, <1>8, <1>9, <1>10

\* A caller under the root label that owns a row under some name: the root
\* key has one.
LEMMA RootCallerFinds ==
  ASSUME IInv, HandlersKnown, NEW c \in Conns, pc[c] # "idle", caller[c].label = RootLabel
  PROVE  \E k \in keys : k.label = RootLabel /\ k.id = caller[c].id
BY DEF IInv, HandlersKnown, Ids, CallersKnown, LabelOfId

LEMMA WriteTextWork ==
  ASSUME IInv, WInv, NEW c \in Conns, WriteText(c)
  PROVE  WInv'
<1> USE DEF WInv
<1>1. PICK n \in job[c].names :
        /\ text' = [text EXCEPT ![<<job[c].label, n>>] = caller[c].id]
        /\ IF Find(caller[c], n) # {} THEN Done(c)
           ELSE pc' = [pc EXCEPT ![c] = "wroteText"] /\ UNCHANGED <<caller, job>>
  BY DEF WriteText
<1>2. /\ pc[c] = "wroteAudio" /\ pc[c] \in Holding
      /\ keys' = keys /\ voices' = voices /\ audio' = audio
      /\ phase' = phase /\ crashes' = crashes
  BY DEF WriteText, tables, server, Holding
<1>3. /\ job[c].label = caller[c].label /\ job[c].names = {n} /\ n \in Names
      /\ job[c].label \in Labels /\ phase = "serving" /\ caller[c].id \in Nat
  BY <1>2 DEF IInv, JobsKnown, TypeOK, CallersKnown, Key
<1>4. \A d \in Conns : d # c => pc'[d] = pc[d] /\ job'[d] = job[d] /\ caller'[d] = caller[d]
                                /\ pc[d] \notin Holding
  BY <1>1, <1>2, OthersWait DEF IInv, TypeOK, Done
<1>5. \/ /\ Find(caller[c], n) # {} /\ pc'[c] = "idle"
      \/ /\ pc'[c] = "wroteText" /\ job'[c] = job[c] /\ caller'[c] = caller[c]
  BY <1>1 DEF IInv, TypeOK, Done
<1>6. \A d \in Dirs : text'[d] = IF d = <<job[c].label, n>> THEN caller[c].id ELSE text[d]
  BY <1>1 DEF IInv, TypeOK
<1>61. caller[c].id # None
  BY <1>3, NoneAssumption
<1>7. HandlersKnown'
  <2>1. ASSUME pc'[c] = "wroteText", NEW m \in job'[c].names PROVE MayRegister(caller[c], m)'
    BY <1>2, <1>5, <2>1 DEF HandlersKnown, MayRegister, Find, Owned, IsAdmin
  <2>2. \A k \in keys : k.id \in Ids'
    BY <1>2 DEF Ids
  <2>3. pc'[c] # "idle" /\ caller'[c].label = RootLabel => caller'[c].id \in Ids'
    BY <1>2, <1>5 DEF HandlersKnown, Ids
  <2> QED
    BY <1>2, <1>4, <1>5, <2>1, <2>2, <2>3, HandlersStep
<1>8. WritesKnown'
  <2>1. <<job[c].label, n>> \in Dirs
    BY <1>3 DEF Dirs
  <2>2. text'[<<job[c].label, n>>] # None
    BY <1>6, <1>61, <2>1
  <2> QED
    BY <1>2, <1>3, <1>4, <1>5, <2>2 DEF WritesKnown, Holding
<1>9. VoicesHaveFiles'
  <2> SUFFICES ASSUME crashes = 0, NEW v \in voices, NEW k \in keys, k.id = v.owner
      PROVE audio[<<k.label, v.name>>] # None /\ text'[<<k.label, v.name>>] # None
    BY <1>2 DEF VoicesHaveFiles
  <2>1. audio[<<k.label, v.name>>] # None /\ text[<<k.label, v.name>>] # None
    BY <1>2, <1>4 DEF VoicesHaveFiles, Holding
  <2>2. <<k.label, v.name>> \in Dirs
    BY DEF Dirs, IInv, TypeOK, Key, Voice
  <2> QED
    BY <1>61, <1>6, <2>1, <2>2
<1>10. RootRecordingsAtWork'
  <2> SUFFICES ASSUME NEW m \in Names, audio[<<RootLabel, m>>] # None
      PROVE \/ \E k \in keys : k.label = RootLabel /\ Find(k, m) # {}
            \/ pc'[c] = "wroteText" /\ job'[c].label = RootLabel /\ m \in job'[c].names
    BY <1>2 DEF RootRecordingsAtWork, Find, Owned
  <2>1. \/ \E k \in keys : k.label = RootLabel /\ Find(k, m) # {}
        \/ job[c].label = RootLabel /\ m \in job[c].names
    BY <1>3, <1>4 DEF RootRecordingsAtWork, Holding
  <2>2. CASE job[c].label = RootLabel /\ m \in job[c].names /\ Find(caller[c], n) # {}
    <3>1. m = n /\ caller[c].label = RootLabel
      BY <1>3, <2>2
    <3>2. PICK k \in keys : k.label = RootLabel /\ k.id = caller[c].id
      BY <1>2, <3>1, RootCallerFinds
    <3> QED
      BY <2>2, <3>1, <3>2 DEF Find, Owned
  <2> QED
    BY <1>5, <2>1, <2>2
<1> QED
  BY <1>2, <1>7, <1>8, <1>9, <1>10

LEMMA InsertVoiceWork ==
  ASSUME IInv, WInv, NEW c \in Conns, InsertVoice(c)
  PROVE  WInv'
<1> USE DEF WInv
<1>1. PICK n \in job[c].names :
        IF caller[c].id \in Ids
        THEN voices' = voices \cup {NewVoice(caller[c], n)}
        ELSE UNCHANGED voices
  BY DEF InsertVoice
<1>2. /\ pc[c] = "wroteText" /\ pc[c] \in Holding /\ Done(c)
      /\ keys' = keys /\ audio' = audio /\ text' = text /\ phase' = phase /\ crashes' = crashes
  BY DEF InsertVoice, Holding, disk, server
<1>3. /\ job[c].label = caller[c].label /\ job[c].names = {n} /\ n \in Names
      /\ LabelOfId(caller[c].id, caller[c].label)
  BY <1>2 DEF IInv, JobsKnown, TypeOK, CallersKnown
<1>4. /\ \A d \in Conns : d # c => pc'[d] = pc[d] /\ job'[d] = job[d] /\ pc[d] \notin Holding
      /\ pc'[c] = "idle"
  BY <1>2, OthersWait DEF IInv, TypeOK, Done
<1>5. \A k \in keys : k.id \in Ids'
  BY <1>2 DEF Ids
<1>6. HandlersKnown'
  BY <1>2, <1>5, HandlersWait
<1>7. WritesKnown'
  BY <1>2, <1>4 DEF WritesKnown, Holding
<1>8. VoicesHaveFiles'
  <2> SUFFICES ASSUME crashes = 0, NEW v \in voices', NEW k \in keys, k.id = v.owner
      PROVE audio[<<k.label, v.name>>] # None /\ text[<<k.label, v.name>>] # None
    BY <1>2 DEF VoicesHaveFiles
  <2>1. CASE v \in voices
    BY <1>2, <1>4, <2>1 DEF VoicesHaveFiles, Holding
  <2>2. CASE v \notin voices
    <3>1. v = NewVoice(caller[c], n)
      BY <1>1, <2>2
    <3>2. v.owner = caller[c].id /\ v.name = n
      BY <3>1 DEF NewVoice
    <3>3. k.label = job[c].label
      BY <1>3, <3>2 DEF LabelOfId
    <3> QED
      BY <1>2, <1>3, <3>2, <3>3 DEF WritesKnown
  <2> QED
    BY <2>1, <2>2
<1>9. RootRecordingsAtWork'
  <2> SUFFICES ASSUME phase = "serving", NEW m \in Names, audio[<<RootLabel, m>>] # None
      PROVE \E k \in keys : k.label = RootLabel /\ \E w \in voices' : w.owner = k.id /\ w.name = m
    BY <1>2 DEF RootRecordingsAtWork, Find, Owned
  <2>1. \/ \E k \in keys : k.label = RootLabel /\ \E w \in voices : w.owner = k.id /\ w.name = m
        \/ job[c].label = RootLabel /\ m \in job[c].names
    BY <1>4 DEF RootRecordingsAtWork, Holding, Find, Owned
  <2>2. CASE job[c].label = RootLabel /\ m \in job[c].names
    <3>1. caller[c].label = RootLabel /\ m = n
      BY <1>3, <2>2
    <3>2. PICK k \in keys : k.label = RootLabel /\ k.id = caller[c].id
      BY <1>2, <3>1, RootCallerFinds
    <3>3. NewVoice(caller[c], n) \in voices'
      BY <1>1, <3>2 DEF Ids
    <3> QED
      BY <3>1, <3>2, <3>3 DEF NewVoice
  <2>3. voices \subseteq voices'
    BY <1>1
  <2> QED
    BY <2>1, <2>2, <2>3
<1>10. IsFiniteSet(voices')
  BY <1>1, FS_AddElement
<1> QED
  BY <1>6, <1>7, <1>8, <1>9, <1>10

\* The only row that points into a directory is the one that goes with it.
LEMMA DeleteVoiceWork ==
  ASSUME IInv, WInv, NEW c \in Conns, DeleteVoice(c)
  PROVE  WInv'
<1> USE DEF WInv
<1>1. PICK v \in voices, k \in keys :
        /\ Cascade({}, {v}) /\ k.id = v.owner
        /\ job' = [job EXCEPT ![c] = [label |-> k.label, names |-> {v.name}]]
  BY ChangeableAreVoices DEF DeleteVoice
<1>2. /\ pc' = [pc EXCEPT ![c] = "deleting"] /\ LoopFree /\ pc[c] = "authed"
      /\ caller' = caller /\ audio' = audio /\ text' = text
      /\ phase' = phase /\ crashes' = crashes
      /\ keys' = keys /\ voices' = voices \ {v}
  BY <1>1 DEF DeleteVoice, Handling, disk, server, Cascade
<1>3. /\ \A d \in Conns : d # c => pc'[d] = pc[d] /\ job'[d] = job[d] /\ pc[d] \notin Holding
      /\ pc'[c] = "deleting" /\ job'[c].label = k.label /\ job'[c].names = {v.name}
  BY <1>1, <1>2, OthersWait DEF IInv, TypeOK
<1>4. HandlersKnown'
  <2>1. \A w \in voices' : Belongs(w, job[c].label)' => w.name # v.name
    BY <1>1, <1>2, <1>3 DEF Belongs, IInv, ReferentialIntegrity, KeysUnique, VoicesUnique
  <2>2. v.name \in Names
    BY DEF IInv, TypeOK, Voice
  <2> QED
    BY <1>2, <1>3, <2>1, <2>2, HandlersStep DEF HandlersKnown, Ids
<1>5. WritesKnown'
  BY <1>2, <1>3 DEF WritesKnown, Holding
<1>6. VoicesHaveFiles'
  BY <1>2 DEF VoicesHaveFiles, LoopFree, Waiting
<1>7. RootRecordingsAtWork'
  <2> SUFFICES ASSUME phase = "serving", NEW n \in Names, audio[<<RootLabel, n>>] # None
      PROVE \/ \E r \in keys : r.label = RootLabel /\ \E w \in voices' : w.owner = r.id /\ w.name = n
            \/ k.label = RootLabel /\ n = v.name
    BY <1>2, <1>3 DEF RootRecordingsAtWork, Find, Owned
  <2>1. PICK r \in keys, w \in voices : r.label = RootLabel /\ w.owner = r.id /\ w.name = n
    BY <1>2 DEF RootRecordingsAtWork, LoopFree, Waiting, Find, Owned
  <2>2. CASE w = v
    BY <1>1, <2>1, <2>2 DEF IInv, ReferentialIntegrity, KeysUnique
  <2>3. CASE w # v
    BY <1>2, <2>1, <2>3
  <2> QED
    BY <2>2, <2>3
<1>8. IsFiniteSet(voices')
  BY <1>2, FS_RemoveElement
<1> QED
  BY <1>4, <1>5, <1>6, <1>7, <1>8

LEMMA RemoveVoiceDirWork ==
  ASSUME IInv, WInv, NEW c \in Conns, RemoveVoiceDir(c)
  PROVE  WInv'
<1> USE DEF WInv
<1>1. PICK n \in job[c].names : RemoveDir(job[c].label, n)
  BY DEF RemoveVoiceDir
<1>2. /\ pc[c] = "deleting" /\ pc[c] \in Holding /\ Done(c)
      /\ keys' = keys /\ voices' = voices /\ phase' = phase /\ crashes' = crashes
  BY DEF RemoveVoiceDir, tables, server, Holding
<1>3. /\ n \in Names /\ job[c].label \in Labels
  BY DEF IInv, TypeOK
<1>4. /\ \A d \in Conns : d # c => pc'[d] = pc[d] /\ job'[d] = job[d] /\ pc[d] \notin Holding
      /\ pc'[c] = "idle"
  BY <1>2, OthersWait DEF IInv, TypeOK, Done
<1>5. \A d \in Dirs : /\ audio'[d] = IF d = <<job[c].label, n>> THEN None ELSE audio[d]
                      /\ text'[d] = IF d = <<job[c].label, n>> THEN None ELSE text[d]
  BY <1>1 DEF RemoveDir, IInv, TypeOK
<1>6. HandlersKnown'
  BY <1>2, HandlersWait DEF Ids
<1>7. WritesKnown'
  BY <1>2, <1>4, <1>5 DEF WritesKnown, Holding
<1>8. VoicesHaveFiles'
  <2> SUFFICES ASSUME crashes = 0, NEW v \in voices, NEW k \in keys, k.id = v.owner
      PROVE audio'[<<k.label, v.name>>] # None /\ text'[<<k.label, v.name>>] # None
    BY <1>2 DEF VoicesHaveFiles
  <2>1. audio[<<k.label, v.name>>] # None /\ text[<<k.label, v.name>>] # None
    BY <1>2, <1>4 DEF VoicesHaveFiles, Holding
  <2>2. <<k.label, v.name>> \in Dirs
    BY DEF Dirs, IInv, TypeOK, Key, Voice
  <2>3. <<k.label, v.name>> # <<job[c].label, n>>
    BY <1>2 DEF HandlersKnown, Belongs
  <2> QED
    BY <1>5, <2>1, <2>2, <2>3
<1>9. RootRecordingsAtWork'
  <2> SUFFICES ASSUME phase = "serving", NEW m \in Names, audio'[<<RootLabel, m>>] # None
      PROVE \E k \in keys : k.label = RootLabel /\ Find(k, m) # {}
    BY <1>2 DEF RootRecordingsAtWork, Find, Owned
  <2>1. audio[<<RootLabel, m>>] # None /\ <<RootLabel, m>> # <<job[c].label, n>>
    BY <1>5, RootAssumption DEF Dirs
  <2>2. job[c].names = {n}
    BY <1>2 DEF HandlersKnown
  <2> QED
    BY <1>3, <1>4, <2>1, <2>2 DEF RootRecordingsAtWork, Holding
<1> QED
  BY <1>2, <1>6, <1>7, <1>8, <1>9

-----------------------------------------------------------------------------
(* The boot *)

LEMMA NobodyAtWork ==
  ASSUME IInv, phase # "serving", UNCHANGED requests
  PROVE  /\ \A c \in Conns : pc[c] = "idle" /\ pc'[c] = "idle"
         /\ HandlersKnown'
<1>1. \A c \in Conns : pc[c] = "idle" /\ pc'[c] = "idle"
  BY DEF IInv, CallersKnown, requests
<1> QED
  BY <1>1 DEF HandlersKnown

\* Until its first crash a process has nothing to adopt.
LEMMA FirstBoot ==
  ASSUME IInv, WInv, phase # "serving", crashes = 0, UNCHANGED requests
  PROVE  voices = {} /\ \A d \in Dirs : audio[d] = None
<1>1. \A d \in Dirs : audio[d] = None
  BY DEF WInv, WritesKnown
<1>2. ASSUME NEW v \in voices PROVE FALSE
  <2>1. PICK k \in keys : k.id = v.owner
    BY DEF IInv, ReferentialIntegrity, ForeignKeys, Ids
  <2>2. <<k.label, v.name>> \in Dirs
    BY DEF Dirs, IInv, TypeOK, Key, Voice
  <2> QED
    BY <1>1, <2>1, <2>2, NobodyAtWork DEF WInv, VoicesHaveFiles
<1> QED
  BY <1>1, <1>2

LEMMA SeedRootWork ==
  ASSUME IInv, WInv, SeedRoot
  PROVE  WInv'
<1> USE DEF WInv
<1>1. /\ phase = "down" /\ phase' = "adopting" /\ voices' = voices
      /\ UNCHANGED requests /\ audio' = audio /\ crashes' = crashes
  BY DEF SeedRoot, disk
<1>2. \A c \in Conns : pc[c] = "idle" /\ pc'[c] = "idle"
  BY <1>1, NobodyAtWork
<1>3. HandlersKnown'
  BY <1>1, NobodyAtWork
<1>4. WritesKnown' /\ RootRecordingsAtWork'
  BY <1>1, <1>2 DEF WritesKnown, RootRecordingsAtWork
<1>5. VoicesHaveFiles'
  BY <1>1, FirstBoot DEF VoicesHaveFiles
<1> QED
  BY <1>1, <1>3, <1>4, <1>5

LEMMA AdoptVoiceWork ==
  ASSUME IInv, WInv, NEW n \in Names, AdoptVoice(n)
  PROVE  WInv'
<1> USE DEF WInv
<1>1. /\ phase = "adopting" /\ n \in Unlisted /\ phase' = phase /\ crashes' = crashes
      /\ UNCHANGED requests /\ audio' = audio /\ voices' = voices \cup {NewVoice(rootKey, n)}
  BY DEF AdoptVoice, disk, server
<1>2. crashes # 0
  BY <1>1, FirstBoot, RootAssumption DEF Unlisted, Dirs
<1>3. HandlersKnown'
  BY <1>1, NobodyAtWork
<1>4. WritesKnown' /\ RootRecordingsAtWork' /\ VoicesHaveFiles'
  BY <1>1, <1>2 DEF WritesKnown, RootRecordingsAtWork, VoicesHaveFiles
<1>5. IsFiniteSet(voices')
  BY <1>1, FS_AddElement
<1> QED
  BY <1>3, <1>4, <1>5

LEMMA StartServingWork ==
  ASSUME IInv, WInv, StartServing
  PROVE  WInv'
<1> USE DEF WInv
<1>1. /\ phase = "adopting" /\ Unlisted = {} /\ phase' = "serving" /\ crashes' = crashes
      /\ UNCHANGED requests /\ audio' = audio /\ text' = text /\ voices' = voices /\ keys' = keys
  BY DEF StartServing, disk, tables
<1>2. HandlersKnown'
  BY <1>1, NobodyAtWork
<1>3. WritesKnown' /\ VoicesHaveFiles'
  BY <1>1, NobodyAtWork, FirstBoot DEF WritesKnown, VoicesHaveFiles
<1>4. RootRecordingsAtWork'
  <2>1. PICK k \in keys : k.id = rootKey.id /\ k.label = RootLabel
    BY <1>1 DEF IInv, RootKnown
  <2>2. \A n \in Names : audio[<<RootLabel, n>>] # None => Find(k, n) # {}
    BY <1>1, <2>1 DEF Unlisted, Find, Owned
  <2> QED
    BY <1>1, <2>1, <2>2 DEF RootRecordingsAtWork, Find, Owned
<1> QED
  BY <1>1, <1>2, <1>3, <1>4

LEMMA CrashWork ==
  ASSUME IInv, WInv, Crash
  PROVE  WInv'
<1>1. crashes' # 0 /\ phase' = "down" /\ voices' = voices /\ \A c \in Conns : pc'[c] = "idle"
  BY DEF Crash, IInv, TypeOK, tables
<1> QED
  BY <1>1 DEF WInv, HandlersKnown, WritesKnown, VoicesHaveFiles, RootRecordingsAtWork

LEMMA InitWork ==
  ASSUME Init
  PROVE  WInv
BY FS_EmptySet DEF Init, WInv, HandlersKnown, WritesKnown, VoicesHaveFiles, RootRecordingsAtWork

LEMMA StutterWork ==
  ASSUME WInv, UNCHANGED vars
  PROVE  WInv'
BY DEF WInv, HandlersKnown, WritesKnown, VoicesHaveFiles, RootRecordingsAtWork, MayRegister,
       Find, Owned, IsAdmin, Belongs, Ids, vars, tables, disk, server, requests

LEMMA NextWork ==
  ASSUME IInv, WInv, [Next]_vars
  PROVE  WInv'
<1>1. CASE BootStep
  BY <1>1, SeedRootWork, AdoptVoiceWork, StartServingWork DEF BootStep
<1>2. CASE Crash
  BY <1>2, CrashWork
<1>3. CASE Expire
  BY <1>3, ExpireWork
<1>4. ASSUME NEW c \in Conns, Authenticate(c) \/ Answer(c) PROVE WInv'
  BY <1>4, AuthenticateWork, AnswerWork
<1>5. ASSUME NEW c \in Conns, AdminStep(c) PROVE WInv'
  BY <1>5, MintKeyWork, PatchKeyWork, RevokeKeyWork, StartPurgeWork, PurgeDirWork, PurgeKeyWork
     DEF AdminStep
<1>6. ASSUME NEW c \in Conns, VoiceStep(c) PROVE WInv'
  BY <1>6, BeginUploadWork, WriteAudioWork, WriteTextWork, InsertVoiceWork, DeleteVoiceWork,
     RemoveVoiceDirWork, SetVisibilityWork, GrantsWork DEF VoiceStep
<1>7. CASE UNCHANGED vars
  BY <1>7, StutterWork
<1> QED
  BY <1>1, <1>2, <1>3, <1>4, <1>5, <1>6, <1>7 DEF Next

\* What handlers between two writes rely on holds in every behaviour.
THEOREM WorkInvariance == Spec => []WInv
<1>1. Init => WInv
  BY InitWork
<1>2. IInv /\ WInv /\ [Next]_vars => WInv'
  BY NextWork
<1> QED
  BY <1>1, <1>2, Invariance, PTL DEF Spec

\* voices.py writes both files before it inserts the row, and deletes the row
\* before it removes them: until a crash, a voice that can be named has both.
THEOREM FilesSafe == Spec => []VoicesHaveFiles
<1>1. WInv => VoicesHaveFiles
  BY DEF WInv
<1> QED
  BY <1>1, WorkInvariance, PTL

\* Whatever an earlier process left of the root key's recordings, a server
\* that answers lists them all (bootstrap's _reconcile_owner_dir).
THEOREM RootListed == Spec => []RootRecordingsListed
<1>1. WInv => RootRecordingsListed
  BY DEF WInv, RootRecordingsListed, RootRecordingsAtWork, LoopFree, Waiting
<1> QED
  BY <1>1, WorkInvariance, PTL

\* The listing's join and the resolver's row by row test agree for every
\* caller, voice and set of grants.
THEOREM ListingSafe == Spec => []ListedResolves
<1>1. ASSUME IInv PROVE ListedResolves
  <2> USE <1>1 DEF IInv
  <2> SUFFICES ASSUME NEW who \in keys, NEW v \in voices, NEW k \in keys, k.id = v.owner
      PROVE Resolve(who, [owner |-> k.label, name |-> v.name])
              = IF v \in VisibleTo(who) THEN {v} ELSE {}
    BY DEF ListedResolves
  <2>1. k.label # None
    BY NoneAssumption DEF TypeOK, Key
  <2>2. \A w \in voices : w.name = v.name /\ Belongs(w, k.label) <=> w = v
    BY DEF Belongs, ReferentialIntegrity, KeysUnique, VoicesUnique
  <2>3. CanSee(who, v) <=> v \in VisibleTo(who)
    <3>1. (\E g \in grants : g.voice = v.id /\ g.grantee = who.id)
            <=> [voice |-> v.id, grantee |-> who.id] \in grants
      BY DEF TypeOK, Grant
    <3> QED
      BY <3>1 DEF CanSee, VisibleTo, Owned
  <2>4. Resolve(who, [owner |-> k.label, name |-> v.name])
          = {w \in voices : w.name = v.name /\ Belongs(w, k.label) /\ CanSee(who, w)}
    BY <2>1 DEF Resolve
  <2> QED
    BY <2>2, <2>3, <2>4
<1> QED
  BY <1>1, Invariance, PTL

-----------------------------------------------------------------------------
(* What a step may never do *)

\* Outside Expire and the handlers of key management no row of a key changes.
LEMMA KeysChange ==
  ASSUME IInv, WInv, [Next]_vars, phase = "serving", keys' # keys
  PROVE  \/ \E c \in Conns : Acts(c) /\ IsAdmin(caller[c])
         \/ \E k \in keys : /\ k.expires = "later"
                            /\ keys' = (keys \ {k}) \cup {[k EXCEPT !.expires = "past"]}
<1>1. CASE BootStep \/ Crash \/ UNCHANGED vars
  BY <1>1 DEF BootStep, SeedRoot, AdoptVoice, StartServing, Crash, vars, tables
<1>2. CASE Expire
  BY <1>2 DEF Expire
<1>3. ASSUME NEW c \in Conns, Authenticate(c) \/ Answer(c) \/ VoiceStep(c) PROVE FALSE
  BY <1>3 DEF Authenticate, Answer, VoiceStep, BeginUpload, WriteAudio, WriteText, InsertVoice,
     DeleteVoice, Cascade, RemoveVoiceDir, SetVisibility, GrantVoice, RevokeGrant, tables
<1>4. ASSUME NEW c \in Conns, AdminStep(c) PROVE Acts(c) /\ IsAdmin(caller[c])
  <2>1. CASE MintKey(c) \/ PatchKey(c) \/ RevokeKey(c)
    <3>1. /\ pc[c] = "authed" /\ IsAdmin(caller[c]) /\ Done(c)
      BY <2>1 DEF MintKey, PatchKey, RevokeKey, Administering, Handling
    <3> QED
      BY <3>1 DEF Acts, Done, IInv, TypeOK
  <2>2. CASE StartPurge(c) \/ PurgeDir(c)
    BY <2>2 DEF StartPurge, PurgeDir, tables
  <2>3. CASE PurgeKey(c)
    <3>1. pc[c] = "purging" /\ Done(c)
      BY <2>3 DEF PurgeKey
    <3> QED
      BY <3>1 DEF Acts, Done, IInv, TypeOK, WInv, HandlersKnown
  <2> QED
    BY <1>4, <2>1, <2>2, <2>3 DEF AdminStep
<1> QED
  BY <1>1, <1>2, <1>3, <1>4 DEF Next

LEMMA RootFields ==
  ASSUME NEW k \in Key, NEW k2 \in Key, k2.id = k.id, k2.label = k.label, k2.role = k.role,
         k2.enabled = k.enabled, k2.expires = k.expires,
         k2.managed_by_env = k.managed_by_env
  PROVE  \A f \in DOMAIN k \ RootPatchable : k2[f] = k[f]
BY DEF Key, RootPatchable

\* No request deletes the root key, and the allowlist protects its row.
LEMMA RootRowStays ==
  ASSUME IInv, WInv, [Next]_vars, phase = "serving", keys' # keys
  PROVE  RootRowKept
<1> SUFFICES ASSUME NEW k \in keys, k.managed_by_env
             PROVE  \E k2 \in keys' : \A f \in DOMAIN k \ RootPatchable : k2[f] = k[f]
  BY DEF RootRowKept
<1>1. k \in Key /\ k.label = RootLabel
  BY DEF IInv, TypeOK, RootKnown
<1>2. k.expires = "never"
  BY <1>1 DEF IInv, RootKnown, ReferentialIntegrity, KeysUnique
<1>3. ASSUME k \in keys'
      PROVE  \E k2 \in keys' : \A f \in DOMAIN k \ RootPatchable : k2[f] = k[f]
  BY <1>3
<1>4. CASE BootStep \/ Crash \/ UNCHANGED vars
  BY <1>4 DEF BootStep, SeedRoot, AdoptVoice, StartServing, Crash, vars, tables
<1>5. CASE Expire
  BY <1>5, <1>2, <1>3 DEF Expire
<1>6. ASSUME NEW c \in Conns, Authenticate(c) \/ Answer(c) \/ VoiceStep(c) PROVE FALSE
  BY <1>6 DEF Authenticate, Answer, VoiceStep, BeginUpload, WriteAudio, WriteText, InsertVoice,
     DeleteVoice, Cascade, RemoveVoiceDir, SetVisibility, GrantVoice, RevokeGrant, tables
<1>7. ASSUME NEW c \in Conns, AdminStep(c)
      PROVE  \E k2 \in keys' : \A f \in DOMAIN k \ RootPatchable : k2[f] = k[f]
  <2>1. CASE MintKey(c) \/ RevokeKey(c)
    BY <2>1, <1>3 DEF MintKey, RevokeKey
  <2>2. CASE PatchKey(c)
    <3>1. PICK k1 \in keys, fields \in PatchBodies :
            MayPatch(k1, fields) /\ keys' = (keys \ {k1}) \cup {Patched(k1, fields)}
      BY <2>2 DEF PatchKey
    <3>2. CASE k1 # k
      BY <3>1, <3>2, <1>3
    <3>3. CASE k1 = k
      <4> DEFINE k2 == Patched(k, fields)
      <4>1. k2 \in Key /\ k2.id = k.id /\ k2.label = k.label
            /\ k2.managed_by_env = k.managed_by_env
        BY <1>1, PatchedIsKey
      <4>2. k2.role = k.role /\ k2.enabled = k.enabled /\ k2.expires = k.expires
        BY <1>1, <3>1, <3>3, PatchedRoot
      <4>3. k2 \in keys'
        BY <3>1, <3>3
      <4> HIDE DEF k2
      <4> QED
        BY <1>1, <4>1, <4>2, <4>3, RootFields
    <3> QED
      BY <3>2, <3>3
  <2>3. CASE StartPurge(c) \/ PurgeDir(c)
    BY <2>3 DEF StartPurge, PurgeDir, tables
  <2>4. CASE PurgeKey(c)
    <3>1. keys' = keys \ {k1 \in keys : k1.label = job[c].label} /\ job[c].label # RootLabel
      BY <2>4 DEF PurgeKey, Cascade, IInv, JobsKnown
    <3> QED
      BY <3>1, <1>1, <1>3
  <2> QED
    BY <1>7, <2>1, <2>2, <2>3, <2>4 DEF AdminStep
<1> QED
  BY <1>4, <1>5, <1>6, <1>7 DEF Next

\* A key changes by an administrator's request or by the passing of time, and
\* the root key's row only where the allowlist permits.
THEOREM KeysAdministered == Spec => OnlyAdminsChangeKeys
<1>1. IInv /\ WInv /\ [Next]_vars =>
        [phase = "serving" /\ keys' # keys =>
           /\ RootRowKept
           /\ \/ \E c \in Conns : Acts(c) /\ IsAdmin(caller[c])
              \/ \E k \in keys : /\ k.expires = "later"
                                 /\ keys' = (keys \ {k}) \cup {[k EXCEPT !.expires = "past"]}]_vars
  BY KeysChange, RootRowStays
<1> QED
  BY <1>1, Invariance, WorkInvariance, PTL DEF Spec, OnlyAdminsChangeKeys

\* What a step leaves alone of a voice: its row, its grants, its files.
Untouched(v, k) ==
  /\ v \in voices'
  /\ \A g \in grants \cup grants' : g.voice = v.id => g \in grants /\ g \in grants'
  /\ audio'[<<k.label, v.name>>] = audio[<<k.label, v.name>>]
  /\ text'[<<k.label, v.name>>] = text[<<k.label, v.name>>]

\* A request of the owner or of an admin, or a late upload of a purged holder
\* of the owner's label.
Entitled(c, v) == Acts(c) /\ (caller[c].id = v.owner \/ IsAdmin(caller[c]))
Late(c, v, k) == v \in voices' /\ Acts(c) /\ caller[c].label = k.label /\ caller[c].id \notin Ids

LEMMA DoneActs ==
  ASSUME IInv, NEW c \in Conns, pc[c] # "idle", Done(c)
  PROVE  Acts(c)
BY DEF Acts, Done, IInv, TypeOK

LEMMA NothingTouched ==
  ASSUME UNCHANGED <<voices, grants, disk>>, NEW v \in voices, NEW k
  PROVE  Untouched(v, k)
BY DEF Untouched, disk

\* An upload reaches a voice only under its owner's label.
LEMMA WriteTouches ==
  ASSUME IInv, NEW c \in Conns, pc[c] # "idle", Acts(c), NEW n \in Names,
         UNCHANGED <<voices, grants>>, NEW d, d = <<caller[c].label, n>>,
         audio' \in {audio, [audio EXCEPT ![d] = caller[c].id]},
         text' \in {text, [text EXCEPT ![d] = caller[c].id]},
         NEW v \in voices, NEW k \in keys, k.id = v.owner
  PROVE  Untouched(v, k) \/ Entitled(c, v) \/ Late(c, v, k)
<1>1. CASE k.label = caller[c].label
  <2>1. CASE caller[c].id \in Ids
    BY <1>1, <2>1 DEF Entitled, Ids, IInv, CallersKnown, LabelOfId, ReferentialIntegrity, KeysUnique
  <2>2. CASE caller[c].id \notin Ids
    BY <1>1, <2>2 DEF Late
  <2> QED
    BY <2>1, <2>2
<1>2. CASE k.label # caller[c].label
  <2>1. <<k.label, v.name>> \in Dirs /\ <<k.label, v.name>> # d
    BY <1>2 DEF Dirs, IInv, TypeOK, Key, Voice
  <2>2. /\ audio'[<<k.label, v.name>>] = audio[<<k.label, v.name>>]
        /\ text'[<<k.label, v.name>>] = text[<<k.label, v.name>>]
    BY <2>1 DEF IInv, TypeOK
  <2> QED
    BY <2>2 DEF Untouched
<1> QED
  BY <1>1, <1>2

LEMMA VoiceStepTouches ==
  ASSUME IInv, WInv, NEW c \in Conns, VoiceStep(c), NEW v \in voices, NEW k \in keys, k.id = v.owner
  PROVE  Untouched(v, k) \/ Entitled(c, v) \/ Late(c, v, k)
<1>1. CASE BeginUpload(c)
  BY <1>1, NothingTouched DEF BeginUpload, tables
<1>2. CASE WriteAudio(c)
  <2>1. PICK n \in Names : audio' = [audio EXCEPT ![<<caller[c].label, n>>] = caller[c].id]
    BY <1>2 DEF WriteAudio, IInv, JobsKnown, TypeOK
  <2>2. Acts(c)
    BY <1>2 DEF WriteAudio, Acts, IInv, TypeOK
  <2> QED
    BY <1>2, <2>1, <2>2, WriteTouches DEF WriteAudio, tables
<1>3. CASE WriteText(c)
  <2>1. PICK n \in Names : /\ text' = [text EXCEPT ![<<caller[c].label, n>>] = caller[c].id]
                           /\ Done(c) \/ pc' = [pc EXCEPT ![c] = "wroteText"]
    BY <1>3 DEF WriteText, IInv, JobsKnown, TypeOK
  <2>2. Acts(c)
    BY <1>3, <2>1, DoneActs DEF WriteText, Acts, IInv, TypeOK
  <2> QED
    BY <1>3, <2>1, <2>2, WriteTouches DEF WriteText, tables
<1>4. CASE InsertVoice(c)
  <2>1. voices \subseteq voices' /\ grants' = grants /\ UNCHANGED disk
    BY <1>4 DEF InsertVoice
  <2> QED
    BY <2>1 DEF Untouched, disk
<1>5. CASE DeleteVoice(c)
  <2>1. PICK w \in voices : /\ Cascade({}, {w})
                            /\ IsAdmin(caller[c]) \/ w.owner = caller[c].id
    BY <1>5, ChangeableAreVoices DEF DeleteVoice, Changeable
  <2>2. Acts(c) /\ UNCHANGED disk
    BY <1>5 DEF DeleteVoice, Handling, Acts, IInv, TypeOK
  <2>3. CASE w = v
    BY <2>1, <2>2, <2>3 DEF Entitled
  <2>4. CASE w # v
    <3>1. w.id # v.id
      BY <2>4 DEF IInv, ReferentialIntegrity, VoicesUnique
    <3> QED
      BY <2>1, <2>2, <2>4, <3>1 DEF Cascade, Untouched, disk
  <2> QED
    BY <2>3, <2>4
<1>6. CASE RemoveVoiceDir(c)
  <2>1. PICK n \in Names : /\ job[c].names = {n} /\ RemoveDir(job[c].label, n)
                           /\ \A w \in voices : Belongs(w, job[c].label) => w.name # n
    BY <1>6 DEF RemoveVoiceDir, WInv, HandlersKnown
  <2>2. <<k.label, v.name>> \in Dirs /\ <<k.label, v.name>> # <<job[c].label, n>>
    BY <2>1 DEF Dirs, IInv, TypeOK, Key, Voice, Belongs
  <2>3. /\ audio'[<<k.label, v.name>>] = audio[<<k.label, v.name>>]
        /\ text'[<<k.label, v.name>>] = text[<<k.label, v.name>>]
    BY <2>1, <2>2 DEF RemoveDir, IInv, TypeOK
  <2> QED
    BY <1>6, <2>3 DEF RemoveVoiceDir, tables, Untouched
<1>7. CASE SetVisibility(c)
  <2>1. PICK w \in voices : /\ IsAdmin(caller[c]) \/ w.owner = caller[c].id
                            /\ \E vis \in {"private", "public"} :
                                 voices' = (voices \ {w}) \cup {[w EXCEPT !.visibility = vis]}
    BY <1>7, ChangeableAreVoices DEF SetVisibility, Changeable
  <2>2. Acts(c) /\ grants' = grants /\ UNCHANGED disk
    BY <1>7, DoneActs DEF SetVisibility, Handling
  <2> QED
    BY <2>1, <2>2 DEF Entitled, Untouched, disk
<1>8. CASE GrantVoice(c) \/ RevokeGrant(c)
  <2>1. PICK w \in voices : /\ IsAdmin(caller[c]) \/ w.owner = caller[c].id
                            /\ \E r \in keys : \/ grants' = grants \cup {[voice |-> w.id, grantee |-> r.id]}
                                               \/ grants' = grants \ {[voice |-> w.id, grantee |-> r.id]}
    BY <1>8, ChangeableAreVoices DEF GrantVoice, RevokeGrant, Changeable
  <2>2. Acts(c) /\ voices' = voices /\ UNCHANGED disk
    BY <1>8, DoneActs DEF GrantVoice, RevokeGrant, Handling
  <2>3. CASE w = v
    BY <2>1, <2>2, <2>3 DEF Entitled
  <2>4. CASE w # v
    <3>1. w.id # v.id
      BY <2>4 DEF IInv, ReferentialIntegrity, VoicesUnique
    <3> QED
      BY <2>1, <2>2, <3>1 DEF Untouched, disk
  <2> QED
    BY <2>3, <2>4
<1> QED
  BY <1>1, <1>2, <1>3, <1>4, <1>5, <1>6, <1>7, <1>8 DEF VoiceStep

LEMMA AdminStepTouches ==
  ASSUME IInv, WInv, NEW c \in Conns, AdminStep(c), NEW v \in voices, NEW k \in keys
  PROVE  Untouched(v, k) \/ Entitled(c, v)
<1>1. CASE MintKey(c) \/ PatchKey(c) \/ RevokeKey(c) \/ StartPurge(c)
  BY <1>1, NothingTouched DEF MintKey, PatchKey, RevokeKey, StartPurge, tables
<1>2. CASE PurgeDir(c)
  <2>1. PICK n \in job[c].names : job' = [job EXCEPT ![c].names = @ \ {n}]
    BY <1>2 DEF PurgeDir
  <2>2. job'[c] # job[c] /\ IsAdmin(caller[c])
    BY <1>2, <2>1 DEF PurgeDir, IInv, TypeOK, WInv, HandlersKnown
  <2> QED
    BY <2>2 DEF Entitled, Acts
<1>3. CASE PurgeKey(c)
  <2>1. pc[c] = "purging" /\ Done(c)
    BY <1>3 DEF PurgeKey
  <2> QED
    BY <2>1, DoneActs DEF Entitled, WInv, HandlersKnown
<1> QED
  BY <1>1, <1>2, <1>3 DEF AdminStep

LEMMA StepTouches ==
  ASSUME IInv, WInv, [Next]_vars, phase = "serving", phase' = "serving",
         NEW v \in voices, NEW k \in keys, k.id = v.owner
  PROVE  \/ Untouched(v, k)
         \/ \E c \in Conns : Entitled(c, v)
         \/ \E c \in Conns : Late(c, v, k)
<1>1. CASE BootStep \/ Crash
  BY <1>1 DEF BootStep, SeedRoot, AdoptVoice, StartServing, Crash
<1>2. CASE Expire \/ UNCHANGED vars
  BY <1>2, NothingTouched DEF Expire, vars, tables
<1>3. ASSUME NEW c \in Conns, Authenticate(c) \/ Answer(c) PROVE Untouched(v, k)
  BY <1>3, NothingTouched DEF Authenticate, Answer, tables
<1>4. ASSUME NEW c \in Conns, AdminStep(c) PROVE Untouched(v, k) \/ Entitled(c, v)
  BY <1>4, AdminStepTouches
<1>5. ASSUME NEW c \in Conns, VoiceStep(c)
      PROVE  Untouched(v, k) \/ Entitled(c, v) \/ Late(c, v, k)
  BY <1>5, VoiceStepTouches
<1> QED
  BY <1>1, <1>2, <1>3, <1>4, <1>5 DEF Next

\* A voice changes only by a request of its owner or of an admin, and its
\* files else only by what a purged holder of the label still uploads.
THEOREM VoicesOwned == Spec => OnlyOwnersChangeVoices
<1>1. ASSUME IInv, WInv, [Next]_vars, phase = "serving", phase' = "serving"
      PROVE \A v \in voices, k \in keys :
         \/ k.id # v.owner
         \/ /\ v \in voices'
            /\ \A g \in grants \cup grants' : g.voice = v.id => g \in grants /\ g \in grants'
            /\ audio'[<<k.label, v.name>>] = audio[<<k.label, v.name>>]
            /\ text'[<<k.label, v.name>>] = text[<<k.label, v.name>>]
         \/ \E c \in Conns : Acts(c) /\ (caller[c].id = v.owner \/ IsAdmin(caller[c]))
         \/ v \in voices' /\ \E c \in Conns :
              Acts(c) /\ caller[c].label = k.label /\ caller[c].id \notin Ids
  BY <1>1, StepTouches DEF Untouched, Entitled, Late
<1>2. IInv /\ WInv /\ [Next]_vars =>
       [phase = "serving" /\ phase' = "serving" =>
       \A v \in voices, k \in keys :
         \/ k.id # v.owner
         \/ /\ v \in voices'
            /\ \A g \in grants \cup grants' : g.voice = v.id => g \in grants /\ g \in grants'
            /\ audio'[<<k.label, v.name>>] = audio[<<k.label, v.name>>]
            /\ text'[<<k.label, v.name>>] = text[<<k.label, v.name>>]
         \/ \E c \in Conns : Acts(c) /\ (caller[c].id = v.owner \/ IsAdmin(caller[c]))
         \/ v \in voices' /\ \E c \in Conns :
              Acts(c) /\ caller[c].label = k.label /\ caller[c].id \notin Ids]_vars
  BY <1>1
<1> QED
  BY <1>2, Invariance, WorkInvariance, PTL DEF Spec, OnlyOwnersChangeVoices

-----------------------------------------------------------------------------
(* Limits *)

LEMMA AddOne ==
  ASSUME NEW T, IsFiniteSet(T), NEW x
  PROVE  Cardinality(T \cup {x}) \in Nat /\ Cardinality(T \cup {x}) <= Cardinality(T) + 1
<1>1. Cardinality(T \cup {x}) = IF x \in T THEN Cardinality(T) ELSE Cardinality(T) + 1
  BY FS_AddElement
<1>2. Cardinality(T) \in Nat
  BY FS_CardinalityType
<1> QED
  BY <1>1, <1>2

\* Replacing a row by another of the same owner leaves no more than there were.
LEMMA ReplaceRow ==
  ASSUME NEW S, IsFiniteSet(S), NEW v \in S, NEW w
  PROVE  Cardinality((S \ {v}) \cup {w}) <= Cardinality(S)
<1> DEFINE T == S \ {v}
<1>1. IsFiniteSet(T) /\ Cardinality(T) = Cardinality(S) - 1 /\ Cardinality(S) \in Nat
  BY FS_RemoveElement, FS_CardinalityType
<1> HIDE DEF T
<1>2. Cardinality(T \cup {w}) <= Cardinality(T) + 1 /\ Cardinality(T \cup {w}) \in Nat
  BY <1>1, AddOne
<1>3. Cardinality(T \cup {w}) <= Cardinality(S)
  BY <1>1, <1>2
<1> QED
  BY <1>3 DEF T

LEMMA OwnedFinite ==
  ASSUME WInv, NEW who
  PROVE  IsFiniteSet(Owned(who)) /\ Cardinality(Owned(who)) \in Nat
<1>1. IsFiniteSet(Owned(who))
  BY FS_Subset DEF WInv, Owned
<1> QED
  BY <1>1, FS_CardinalityType

LEMMA InsertWithinLimit ==
  ASSUME IInv, WInv, NEW c \in Conns, InsertVoice(c), NEW k \in keys
  PROVE  \/ Owned(k)' \subseteq Owned(k)
         \/ /\ Acts(c) /\ caller[c].id = k.id
            /\ IsAdmin(caller[c]) \/ Cardinality(Owned(k)') <= caller[c].max_voices
<1>1. PICK n \in job[c].names :
        IF caller[c].id \in Ids
        THEN voices' = voices \cup {NewVoice(caller[c], n)}
        ELSE UNCHANGED voices
  BY DEF InsertVoice
<1>2. /\ pc[c] = "wroteText" /\ Done(c) /\ caller[c] \in Key
      /\ Find(caller[c], n) = {} /\ MayRegister(caller[c], n)
  BY DEF InsertVoice, IInv, CallersKnown, JobsKnown, WInv, HandlersKnown
<1>3. CASE caller[c].id # k.id \/ caller[c].id \notin Ids
  BY <1>1, <1>3 DEF Owned, NewVoice
<1>4. CASE caller[c].id = k.id /\ caller[c].id \in Ids
  <2>1. Owned(k)' = Owned(k) \cup {NewVoice(caller[c], n)} /\ Owned(k) = Owned(caller[c])
    BY <1>1, <1>4 DEF Owned, NewVoice
  <2>2. IsFiniteSet(Owned(k)) /\ Cardinality(Owned(k)) \in Nat
    BY OwnedFinite
  <2>3. Cardinality(Owned(k)') <= Cardinality(Owned(k)) + 1
    BY <2>1, <2>2, AddOne
  <2>4. Cardinality(Owned(k)') \in Nat
    BY <2>1, <2>2, AddOne
  <2>5. caller[c].max_voices \in Nat
    BY <1>2 DEF Key
  <2>6. IsAdmin(caller[c]) \/ Cardinality(Owned(k)) < caller[c].max_voices
    BY <1>2, <2>1 DEF MayRegister
  <2>7. Acts(c)
    BY <1>2, DoneActs
  <2>8. IsAdmin(caller[c]) \/ Cardinality(Owned(k)') <= caller[c].max_voices
    <3> DEFINE new == Cardinality(Owned(k)')
               old == Cardinality(Owned(k))
               max == caller[c].max_voices
    <3>1. new \in Nat /\ old \in Nat /\ max \in Nat /\ new <= old + 1
      BY <2>2, <2>3, <2>4, <2>5
    <3>2. old < max => new <= max
      <4> HIDE DEF new, old, max
      <4> QED
        BY <3>1
    <3> QED
      BY <2>6, <3>2
  <2> QED
    BY <1>4, <2>7, <2>8
<1> QED
  BY <1>3, <1>4

LEMMA StepWithinLimit ==
  ASSUME IInv, WInv, [Next]_vars, phase = "serving", NEW k \in keys
  PROVE  \/ Owned(k)' \subseteq Owned(k) \/ Cardinality(Owned(k)') <= Cardinality(Owned(k))
         \/ \E c \in Conns : /\ Acts(c) /\ caller[c].id = k.id
                             /\ \/ IsAdmin(caller[c])
                                \/ Cardinality(Owned(k)') <= caller[c].max_voices
<1>1. CASE voices' \subseteq voices
  BY <1>1 DEF Owned
<1>2. CASE \E c \in Conns : InsertVoice(c)
  BY <1>2, InsertWithinLimit
<1>3. ASSUME NEW c \in Conns, SetVisibility(c)
      PROVE  Owned(k)' \subseteq Owned(k) \/ Cardinality(Owned(k)') <= Cardinality(Owned(k))
  <2>1. PICK v \in voices, vis \in {"private", "public"} :
          voices' = (voices \ {v}) \cup {[v EXCEPT !.visibility = vis]}
    BY <1>3, ChangeableAreVoices DEF SetVisibility
  <2> DEFINE w == [v EXCEPT !.visibility = vis]
  <2>2. w.owner = v.owner /\ voices' = (voices \ {v}) \cup {w}
    BY <2>1 DEF IInv, TypeOK, Voice
  <2> HIDE DEF w
  <2>3. CASE v.owner = k.id
    <3>1. v \in Owned(k) /\ Owned(k)' = (Owned(k) \ {v}) \cup {w}
      BY <2>2, <2>3 DEF Owned
    <3> QED
      BY <3>1, OwnedFinite, ReplaceRow
  <2>4. CASE v.owner # k.id
    BY <2>2, <2>4 DEF Owned
  <2> QED
    BY <2>3, <2>4
<1>4. CASE BootStep \/ Crash \/ Expire \/ UNCHANGED vars
  BY <1>1, <1>4 DEF BootStep, SeedRoot, AdoptVoice, StartServing, Crash, Expire, vars, tables
<1>5. ASSUME NEW c \in Conns, Authenticate(c) \/ Answer(c) PROVE voices' \subseteq voices
  BY <1>5 DEF Authenticate, Answer, tables
<1>6. ASSUME NEW c \in Conns, AdminStep(c) PROVE voices' \subseteq voices
  BY <1>6 DEF AdminStep, MintKey, PatchKey, RevokeKey, StartPurge, PurgeDir, PurgeKey, Cascade,
              tables
<1>7. ASSUME NEW c \in Conns, VoiceStep(c), ~InsertVoice(c), ~SetVisibility(c)
      PROVE  voices' \subseteq voices
  BY <1>7 DEF VoiceStep, BeginUpload, WriteAudio, WriteText, DeleteVoice, Cascade,
              RemoveVoiceDir, GrantVoice, RevokeGrant, tables
<1> QED
  BY <1>1, <1>2, <1>3, <1>4, <1>5, <1>6, <1>7 DEF Next

\* However many uploads a key has under way, no registration takes it past
\* the limit it was authenticated with.
THEOREM LimitSafe == Spec => LimitHonoured
<1>1. IInv /\ WInv /\ [Next]_vars =>
  [\A k \in keys :
       Owned(k)' \subseteq Owned(k) \/ Cardinality(Owned(k)') <= Cardinality(Owned(k))
       \/ IsAdmin(k) \/ phase # "serving"
       \/ \E c \in Conns : /\ Acts(c) /\ caller[c].id = k.id
                           /\ \/ IsAdmin(caller[c])
                              \/ Cardinality(Owned(k)') <= caller[c].max_voices]_vars
  BY StepWithinLimit
<1> QED
  BY <1>1, Invariance, WorkInvariance, PTL DEF Spec, LimitHonoured

=============================================================================
