------------------------------ MODULE Registry ------------------------------
(***************************************************************************)
(* Who may use the server and what they own: the api_keys, voices and      *)
(* voice_grants tables (identity.py, voices.py, db.py), the recordings     *)
(* kept beside them on disk, and the HTTP handlers that change both        *)
(* (routes/admin.py, routes/clones.py).                                    *)
(*                                                                         *)
(* A request is two separate pieces of work.  The _authenticate dependency *)
(* runs in a worker thread and hands the handler a snapshot of the         *)
(* caller's key; the handler runs later, on the event loop, and never      *)
(* reads that key again.  One handler has the loop at a time and gives it  *)
(* up only where it awaits (reading an upload), but the process may die    *)
(* between any two of its writes: every write to a table or to the disk    *)
(* is a step of its own.                                                   *)
(*                                                                         *)
(* Names of voices are valid ones.  The bytes of a recording are           *)
(* abstracted to the id of the key that uploaded them.  Tokens are         *)
(* abstracted to the row they authenticate; last_used_at, created_at and   *)
(* notes are left out.                                                     *)
(***************************************************************************)
EXTENDS Naturals, FiniteSets

CONSTANTS
  Labels,       \* key labels
  RootLabel,    \* MIMIC_ROOT_LABEL
  Names,        \* voice names
  Conns,        \* requests the server works on at a time
  None,
  AuthMode,     \* "token", "local" (loopback dev mode) or "anonymous"
  MintBodies,   \* what a POST /admin/keys may ask for
  PatchBodies,  \* the fields a PATCH /admin/keys may carry
  MaxKeyId,     \* bound: key ids handed out
  MaxVoiceId,   \* bound: voice ids handed out
  MaxCrashes    \* bound: times the process dies

ASSUME RootAssumption == RootLabel \in Labels
ASSUME NoneAssumption == None \notin Labels /\ None \notin Names /\ None \notin Nat
ASSUME ModeAssumption == AuthMode \in {"token", "local", "anonymous"}

Roles == {"user", "admin"}
Expiries == {"never", "later", "past"}

Key == [id : Nat, label : Labels, role : Roles, enabled : BOOLEAN,
        expires : Expiries, can_upload : BOOLEAN, max_voices : Nat,
        managed_by_env : BOOLEAN]

Voice == [id : Nat, owner : Nat, name : Names, visibility : {"private", "public"}]

Grant == [voice : Nat, grantee : Nat]

\* A directory reference/<label>/<name>/ holds audio.wav and text.txt.
Dirs == Labels \X Names

ASSUME BodyAssumption ==
  /\ \A b \in MintBodies :
       /\ b.role \in Roles /\ b.can_upload \in BOOLEAN
       /\ b.max_voices \in Nat /\ b.expires \in Expiries
  /\ \A p \in PatchBodies :
       /\ DOMAIN p \subseteq {"enabled", "expires", "role", "can_upload", "max_voices"}
       /\ "enabled" \in DOMAIN p => p["enabled"] \in BOOLEAN
       /\ "expires" \in DOMAIN p => p["expires"] \in Expiries
       /\ "role" \in DOMAIN p => p["role"] \in Roles
       /\ "can_upload" \in DOMAIN p => p["can_upload"] \in BOOLEAN
       /\ "max_voices" \in DOMAIN p => p["max_voices"] \in Nat

VARIABLES
  keys, voices, grants,   \* the tables
  nextKey, nextVoice,     \* AUTOINCREMENT: an id is never given out twice
  audio, text,            \* the disk: who uploaded each audio.wav and text.txt
  phase,                  \* the process: down, adopting or serving
  rootKey,                \* the row ensure_env_root returned at boot
  pc, caller, job,        \* each request: where it is, its Caller, what it works on
  crashes

tables == <<keys, voices, grants, nextKey, nextVoice>>
disk == <<audio, text>>
server == <<phase, rootKey, crashes>>
requests == <<pc, caller, job>>
vars == <<tables, disk, server, requests>>

Waiting == {"idle", "authed", "uploading"}
Holding == {"wroteAudio", "wroteText", "deleting", "purging"}

\* Mutant: handlers declared `def`, each on a worker thread of its own.
LoopFreeAlways == TRUE

\* No handler is between two of its writes.
LoopFree == \A c \in Conns : pc[c] \in Waiting

-----------------------------------------------------------------------------
(* Reading the tables *)

Ids == {k.id : k \in keys}
IsAdmin(who) == who.role = "admin"
Owned(who) == {v \in voices : v.owner = who.id}
Find(who, name) == {v \in Owned(who) : v.name = name}

\* The join of _SELECT: the row with its owner's label.
Belongs(v, label) == \E k \in keys : k.id = v.owner /\ k.label = label

\* Mutant: resolve() never looks at voice_grants.
CanSeeUnlessGranted(who, v) ==
  IsAdmin(who) \/ v.owner = who.id \/ v.visibility = "public"

CanSee(who, v) ==
  \/ IsAdmin(who) \/ v.owner = who.id \/ v.visibility = "public"
  \/ [voice |-> v.id, grantee |-> who.id] \in grants

\* The LEFT JOIN of visible_to: rows whose joined grant is not NULL.
VisibleTo(who) ==
  IF IsAdmin(who) THEN voices
  ELSE Owned(who) \cup {v \in voices : v.visibility = "public"}
       \cup {v \in voices : \E g \in grants : g.voice = v.id /\ g.grantee = who.id}

\* What a request may name a voice by: "name" or "owner/name".
Specs == [owner : Labels \cup {None}, name : Names]

\* The voice a name stands for, as a set of at most one row.  A name that
\* matches several visible voices is refused as ambiguous.
Resolve(who, spec) ==
  LET named == {v \in VisibleTo(who) : v.name = spec.name} IN
  IF spec.owner # None
  THEN {v \in voices : v.name = spec.name /\ Belongs(v, spec.owner) /\ CanSee(who, v)}
  ELSE IF Find(who, spec.name) # {} THEN Find(who, spec.name)
  ELSE {v \in named : named = {v}}

\* Mutant: the check of _require_owner is forgotten.
ChangeableIfSeen(who, spec) == Resolve(who, spec)

\* _require_owner: the voice named, when it is the caller's to change.
Changeable(who, spec) == {v \in Resolve(who, spec) : IsAdmin(who) \/ v.owner = who.id}

-----------------------------------------------------------------------------
(* Boot: bootstrap() on the tables and the root owner's directory *)

NoJob == [label |-> RootLabel, names |-> {}]

RootRow(i) == [id |-> i, label |-> RootLabel, role |-> "admin", enabled |-> TRUE,
               expires |-> "never", can_upload |-> TRUE, max_voices |-> 5,
               managed_by_env |-> TRUE]

Init ==
  /\ keys = {} /\ voices = {} /\ grants = {}
  /\ nextKey = 1 /\ nextVoice = 1
  /\ audio = [d \in Dirs |-> None] /\ text = [d \in Dirs |-> None]
  /\ phase = "down" /\ rootKey = None /\ crashes = 0
  /\ pc = [c \in Conns |-> "idle"]
  /\ caller = [c \in Conns |-> None]
  /\ job = [c \in Conns |-> NoJob]

\* ensure_env_root creates the row, or restores what makes it an admin's.
SeedRoot ==
  /\ phase = "down" /\ phase' = "adopting"
  /\ \/ /\ ~\E k \in keys : k.label = RootLabel
        /\ rootKey' = RootRow(nextKey)
        /\ keys' = keys \cup {rootKey'} /\ nextKey' = nextKey + 1
     \/ \E k \in keys :
        /\ k.label = RootLabel
        /\ rootKey' = [k EXCEPT !.role = "admin", !.enabled = TRUE,
                                !.expires = "never", !.managed_by_env = TRUE]
        /\ keys' = (keys \ {k}) \cup {rootKey'} /\ UNCHANGED nextKey
  /\ UNCHANGED <<voices, grants, nextVoice, disk, requests, crashes>>

\* Mutant: bootstrap never reconciles the root owner's directory.
UnlistedIgnored == {}

\* Recordings in the root owner's directory that no row mentions.
Unlisted == {n \in Names : audio[<<RootLabel, n>>] # None /\ Find(rootKey, n) = {}}

NewVoice(who, name) ==
  [id |-> nextVoice, owner |-> who.id, name |-> name, visibility |-> "private"]

\* _reconcile_owner_dir, one adopted recording at a time.
AdoptVoice(name) ==
  /\ phase = "adopting" /\ name \in Unlisted
  /\ voices' = voices \cup {NewVoice(rootKey, name)}
  /\ nextVoice' = nextVoice + 1
  /\ UNCHANGED <<keys, grants, nextKey, disk, server, requests>>

StartServing ==
  /\ phase = "adopting" /\ Unlisted = {} /\ phase' = "serving"
  /\ UNCHANGED <<tables, disk, rootKey, crashes, requests>>

\* The process dies (or is stopped): what is on disk stays as it is.
Crash ==
  /\ phase # "down" /\ crashes < MaxCrashes
  /\ phase' = "down" /\ rootKey' = None /\ crashes' = crashes + 1
  /\ pc' = [c \in Conns |-> "idle"]
  /\ caller' = [c \in Conns |-> None]
  /\ job' = [c \in Conns |-> NoJob]
  /\ UNCHANGED <<tables, disk>>

-----------------------------------------------------------------------------
(* Requests *)

\* The worker thread resolves the token to a key and keeps a copy of the row.
\* Without MIMIC_API_TOKEN everyone is the root key as it was at boot, less
\* its role when the server is bound publicly.
Authenticated ==
  CASE AuthMode = "token" -> {k \in keys : k.enabled /\ k.expires # "past"}
    [] AuthMode = "local" -> {rootKey}
    [] AuthMode = "anonymous" -> {[rootKey EXCEPT !.role = "user"]}

Authenticate(c) ==
  /\ phase = "serving" /\ pc[c] = "idle"
  /\ \E k \in Authenticated : caller' = [caller EXCEPT ![c] = k]
  /\ pc' = [pc EXCEPT ![c] = "authed"]
  /\ UNCHANGED <<tables, disk, server, job>>

\* The request ends: its handler returns or raises.
Done(c) ==
  /\ pc' = [pc EXCEPT ![c] = "idle"]
  /\ caller' = [caller EXCEPT ![c] = None]
  /\ job' = [job EXCEPT ![c] = NoJob]

\* A read-only route, any error before the first write, or a client that left.
Answer(c) ==
  /\ LoopFree /\ pc[c] \in {"authed", "uploading"}
  /\ Done(c) /\ UNCHANGED <<tables, disk, server>>

Handling(c) == LoopFree /\ pc[c] = "authed"

\* Mutant: an admin route without the require_admin dependency.
AdministeringAnyone(c) == Handling(c)

Administering(c) == Handling(c) /\ IsAdmin(caller[c])

\* Time passes an expiry set earlier.
Expire ==
  /\ phase = "serving"
  /\ \E k \in keys : /\ k.expires = "later"
                     /\ keys' = (keys \ {k}) \cup {[k EXCEPT !.expires = "past"]}
  /\ UNCHANGED <<voices, grants, nextKey, nextVoice, disk, server, requests>>

MintKey(c) ==
  /\ Administering(c) /\ nextKey <= MaxKeyId
  /\ \E label \in Labels, b \in MintBodies :
       /\ ~\E k \in keys : k.label = label
       /\ keys' = keys \cup {[id |-> nextKey, label |-> label, role |-> b.role,
            enabled |-> TRUE, expires |-> b.expires, can_upload |-> b.can_upload,
            max_voices |-> b.max_voices, managed_by_env |-> FALSE]}
  /\ nextKey' = nextKey + 1
  /\ Done(c) /\ UNCHANGED <<voices, grants, nextVoice, disk, server>>

RootPatchable == {"max_voices", "can_upload"}

\* Mutant: fields the body does not carry are written as NULL.
SentOrNull(fields, name, old) == IF name \in DOMAIN fields THEN fields[name] ELSE None

\* UPDATE ... SET: the value sent, or the one the row has.
Sent(fields, name, old) == IF name \in DOMAIN fields THEN fields[name] ELSE old

Patched(k, fields) ==
  [k EXCEPT !.enabled = Sent(fields, "enabled", @),
            !.expires = Sent(fields, "expires", @),
            !.role = Sent(fields, "role", @),
            !.can_upload = Sent(fields, "can_upload", @),
            !.max_voices = Sent(fields, "max_voices", @)]

\* Mutant: a denylist, written before keys had expiries.
MayPatchUnlessDenied(k, fields) ==
  k.managed_by_env => DOMAIN fields \cap {"enabled", "role"} = {}

\* _guard_root_mutation: an allowlist, so a new field is refused.
MayPatch(k, fields) == k.managed_by_env => DOMAIN fields \subseteq RootPatchable

PatchKey(c) ==
  /\ Administering(c)
  /\ \E k \in keys, fields \in PatchBodies :
       /\ MayPatch(k, fields)
       /\ keys' = (keys \ {k}) \cup {Patched(k, fields)}
  /\ Done(c) /\ UNCHANGED <<voices, grants, nextKey, nextVoice, disk, server>>

RevokeKey(c) ==
  /\ Administering(c)
  /\ \E k \in keys : /\ ~k.managed_by_env
                     /\ keys' = (keys \ {k}) \cup {[k EXCEPT !.enabled = FALSE]}
  /\ Done(c) /\ UNCHANGED <<voices, grants, nextKey, nextVoice, disk, server>>

\* DELETE ...?purge=true: every recording of the key first, its row last.
StartPurge(c) ==
  /\ Administering(c)
  /\ \E k \in keys :
       /\ ~k.managed_by_env
       /\ job' = [job EXCEPT ![c] = [label |-> k.label, names |-> {v.name : v \in Owned(k)}]]
  /\ pc' = [pc EXCEPT ![c] = "purging"]
  /\ UNCHANGED <<tables, disk, server, caller>>

\* shutil.rmtree of one voice's directory.
RemoveDir(label, name) ==
  /\ audio' = [audio EXCEPT ![<<label, name>>] = None]
  /\ text' = [text EXCEPT ![<<label, name>>] = None]

PurgeDir(c) ==
  /\ pc[c] = "purging"
  /\ \E n \in job[c].names :
       /\ RemoveDir(job[c].label, n)
       /\ job' = [job EXCEPT ![c].names = @ \ {n}]
  /\ UNCHANGED <<tables, server, pc, caller>>

\* Mutant: the connection never set PRAGMA foreign_keys.
CascadeNothing(ks, vs) ==
  /\ keys' = keys \ ks /\ voices' = voices \ vs /\ UNCHANGED grants

\* The rows that ON DELETE CASCADE removes with the keys and voices given.
Cascade(ks, vs) ==
  LET gone == vs \cup {v \in voices : \E k \in ks : v.owner = k.id} IN
  /\ keys' = keys \ ks
  /\ voices' = voices \ gone
  /\ grants' = {g \in grants : /\ \A v \in gone : g.voice # v.id
                               /\ \A k \in ks : g.grantee # k.id}

\* Mutant: a primary key without AUTOINCREMENT, the highest id is free again.
PurgeKeyReusingId(c) ==
  /\ pc[c] = "purging" /\ job[c].names = {}
  /\ Cascade({k \in keys : k.label = job[c].label}, {})
  /\ nextKey' = CHOOSE i \in 1..nextKey :
       (\A k \in keys' : k.id < i) /\ (i = 1 \/ \E k \in keys' : k.id = i - 1)
  /\ Done(c) /\ UNCHANGED <<nextVoice, disk, server>>

PurgeKey(c) ==
  /\ pc[c] = "purging" /\ job[c].names = {}
  /\ Cascade({k \in keys : k.label = job[c].label}, {})
  /\ Done(c) /\ UNCHANGED <<nextKey, nextVoice, disk, server>>

-----------------------------------------------------------------------------
(* Voices *)

\* Mutant: the name is not validated and may lead into another directory.
BeginUploadAnywhere(c) ==
  /\ Handling(c)
  /\ \E n \in Names, label \in Labels :
       job' = [job EXCEPT ![c] = [label |-> label, names |-> {n}]]
  /\ pc' = [pc EXCEPT ![c] = "uploading"]
  /\ UNCHANGED <<tables, disk, server, caller>>

\* clone_register waits for the upload; other handlers run meanwhile.
BeginUpload(c) ==
  /\ Handling(c)
  /\ \E n \in Names :
       job' = [job EXCEPT ![c] = [label |-> caller[c].label, names |-> {n}]]
  /\ pc' = [pc EXCEPT ![c] = "uploading"]
  /\ UNCHANGED <<tables, disk, server, caller>>

\* Mutant: the limit compared the wrong way.
MayRegisterOneMore(who, name) ==
  /\ who.can_upload \/ IsAdmin(who)
  /\ \/ Find(who, name) # {} \/ IsAdmin(who)
     \/ Cardinality(Owned(who)) <= who.max_voices

\* A new voice of a caller who is no admin must fit the caller's limit.
MayRegister(who, name) ==
  /\ who.can_upload \/ IsAdmin(who)
  /\ \/ Find(who, name) # {} \/ IsAdmin(who)
     \/ Cardinality(Owned(who)) < who.max_voices

\* Bound: an id for this voice, and one for what each crash leaves to adopt.
IdsLeft == nextVoice + (MaxCrashes - crashes) <= MaxVoiceId

WriteAudio(c) ==
  /\ LoopFree /\ pc[c] = "uploading" /\ IdsLeft
  /\ \E n \in job[c].names :
       /\ MayRegister(caller[c], n)
       /\ audio' = [audio EXCEPT ![<<job[c].label, n>>] = caller[c].id]
  /\ pc' = [pc EXCEPT ![c] = "wroteAudio"]
  /\ UNCHANGED <<tables, text, server, caller, job>>

\* A voice registered before keeps its row, visibility and grants.
WriteText(c) ==
  /\ pc[c] = "wroteAudio"
  /\ \E n \in job[c].names :
       /\ text' = [text EXCEPT ![<<job[c].label, n>>] = caller[c].id]
       /\ IF Find(caller[c], n) # {} THEN Done(c)
          ELSE pc' = [pc EXCEPT ![c] = "wroteText"] /\ UNCHANGED <<caller, job>>
  /\ UNCHANGED <<tables, audio, server>>

\* The foreign key refuses a row for a key purged since the caller was
\* authenticated; the files stay.
InsertVoice(c) ==
  /\ pc[c] = "wroteText"
  /\ \E n \in job[c].names :
       IF caller[c].id \in Ids
       THEN /\ voices' = voices \cup {NewVoice(caller[c], n)}
            /\ nextVoice' = nextVoice + 1
       ELSE UNCHANGED <<voices, nextVoice>>
  /\ Done(c) /\ UNCHANGED <<keys, grants, nextKey, disk, server>>

DeleteVoice(c) ==
  /\ Handling(c)
  /\ \E spec \in Specs : \E v \in Changeable(caller[c], spec) :
       /\ Cascade({}, {v})
       /\ \E k \in keys :
            /\ k.id = v.owner
            /\ job' = [job EXCEPT ![c] = [label |-> k.label, names |-> {v.name}]]
  /\ pc' = [pc EXCEPT ![c] = "deleting"]
  /\ UNCHANGED <<nextKey, nextVoice, disk, server, caller>>

RemoveVoiceDir(c) ==
  /\ pc[c] = "deleting"
  /\ \E n \in job[c].names : RemoveDir(job[c].label, n)
  /\ Done(c) /\ UNCHANGED <<tables, server>>

SetVisibility(c) ==
  /\ Handling(c)
  /\ \E spec \in Specs, vis \in {"private", "public"} :
       \E v \in Changeable(caller[c], spec) :
         voices' = (voices \ {v}) \cup {[v EXCEPT !.visibility = vis]}
  /\ Done(c) /\ UNCHANGED <<keys, grants, nextKey, nextVoice, disk, server>>

GrantVoice(c) ==
  /\ Handling(c)
  /\ \E spec \in Specs, k \in keys : \E v \in Changeable(caller[c], spec) :
       grants' = grants \cup {[voice |-> v.id, grantee |-> k.id]}
  /\ Done(c) /\ UNCHANGED <<keys, voices, nextKey, nextVoice, disk, server>>

RevokeGrant(c) ==
  /\ Handling(c)
  /\ \E spec \in Specs, k \in keys : \E v \in Changeable(caller[c], spec) :
       grants' = grants \ {[voice |-> v.id, grantee |-> k.id]}
  /\ Done(c) /\ UNCHANGED <<keys, voices, nextKey, nextVoice, disk, server>>

-----------------------------------------------------------------------------
AdminStep(c) == \/ MintKey(c) \/ PatchKey(c) \/ RevokeKey(c)
                \/ StartPurge(c) \/ PurgeDir(c) \/ PurgeKey(c)

VoiceStep(c) == \/ BeginUpload(c) \/ WriteAudio(c) \/ WriteText(c) \/ InsertVoice(c)
                \/ DeleteVoice(c) \/ RemoveVoiceDir(c)
                \/ SetVisibility(c) \/ GrantVoice(c) \/ RevokeGrant(c)

BootStep == SeedRoot \/ (\E n \in Names : AdoptVoice(n)) \/ StartServing

Next ==
  \/ BootStep \/ Crash \/ Expire
  \/ \E c \in Conns : Authenticate(c) \/ Answer(c) \/ AdminStep(c) \/ VoiceStep(c)

Spec == Init /\ [][Next]_vars
-----------------------------------------------------------------------------
(* Properties *)

TypeOK ==
  /\ keys \subseteq Key /\ voices \subseteq Voice /\ grants \subseteq Grant
  /\ nextKey \in Nat /\ nextVoice \in Nat /\ crashes \in Nat
  /\ audio \in [Dirs -> Nat \cup {None}] /\ text \in [Dirs -> Nat \cup {None}]
  /\ phase \in {"down", "adopting", "serving"}
  /\ rootKey \in Key \cup {None}
  /\ pc \in [Conns -> Waiting \cup Holding]
  /\ caller \in [Conns -> Key \cup {None}]
  /\ job \in [Conns -> [label : Labels, names : SUBSET Names]]

\* The schema's UNIQUE and REFERENCES clauses hold between handlers: a purge
\* takes with it the key's voices, the grants on them and those made to it,
\* and two requests for the same name never make two voices.
KeysUnique ==
  \A k1, k2 \in keys : k1.id = k2.id \/ k1.label = k2.label => k1 = k2
VoicesUnique ==
  \A v1, v2 \in voices :
    v1.id = v2.id \/ (v1.owner = v2.owner /\ v1.name = v2.name) => v1 = v2
ForeignKeys ==
  /\ \A v \in voices : v.owner \in Ids
  /\ \A g \in grants : g.grantee \in Ids /\ \E v \in voices : v.id = g.voice
ReferentialIntegrity == KeysUnique /\ VoicesUnique /\ ForeignKeys

\* docs/server.md: the root key is the recovery path.  Whatever the admins
\* do, and whenever the process dies, a serving process has it as an enabled
\* admin key without an expiry, and it is the only key managed by env.
RootRecoverable ==
  phase # "down" =>
    \E k \in keys :
      /\ k.label = RootLabel /\ IsAdmin(k) /\ k.enabled /\ k.expires = "never"
      /\ \A k2 \in keys : k2.managed_by_env <=> k2 = k

\* A recording is written under its caller's label, from a copy of the key
\* that may be gone by then.  It never lands in the voice of another key
\* still in use: a voice plays what its owner uploaded, or what a purged
\* holder of the same label uploaded too late.
NobodyElsesRecording ==
  \A v \in voices, k \in keys, n \in Names :
    k.id = v.owner =>
      /\ audio[<<k.label, n>>] = v.owner \/ audio[<<k.label, n>>] \notin Ids
      /\ text[<<k.label, n>>] = v.owner \/ text[<<k.label, n>>] \notin Ids

\* As long as the process never died, a voice that can be named can be
\* spoken with: reference_paths finds both its files.  Only a purge at work
\* on them has rows without files, and nobody else has the loop then.
VoicesHaveFiles ==
  crashes = 0 =>
    \A v \in voices, k \in keys :
      k.id = v.owner =>
        \/ audio[<<k.label, v.name>>] # None /\ text[<<k.label, v.name>>] # None
        \/ \E c \in Conns : pc[c] = "purging" /\ job[c].label = k.label

\* docs/server.md:123 and docs/client.md:128: purging a key deletes the key's
\* files.  Short of a crash, whatever is on disk was uploaded by a key that
\* still exists.  The code breaks it: a request authenticated before the purge
\* writes its recording after it, and only then is its row refused.
PurgedFilesGone ==
  crashes = 0 /\ LoopFree =>
    \A d \in Dirs : audio[d] \in Ids \cup {None} /\ text[d] \in Ids \cup {None}

\* _reconcile_owner_dir: no recording of the root key is invisible to a
\* server that answers, wherever an earlier process died.
RootRecordingsListed ==
  phase = "serving" /\ LoopFree =>
    \A n \in Names : audio[<<RootLabel, n>>] # None =>
      \E k \in keys : k.label = RootLabel /\ Find(k, n) # {}

\* Listing and resolving agree, though one is a join and the other asks row
\* by row: the qualified name of a voice listed for a caller gets that voice
\* and no other, and a name resolves to nothing that is not listed.
ListedResolves ==
  LoopFree =>
    \A who \in keys, v \in voices, k \in keys :
      k.id = v.owner =>
        LET spec == [owner |-> k.label, name |-> v.name] IN
        Resolve(who, spec) = IF v \in VisibleTo(who) THEN {v} ELSE {}

-----------------------------------------------------------------------------
(* What a step may never do *)

\* The request whose handler takes the step.
Acts(c) == pc[c] # pc'[c] \/ job[c] # job'[c]

\* The root key's row is there afterwards, as it was but for the fields that
\* _ROOT_PATCHABLE_FIELDS names.
RootRowKept ==
  \A k \in keys : k.managed_by_env =>
    \E k2 \in keys' : \A f \in DOMAIN k \ RootPatchable : k2[f] = k[f]

\* While the server answers, keys change only by the request of a caller who
\* was an administrator when authenticated, or by one key's expiry; and the
\* root key's row is not deleted, nor changed outside _ROOT_PATCHABLE_FIELDS.
OnlyAdminsChangeKeys ==
  [][phase = "serving" /\ keys' # keys =>
       /\ RootRowKept
       /\ \/ \E c \in Conns : Acts(c) /\ IsAdmin(caller[c])
          \/ \E k \in keys : /\ k.expires = "later"
                             /\ keys' = (keys \ {k}) \cup {[k EXCEPT !.expires = "past"]}]_vars

\* While the server answers, a voice, its sharing and its files change only
\* by a request of its owner, or of an admin.  A late upload by a purged
\* holder of the owner's label is the one exception, and reaches only files.
OnlyOwnersChangeVoices ==
  [][phase = "serving" /\ phase' = "serving" =>
       \A v \in voices, k \in keys :
         \/ k.id # v.owner
         \/ /\ v \in voices'
            /\ \A g \in grants \cup grants' : g.voice = v.id => g \in grants /\ g \in grants'
            /\ audio'[<<k.label, v.name>>] = audio[<<k.label, v.name>>]
            /\ text'[<<k.label, v.name>>] = text[<<k.label, v.name>>]
         \/ \E c \in Conns : Acts(c) /\ (caller[c].id = v.owner \/ IsAdmin(caller[c]))
         \/ v \in voices' /\ \E c \in Conns :
              Acts(c) /\ caller[c].label = k.label /\ caller[c].id \notin Ids]_vars

\* register counts again after the upload: however many uploads a key has
\* under way, none takes it past the limit it was authenticated with.
LimitHonoured ==
  [][\A k \in keys :
       Owned(k)' \subseteq Owned(k) \/ Cardinality(Owned(k)') <= Cardinality(Owned(k))
       \/ IsAdmin(k) \/ phase # "serving"
       \/ \E c \in Conns : /\ Acts(c) /\ caller[c].id = k.id
                           /\ \/ IsAdmin(caller[c])
                              \/ Cardinality(Owned(k)') <= caller[c].max_voices]_vars

-----------------------------------------------------------------------------
(* The inductive invariant behind the safety properties *)

IdsFresh ==
  /\ \A k \in keys : k.id < nextKey
  /\ \A v \in voices : v.id < nextVoice

\* Only the row with the root label is managed by env, and the key the boot
\* returned is still that row, whatever was patched since.
RootKnown ==
  /\ \A k \in keys : k.managed_by_env <=> k.label = RootLabel
  /\ phase # "down" =>
       /\ \E k \in keys : /\ k.label = RootLabel /\ IsAdmin(k)
                          /\ k.enabled /\ k.expires = "never"
       /\ rootKey \in Key /\ rootKey.label = RootLabel
       /\ \E k \in keys : k.id = rootKey.id /\ k.label = RootLabel

\* A label belongs to an id for good: a copy of a key may be stale in every
\* other field, and its row may be gone, but no row gives its id another label.
LabelOfId(i, label) == i < nextKey /\ \A k \in keys : k.id = i => k.label = label

CallersKnown ==
  \A c \in Conns : pc[c] # "idle" =>
    /\ phase = "serving"
    /\ caller[c] \in Key /\ LabelOfId(caller[c].id, caller[c].label)

JobsKnown ==
  \A c \in Conns :
    /\ pc[c] \in {"uploading", "wroteAudio", "wroteText"} =>
         job[c].label = caller[c].label /\ \E n \in Names : job[c].names = {n}
    /\ pc[c] = "wroteText" => \A n \in job[c].names : Find(caller[c], n) = {}
    /\ pc[c] = "purging" => job[c].label # RootLabel

OneHolder ==
  \A c1, c2 \in Conns : pc[c1] \in Holding /\ pc[c2] \in Holding => c1 = c2

FilesKnown ==
  \A label \in Labels, n \in Names :
    /\ audio[<<label, n>>] # None => LabelOfId(audio[<<label, n>>], label)
    /\ text[<<label, n>>] # None => LabelOfId(text[<<label, n>>], label)

IInv == /\ TypeOK /\ ReferentialIntegrity /\ IdsFresh /\ RootKnown
        /\ CallersKnown /\ JobsKnown /\ OneHolder /\ FilesKnown
-----------------------------------------------------------------------------
(* The inductive invariant, on top of IInv, behind what is said of the disk,
   of the limits and of who may do what                                    *)

\* What a handler between two of its writes relies on: nobody takes away the
\* right or the limit it checked, and no row points into the directory it
\* removes.  A caller under the root label is the root key that is there.
HandlersKnown ==
  \A c \in Conns :
    /\ pc[c] # "idle" /\ caller[c].label = RootLabel => caller[c].id \in Ids
    /\ pc[c] = "purging" => IsAdmin(caller[c])
    /\ pc[c] \in {"wroteAudio", "wroteText"} =>
         \A n \in job[c].names : MayRegister(caller[c], n)
    /\ pc[c] = "deleting" => \E n \in Names :
         /\ job[c].names = {n}
         /\ \A v \in voices : Belongs(v, job[c].label) => v.name # n

\* Before its first crash a process starts on an empty disk, and what the
\* handler that has the loop wrote is there until it inserts the row.
WritesKnown ==
  crashes = 0 =>
    /\ phase # "serving" => \A d \in Dirs : audio[d] = None
    /\ \A c \in Conns, n \in Names : n \in job[c].names =>
         /\ pc[c] \in {"wroteAudio", "wroteText"} => audio[<<job[c].label, n>>] # None
         /\ pc[c] = "wroteText" => text[<<job[c].label, n>>] # None

\* A recording of the root key without a row is the work of a handler that
\* is about to insert the row or to remove the recording.
RootRecordingsAtWork ==
  phase = "serving" =>
    \A n \in Names : audio[<<RootLabel, n>>] # None =>
      \/ \E k \in keys : k.label = RootLabel /\ Find(k, n) # {}
      \/ \E c \in Conns : /\ pc[c] \in {"wroteAudio", "wroteText", "deleting"}
                          /\ job[c].label = RootLabel /\ n \in job[c].names

WInv == /\ IsFiniteSet(voices) /\ HandlersKnown /\ WritesKnown
        /\ VoicesHaveFiles /\ RootRecordingsAtWork
=============================================================================
