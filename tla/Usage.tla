------------------------------- MODULE Usage --------------------------------
(***************************************************************************)
(* The daily character quota: UsageTracker (usage.py) and the two paths    *)
(* that check and charge it, synthesize() (synth.py) behind the HTTP and   *)
(* Wyoming front ends, and /clone/oneshot (routes/clones.py).              *)
(*                                                                         *)
(* Both check first and record once the audio is there.  synthesize() does *)
(* so without giving up the event loop; /clone/oneshot reads an upload     *)
(* between the check and the charge.  The quota checked is the one of the  *)
(* caller's snapshot: an HTTP request makes its own, the Wyoming server    *)
(* one at startup that lasts as long as the process.                       *)
(*                                                                         *)
(* usage_events is abstracted to the sum chars_today computes.  Midnight   *)
(* moves the sum's window past every event recorded so far.                *)
(***************************************************************************)
EXTENDS Naturals, FiniteSets

CONSTANTS
  Keys,
  Conns,        \* what the server works on at a time
  Resident,     \* the one of Conns that is the Wyoming server
  ResidentKey,  \* MIMIC_WYOMING_KEY
  None,
  Limits,       \* values of daily_char_quota, 0 meaning no quota
  MaxLimit,     \* none of them is larger
  Texts,        \* lengths of the texts to speak
  MaxChars,     \* none of them is longer
  MaxUnmetered  \* bound: what keys without a quota are charged in a day

ASSUME ConnsAssumption == IsFiniteSet(Conns) /\ Resident \in Conns
ASSUME KeysAssumption == ResidentKey \in Keys /\ None \notin Conns
ASSUME LimitsAssumption == MaxLimit \in Nat /\ Limits \subseteq 0..MaxLimit
ASSUME TextsAssumption == MaxChars \in Nat /\ Texts \subseteq 0..MaxChars

VARIABLES
  row,      \* each key's role and daily_char_quota
  used,     \* chars_today of each key
  charged,  \* history: the part of it that metered requests recorded
  pc, caller, chars   \* each request: where it is, its Caller, its text's length

rows == <<row>>
meter == <<used, charged>>
requests == <<pc, caller, chars>>
vars == <<rows, meter, requests>>

Row == [limit : Limits, admin : BOOLEAN]
Caller == [key : Keys, limit : Limits, admin : BOOLEAN]

Snapshot(k) == [key |-> k, limit |-> row[k].limit, admin |-> row[k].admin]

Init ==
  /\ row \in [Keys -> Row]
  /\ used = [k \in Keys |-> 0] /\ charged = [k \in Keys |-> 0]
  /\ pc = [c \in Conns |-> IF c = Resident THEN "authed" ELSE "idle"]
  /\ caller = [c \in Conns |-> IF c = Resident THEN Snapshot(ResidentKey) ELSE None]
  /\ chars = [c \in Conns |-> 0]

\* Mutant: handlers declared `def`, each on a worker thread of its own.
LoopFreeAlways == TRUE

\* No handler is inside the backend.
LoopFree == \A c \in Conns : pc[c] \notin {"speaking", "cloning"}

Authenticate(c) ==
  /\ pc[c] = "idle"
  /\ \E k \in Keys : caller' = [caller EXCEPT ![c] = Snapshot(k)]
  /\ pc' = [pc EXCEPT ![c] = "authed"]
  /\ UNCHANGED <<rows, meter, chars>>

\* check_quota asks nothing of admins and of keys with a quota of 0.
Metered(who) == ~who.admin /\ who.limit > 0

\* Mutant: the text about to be spoken is left out of the sum.
AllowedIfAnyLeft(who, n) == Metered(who) => used[who.key] < who.limit

Allowed(who, n) == Metered(who) => used[who.key] + n <= who.limit

\* The request ends.  The Wyoming server keeps its caller for the next one.
Done(c) ==
  /\ chars' = [chars EXCEPT ![c] = 0]
  /\ IF c = Resident
     THEN pc' = [pc EXCEPT ![c] = "authed"] /\ UNCHANGED caller
     ELSE pc' = [pc EXCEPT ![c] = "idle"] /\ caller' = [caller EXCEPT ![c] = None]

Begin(c, n, next) ==
  /\ LoopFree /\ pc[c] = "authed" /\ Allowed(caller[c], n)
  /\ pc' = [pc EXCEPT ![c] = next]
  /\ chars' = [chars EXCEPT ![c] = n]
  /\ UNCHANGED <<rows, meter, caller>>

\* synthesize(): the loop is kept from the check to the charge.
Speak(c) == \E n \in Texts : Begin(c, n, "speaking")

\* clone_oneshot checks, then waits for the upload.
BeginOneshot(c) == c # Resident /\ \E n \in Texts : Begin(c, n, "uploading")

Clone(c) ==
  /\ LoopFree /\ pc[c] = "uploading"
  /\ pc' = [pc EXCEPT ![c] = "cloning"]
  /\ UNCHANGED <<rows, meter, caller, chars>>

\* 429, a voice that is not there, an upload that breaks off, a backend that
\* raises: nothing is charged.
Fail(c) ==
  /\ \/ LoopFree /\ pc[c] \in {"authed", "uploading"}
     \/ pc[c] \in {"speaking", "cloning"}
  /\ Done(c) /\ UNCHANGED <<rows, meter>>

\* Mutant: a success is answered without being recorded.
ChargeNothing(c) == UNCHANGED used

Charge(c) == used' = [used EXCEPT ![caller[c].key] = @ + chars[c]]

\* Bound: what nobody meters has no end of its own.
ChargeLeft(c) == Metered(caller[c]) \/ used[caller[c].key] + chars[c] <= MaxUnmetered

Record(c) ==
  /\ pc[c] \in {"speaking", "cloning"} /\ ChargeLeft(c)
  /\ Charge(c)
  /\ charged' = [charged EXCEPT ![caller[c].key] =
                   @ + IF Metered(caller[c]) THEN chars[c] ELSE 0]
  /\ Done(c) /\ UNCHANGED rows

\* PATCH /admin/keys, itself a handler.
PatchKey(k) ==
  /\ LoopFree
  /\ \E r \in Row : row' = [row EXCEPT ![k] = r]
  /\ UNCHANGED <<meter, requests>>

NewDay ==
  /\ used' = [k \in Keys |-> 0] /\ charged' = [k \in Keys |-> 0]
  /\ UNCHANGED <<rows, requests>>

Next ==
  \/ NewDay
  \/ \E k \in Keys : PatchKey(k)
  \/ \E c \in Conns :
       Authenticate(c) \/ Speak(c) \/ BeginOneshot(c) \/ Clone(c) \/ Fail(c) \/ Record(c)

Spec == Init /\ [][Next]_vars
-----------------------------------------------------------------------------
(* Properties *)

TypeOK ==
  /\ row \in [Keys -> Row]
  /\ used \in [Keys -> Nat] /\ charged \in [Keys -> Nat]
  /\ pc \in [Conns -> {"idle", "authed", "uploading", "speaking", "cloning"}]
  /\ caller \in [Conns -> Caller \cup {None}]
  /\ chars \in [Conns -> Nat]

\* synthesize() never takes a caller past the quota it was authenticated
\* with, not even by the text it is speaking, however many others speak,
\* clone or are patched at the same time.
SpeaksWithinQuota ==
  \A c \in Conns :
    pc[c] = "speaking" /\ Metered(caller[c]) =>
      used[caller[c].key] + chars[c] <= caller[c].limit

\* Metered requests whose check has passed and whose charge is to come.
Pending(k) ==
  {c \in Conns : /\ pc[c] \in {"uploading", "speaking", "cloning"}
                 /\ caller[c].key = k /\ Metered(caller[c])}

\* One-shot clones checked side by side may pass the quota together, but only
\* by the texts of the other requests the server works on: in a day a key is
\* never charged more than this, whatever its quota is patched to meanwhile.
DailyOvershoot ==
  \A k \in Keys : charged[k] <= MaxLimit + MaxChars * (Cardinality(Conns) - 1)

-----------------------------------------------------------------------------
(* The inductive invariant *)

\* Among the requests still to be charged there is one whose check leaves
\* room for all the others.
RoomLeft ==
  \A k \in Keys :
    Pending(k) # {} =>
      \E c \in Pending(k) :
        charged[k] + chars[c] + MaxChars * Cardinality(Pending(k))
          <= MaxLimit + MaxChars * Cardinality(Conns)

CallersKnown ==
  \A c \in Conns :
    /\ pc[c] # "idle" => caller[c] \in Caller
    /\ chars[c] \in 0..MaxChars
    /\ c = Resident => pc[c] # "idle"

\* The loop has one holder, and what metered requests recorded is part of
\* what check_quota sums up.
OneHolder ==
  \A c1, c2 \in Conns :
    pc[c1] \in {"speaking", "cloning"} /\ pc[c2] \in {"speaking", "cloning"} => c1 = c2

ChargedIsUsed == \A k \in Keys : charged[k] <= used[k]

IInv == /\ TypeOK /\ CallersKnown /\ OneHolder /\ ChargedIsUsed
        /\ SpeaksWithinQuota /\ RoomLeft /\ DailyOvershoot
=============================================================================
