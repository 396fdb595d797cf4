---------------------------- MODULE Usage_proofs ----------------------------
(***************************************************************************)
(* The quota for any number of keys and concurrent requests, any quotas,   *)
(* any texts.  The invariant that carries the bound on a day's charge is   *)
(* RoomLeft: it counts the requests still to be charged.                   *)
(***************************************************************************)
EXTENDS Usage, FiniteSetTheorems, TLAPS

-----------------------------------------------------------------------------
(* Counting *)

LEMMA Products ==
  ASSUME NEW m \in Nat, NEW a \in Nat, NEW b \in Nat
  PROVE  /\ m * a \in Nat
         /\ a <= b => m * a <= m * b
         /\ a < b => m * a + m <= m * b
<1>1. m * a \in Nat
  OBVIOUS
<1>2. ASSUME a <= b PROVE m * a <= m * b
  <2>1. PICK d \in Nat : b = a + d
    BY <1>2
  <2>2. m * b = m * a + m * d /\ m * d \in Nat
    BY <2>1
  <2> QED
    BY <2>2
<1>3. ASSUME a < b PROVE m * a + m <= m * b
  <2>1. PICK d \in Nat : b = a + 1 + d
    BY <1>3
  <2>2. m * b = m * a + m + m * d /\ m * d \in Nat
    BY <2>1
  <2> QED
    BY <2>2
<1> QED
  BY <1>1, <1>2, <1>3

\* Any set of requests is finite; a smaller one has fewer members.
LEMMA Counts ==
  ASSUME NEW S \in SUBSET Conns, NEW T \in SUBSET S
  PROVE  /\ IsFiniteSet(S) /\ Cardinality(S) \in Nat /\ Cardinality(T) \in Nat
         /\ Cardinality(T) <= Cardinality(S)
         /\ T # S => Cardinality(T) < Cardinality(S)
<1>1. IsFiniteSet(S)
  BY ConnsAssumption, FS_Subset
<1>2. IsFiniteSet(T) /\ Cardinality(T) <= Cardinality(S)
      /\ (Cardinality(S) = Cardinality(T) => S = T)
  BY <1>1, FS_Subset
<1>3. Cardinality(S) \in Nat /\ Cardinality(T) \in Nat
  BY <1>1, <1>2, FS_CardinalityType
<1> QED
  BY <1>1, <1>2, <1>3

\* A caller's quota is one of those an admin may set.
LEMMA CallerBounds ==
  ASSUME NEW who \in Caller
  PROVE  who.key \in Keys /\ who.limit \in Nat /\ who.limit <= MaxLimit /\ MaxLimit \in Nat
<1>1. \A l \in Limits : l \in Nat /\ l <= MaxLimit
  BY LimitsAssumption
<1> QED
  BY <1>1, LimitsAssumption DEF Caller

\* What the number of requests makes of the bound.
N == Cardinality(Conns)

LEMMA Some == N \in Nat /\ N >= 1 /\ MaxChars * N \in Nat /\ MaxChars * (N - 1) \in Nat
              /\ MaxChars * N = MaxChars * (N - 1) + MaxChars
<1>1. N \in Nat /\ N # 0
  BY ConnsAssumption, FS_CardinalityType, FS_EmptySet DEF N
<1>2. PICK n \in Nat : N = n + 1
  BY <1>1
<1>3. N - 1 = n
  BY <1>2
<1>4. MaxChars * (n + 1) = MaxChars * n + MaxChars /\ MaxChars * n \in Nat
  BY TextsAssumption
<1>5. MaxChars * N = MaxChars * n + MaxChars
  BY <1>2, <1>4
<1>6. MaxChars * (N - 1) = MaxChars * n
  BY <1>3
<1> QED
  BY <1>1, <1>4, <1>5, <1>6, TextsAssumption

-----------------------------------------------------------------------------
(* RoomLeft, one key at a time *)

Room(k) ==
  Pending(k) # {} =>
    \E c \in Pending(k) :
      charged[k] + chars[c] + MaxChars * Cardinality(Pending(k)) <= MaxLimit + MaxChars * N

LEMMA RoomIsRoomLeft == RoomLeft <=> \A k \in Keys : Room(k)
BY DEF RoomLeft, Room, N

\* A request that leaves without a charge only makes room.
LEMMA RoomStays ==
  ASSUME IInv, TypeOK', CallersKnown', NEW k \in Keys,
         charged'[k] <= charged[k], Pending(k)' \subseteq Pending(k),
         \A c \in Pending(k)' : chars'[c] = chars[c]
  PROVE  Room(k)'
<1> SUFFICES ASSUME Pending(k)' # {} PROVE (\E c \in Pending(k) :
      charged[k] + chars[c] + MaxChars * Cardinality(Pending(k)) <= MaxLimit + MaxChars * N)'
  BY DEF Room
<1> DEFINE P == Cardinality(Pending(k))
           Q == Cardinality(Pending(k)')
<1>1. Pending(k) \subseteq Conns /\ Pending(k)' \subseteq Conns
  BY DEF Pending
<1>2. P \in Nat /\ Q \in Nat /\ Q <= P /\ (Pending(k)' # Pending(k) => Q < P)
  BY <1>1, Counts
<1>3. MaxChars * P \in Nat /\ MaxChars * Q \in Nat /\ MaxChars * Q <= MaxChars * P
      /\ (Pending(k)' # Pending(k) => MaxChars * Q + MaxChars <= MaxChars * P)
  BY <1>2, Products, TextsAssumption
<1>4. MaxChars \in Nat /\ MaxLimit \in Nat /\ MaxChars * N \in Nat
  BY TextsAssumption, LimitsAssumption, Some
<1>5. charged[k] \in Nat /\ charged'[k] \in Nat
      /\ \A c \in Conns : chars[c] \in Nat /\ chars[c] <= MaxChars
  BY DEF IInv, TypeOK, CallersKnown
<1>6. PICK w \in Pending(k) : charged[k] + chars[w] + MaxChars * P <= MaxLimit + MaxChars * N
  BY RoomIsRoomLeft DEF IInv, Room
<1>7. CASE w \in Pending(k)'
  <2>1. charged'[k] + chars'[w] + MaxChars * Q <= MaxLimit + MaxChars * N
    BY <1>1, <1>3, <1>4, <1>5, <1>6, <1>7
  <2> QED
    BY <1>7, <2>1 DEF N
<1>8. CASE w \notin Pending(k)'
  <2>1. PICK d \in Pending(k)' : TRUE
    OBVIOUS
  <2>2. charged'[k] + chars'[d] + MaxChars * Q <= MaxLimit + MaxChars * N
    BY <1>1, <1>3, <1>4, <1>5, <1>6, <1>8, <2>1
  <2> QED
    BY <2>1, <2>2 DEF N
<1> QED
  BY <1>7, <1>8

\* A charge uses the room its request was counted for.
LEMMA RoomCharged ==
  ASSUME IInv, TypeOK', NEW k \in Keys, NEW c \in Pending(k),
         charged'[k] = charged[k] + chars[c], Pending(k)' = Pending(k) \ {c},
         \A d \in Pending(k)' : chars'[d] = chars[d]
  PROVE  /\ Room(k)'
         /\ charged'[k] <= MaxLimit + MaxChars * (N - 1)
<1> DEFINE P == Cardinality(Pending(k))
           Q == Cardinality(Pending(k)')
<1>1. Pending(k) \subseteq Conns
  BY DEF Pending
<1>2. P \in Nat /\ Q \in Nat /\ Q < P
  BY <1>1, Counts
<1>3. MaxChars * P \in Nat /\ MaxChars * Q \in Nat /\ MaxChars * Q + MaxChars <= MaxChars * P
  BY <1>2, Products, TextsAssumption
<1>4. MaxChars \in Nat /\ MaxLimit \in Nat /\ MaxChars * N \in Nat
      /\ MaxChars * (N - 1) \in Nat /\ MaxChars * N = MaxChars * (N - 1) + MaxChars
  BY TextsAssumption, LimitsAssumption, Some
<1>5. charged[k] \in Nat /\ \A d \in Conns : chars[d] \in Nat /\ chars[d] <= MaxChars
  BY DEF IInv, TypeOK, CallersKnown
<1>6. PICK w \in Pending(k) : charged[k] + chars[w] + MaxChars * P <= MaxLimit + MaxChars * N
  BY RoomIsRoomLeft DEF IInv, Room
<1>7. Room(k)'
  <2> SUFFICES ASSUME Pending(k)' # {} PROVE (\E d \in Pending(k) :
        charged[k] + chars[d] + MaxChars * Cardinality(Pending(k)) <= MaxLimit + MaxChars * N)'
    BY DEF Room
  <2>1. PICK d \in Pending(k)' : w # c => d = w
    BY <1>6
  <2>2. charged'[k] + chars'[d] + MaxChars * Q <= MaxLimit + MaxChars * N
    <3>1. d \in Conns /\ w \in Conns /\ c \in Conns /\ chars'[d] = chars[d]
      BY <1>1, <1>6, <2>1
    <3>2. CASE w = c
      BY <1>3, <1>4, <1>5, <1>6, <3>1, <3>2
    <3>3. CASE w # c
      BY <1>3, <1>4, <1>5, <1>6, <2>1, <3>1, <3>3
    <3> QED
      BY <3>2, <3>3
  <2> QED
    BY <2>1, <2>2 DEF N
<1>8. charged[k] + chars[c] <= MaxLimit + MaxChars * (N - 1)
  <2>1. c \in Conns /\ w \in Conns
    BY <1>1, <1>6
  <2>2. CASE w = c
    BY <1>3, <1>4, <1>5, <1>6, <2>1, <2>2
  <2>3. CASE w # c
    <3>1. {c} \subseteq Pending(k) /\ {c} # Pending(k)
      BY <1>6, <2>3
    <3>2. Cardinality({c}) < P /\ Cardinality({c}) \in Nat
      BY <1>1, <3>1, Counts
    <3>4. Cardinality({c}) = 1
      BY FS_Singleton
    <3>5. MaxChars * 1 + MaxChars <= MaxChars * P /\ MaxChars * 1 = MaxChars
      BY <1>2, <3>2, <3>4, Products, TextsAssumption
    <3> QED
      BY <1>3, <1>4, <1>5, <1>6, <2>1, <3>5
  <2> QED
    BY <2>2, <2>3
<1> QED
  BY <1>7, <1>8

\* A check that passes leaves room for every other request there can be.
LEMMA RoomChecked ==
  ASSUME IInv, TypeOK', CallersKnown', NEW k \in Keys, NEW c \in Conns, c \in Pending(k)',
         charged'[k] + chars'[c] <= MaxLimit
  PROVE  Room(k)'
<1> DEFINE Q == Cardinality(Pending(k)')
<1>1. Pending(k)' \subseteq Conns
  BY DEF Pending
<1>2. Q \in Nat /\ Q <= N
  BY <1>1, Counts DEF N
<1>3. MaxChars * Q <= MaxChars * N /\ MaxChars * Q \in Nat /\ MaxChars * N \in Nat
  BY <1>2, Some, Products, TextsAssumption
<1>4. charged'[k] \in Nat /\ chars'[c] \in Nat
  BY DEF TypeOK
<1>5. charged'[k] + chars'[c] + MaxChars * Q <= MaxLimit + MaxChars * N
  BY <1>3, <1>4, LimitsAssumption
<1> QED
  BY <1>5 DEF Room, N

-----------------------------------------------------------------------------
(* One action at a time *)

\* What RoomLeft and DailyOvershoot ask of a step that charges nobody.
LEMMA NobodyCharged ==
  ASSUME IInv, TypeOK', CallersKnown',
         \A k \in Keys : charged'[k] <= charged[k] /\ Pending(k)' \subseteq Pending(k),
         \A k \in Keys : \A c \in Pending(k)' : chars'[c] = chars[c]
  PROVE  RoomLeft' /\ DailyOvershoot'
<1>1. \A k \in Keys : Room(k)'
  BY RoomStays
<1>2. RoomLeft'
  BY <1>1 DEF RoomLeft, Room, N
<1>3. DailyOvershoot'
  <2>1. MaxLimit + MaxChars * (N - 1) \in Nat
    BY Some, LimitsAssumption
  <2> QED
    BY <2>1 DEF DailyOvershoot, IInv, TypeOK, N
<1> QED
  BY <1>2, <1>3

LEMMA InitInv == Init => IInv
<1> SUFFICES ASSUME Init PROVE IInv
  OBVIOUS
<1>1. TypeOK /\ CallersKnown
  BY KeysAssumption, ConnsAssumption, TextsAssumption
     DEF Init, TypeOK, CallersKnown, Row, Caller, Snapshot
<1>2. OneHolder /\ ChargedIsUsed /\ SpeaksWithinQuota
  BY DEF Init, OneHolder, ChargedIsUsed, SpeaksWithinQuota
<1>3. RoomLeft
  BY DEF Init, RoomLeft, Pending
<1>4. DailyOvershoot
  BY Some, LimitsAssumption DEF Init, DailyOvershoot, N
<1> QED
  BY <1>1, <1>2, <1>3, <1>4 DEF IInv

LEMMA StutterInv == IInv /\ UNCHANGED vars => IInv'
BY DEF IInv, vars, rows, meter, requests, TypeOK, CallersKnown, OneHolder, ChargedIsUsed,
       SpeaksWithinQuota, RoomLeft, DailyOvershoot, Pending, Metered

LEMMA AuthenticateInv == ASSUME IInv, NEW c \in Conns, Authenticate(c) PROVE IInv'
<1> USE DEF IInv, Authenticate, rows, meter
<1>1. TypeOK' /\ CallersKnown'
  BY DEF TypeOK, CallersKnown, Row, Caller, Snapshot
<1>2. OneHolder' /\ ChargedIsUsed'
  BY DEF OneHolder, ChargedIsUsed, TypeOK
<1>3. SpeaksWithinQuota'
  BY DEF SpeaksWithinQuota, TypeOK, Metered
<1>4. RoomLeft' /\ DailyOvershoot'
  <2>1. \A k \in Keys : charged'[k] <= charged[k] /\ Pending(k)' \subseteq Pending(k)
    BY DEF Pending, TypeOK, Metered
  <2> QED
    BY <1>1, <2>1, NobodyCharged
<1> QED
  BY <1>1, <1>2, <1>3, <1>4

LEMMA BeginInv ==
  ASSUME IInv, NEW c \in Conns, NEW n \in Texts, NEW next \in {"uploading", "speaking"},
         Begin(c, n, next)
  PROVE  IInv'
<1> USE DEF IInv, Begin, rows, meter
<1>1. TypeOK' /\ CallersKnown'
  BY TextsAssumption DEF TypeOK, CallersKnown
<1>2. OneHolder' /\ ChargedIsUsed'
  BY DEF OneHolder, ChargedIsUsed, TypeOK, LoopFree
<1>3. SpeaksWithinQuota'
  BY DEF SpeaksWithinQuota, TypeOK, LoopFree, Allowed, Metered
<1>4. RoomLeft'
  <2> SUFFICES ASSUME NEW k \in Keys PROVE Room(k)'
    BY DEF RoomLeft, Room, N
  <2>1. CASE c \in Pending(k)'
    <3>1. caller[c] \in Caller /\ caller[c].key = k /\ Metered(caller[c])
      BY <2>1 DEF Pending, Metered, CallersKnown, TypeOK
    <3>2. caller[c].limit \in Nat /\ caller[c].limit <= MaxLimit /\ MaxLimit \in Nat
      BY <3>1, CallerBounds
    <3>3. used[k] + n <= caller[c].limit
      BY <3>1 DEF Allowed
    <3>4. used[k] \in Nat /\ charged[k] \in Nat /\ charged[k] <= used[k] /\ n \in Nat
      BY TextsAssumption DEF ChargedIsUsed, TypeOK
    <3>5. charged'[k] = charged[k] /\ chars'[c] = n
      BY DEF TypeOK
    <3>6. charged'[k] + chars'[c] <= MaxLimit
      BY <3>2, <3>3, <3>4, <3>5
    <3> QED
      BY <1>1, <2>1, <3>6, RoomChecked
  <2>2. CASE c \notin Pending(k)'
    <3>1. Pending(k)' \subseteq Pending(k) /\ \A d \in Pending(k)' : chars'[d] = chars[d]
      BY <2>2 DEF Pending, TypeOK, Metered
    <3>2. charged'[k] <= charged[k]
      BY DEF TypeOK
    <3> QED
      BY <1>1, <3>1, <3>2, RoomStays
  <2> QED
    BY <2>1, <2>2
<1>5. DailyOvershoot'
  BY DEF DailyOvershoot
<1> QED
  BY <1>1, <1>2, <1>3, <1>4, <1>5

LEMMA CloneInv == ASSUME IInv, NEW c \in Conns, Clone(c) PROVE IInv'
<1> USE DEF IInv, Clone, rows, meter
<1>1. TypeOK' /\ CallersKnown'
  BY DEF TypeOK, CallersKnown
<1>2. OneHolder' /\ ChargedIsUsed'
  BY DEF OneHolder, ChargedIsUsed, TypeOK, LoopFree
<1>3. SpeaksWithinQuota'
  BY DEF SpeaksWithinQuota, TypeOK, Metered
<1>4. RoomLeft' /\ DailyOvershoot'
  <2>1. \A k \in Keys : charged'[k] <= charged[k] /\ Pending(k)' \subseteq Pending(k)
    BY DEF Pending, TypeOK, Metered
  <2> QED
    BY <1>1, <2>1, NobodyCharged
<1> QED
  BY <1>1, <1>2, <1>3, <1>4

\* What Done does to the requests.
LEMMA DoneEffect ==
  ASSUME IInv, NEW c \in Conns, Done(c), UNCHANGED row, used' \in [Keys -> Nat],
         charged' \in [Keys -> Nat]
  PROVE  /\ TypeOK' /\ CallersKnown' /\ OneHolder'
         /\ \A k \in Keys : Pending(k)' = Pending(k) \ {c}
         /\ \A k \in Keys : \A d \in Pending(k)' : chars'[d] = chars[d]
<1> USE DEF IInv, Done
<1>1. TypeOK' /\ CallersKnown'
  BY TextsAssumption DEF TypeOK, CallersKnown
<1>2. OneHolder'
  BY DEF OneHolder, TypeOK
<1>3. \A k \in Keys : Pending(k)' = Pending(k) \ {c}
  BY DEF Pending, TypeOK, Metered
<1>4. \A k \in Keys : \A d \in Pending(k)' : chars'[d] = chars[d]
  BY <1>3 DEF Pending, TypeOK
<1> QED
  BY <1>1, <1>2, <1>3, <1>4

LEMMA FailInv == ASSUME IInv, NEW c \in Conns, Fail(c) PROVE IInv'
<1>1. Done(c) /\ UNCHANGED <<row, used, charged>>
  BY DEF Fail, rows, meter
<1>2. used' \in [Keys -> Nat] /\ charged' \in [Keys -> Nat]
  BY <1>1 DEF IInv, TypeOK
<1>3. ChargedIsUsed'
  BY <1>1 DEF IInv, ChargedIsUsed
<1>4. SpeaksWithinQuota'
  BY <1>1 DEF IInv, Done, SpeaksWithinQuota, TypeOK, Metered
<1>5. \A k \in Keys : charged'[k] <= charged[k]
  BY <1>1 DEF IInv, TypeOK
<1>6. RoomLeft' /\ DailyOvershoot'
  BY <1>1, <1>2, <1>5, DoneEffect, NobodyCharged
<1> QED
  BY <1>1, <1>2, <1>3, <1>4, <1>6, DoneEffect DEF IInv

LEMMA RecordInv == ASSUME IInv, NEW c \in Conns, Record(c) PROVE IInv'
<1> DEFINE k == caller[c].key
           more == IF Metered(caller[c]) THEN chars[c] ELSE 0
<1>1. Done(c) /\ UNCHANGED row /\ pc[c] \in {"speaking", "cloning"}
      /\ used' = [used EXCEPT ![k] = @ + chars[c]]
      /\ charged' = [charged EXCEPT ![k] = @ + more]
  BY DEF Record, Charge, rows
<1>2. k \in Keys /\ chars[c] \in Nat /\ more \in Nat /\ more <= chars[c]
  BY <1>1 DEF IInv, TypeOK, CallersKnown, Caller
<1>3. used' \in [Keys -> Nat] /\ charged' \in [Keys -> Nat]
  BY <1>1, <1>2 DEF IInv, TypeOK
<1>4. ChargedIsUsed'
  BY <1>1, <1>2 DEF IInv, TypeOK, ChargedIsUsed
<1>5. SpeaksWithinQuota'
  \* Nobody else is speaking: the loop was c's.
  BY <1>1 DEF IInv, Done, SpeaksWithinQuota, OneHolder, TypeOK, Metered
<1>6. TypeOK' /\ CallersKnown' /\ OneHolder'
      /\ (\A j \in Keys : Pending(j)' = Pending(j) \ {c})
      /\ (\A j \in Keys : \A d \in Pending(j)' : chars'[d] = chars[d])
  BY <1>1, <1>3, DoneEffect
<1>7. ASSUME NEW j \in Keys PROVE Room(j)' /\ charged'[j] <= MaxLimit + MaxChars * (N - 1)
  <2>1. CASE c \in Pending(j)
    <3>1. j = k /\ charged'[j] = charged[j] + chars[c]
      BY <1>1, <1>2, <2>1 DEF Pending, IInv, TypeOK
    <3> QED
      BY <1>6, <2>1, <3>1, RoomCharged
  <2>2. CASE c \notin Pending(j)
    <3>1. charged'[j] = charged[j] /\ charged[j] \in Nat
      BY <1>1, <1>2, <2>2 DEF Pending, IInv, TypeOK
    <3>2. Room(j)'
      BY <1>6, <3>1, RoomStays
    <3> QED
      BY <3>1, <3>2 DEF IInv, DailyOvershoot, N
  <2> QED
    BY <2>1, <2>2
<1>8. RoomLeft'
  BY <1>7 DEF RoomLeft, Room, N
<1>9. DailyOvershoot'
  BY <1>7 DEF DailyOvershoot, N
<1> QED
  BY <1>4, <1>5, <1>6, <1>8, <1>9 DEF IInv

LEMMA PatchKeyInv == ASSUME IInv, NEW k \in Keys, PatchKey(k) PROVE IInv'
BY DEF PatchKey, IInv, meter, requests, TypeOK, CallersKnown, OneHolder, ChargedIsUsed,
       SpeaksWithinQuota, RoomLeft, DailyOvershoot, Pending, Metered

LEMMA NewDayInv == ASSUME IInv, NewDay PROVE IInv'
<1> USE DEF IInv, NewDay, rows, requests
<1>1. TypeOK' /\ CallersKnown' /\ OneHolder' /\ ChargedIsUsed'
  BY DEF TypeOK, CallersKnown, OneHolder, ChargedIsUsed
<1>2. SpeaksWithinQuota'
  <2> SUFFICES ASSUME NEW c \in Conns, pc[c] = "speaking", Metered(caller[c])
               PROVE  used'[caller[c].key] + chars[c] <= caller[c].limit
    BY DEF SpeaksWithinQuota, Metered
  <2>1. caller[c].key \in Keys /\ caller[c].limit \in Nat
    BY CallerBounds DEF CallersKnown
  <2>2. used[caller[c].key] \in Nat /\ chars[c] \in Nat /\ used'[caller[c].key] = 0
    BY <2>1 DEF TypeOK
  <2>3. used[caller[c].key] + chars[c] <= caller[c].limit
    BY DEF SpeaksWithinQuota
  <2>4. \A u, n, l \in Nat : u + n <= l => 0 + n <= l
    OBVIOUS
  <2> QED
    BY <2>1, <2>2, <2>3, <2>4
<1>3. RoomLeft' /\ DailyOvershoot'
  <2>1. \A k \in Keys : charged'[k] <= charged[k] /\ Pending(k)' \subseteq Pending(k)
    BY DEF Pending, TypeOK, Metered
  <2> QED
    BY <1>1, <2>1, NobodyCharged
<1> QED
  BY <1>1, <1>2, <1>3

-----------------------------------------------------------------------------
(* The theorems *)

LEMMA NextInv == IInv /\ [Next]_vars => IInv'
<1> SUFFICES ASSUME IInv, [Next]_vars PROVE IInv'
  OBVIOUS
<1>1. ASSUME NewDay PROVE IInv'
  BY <1>1, NewDayInv
<1>2. ASSUME NEW k \in Keys, PatchKey(k) PROVE IInv'
  BY <1>2, PatchKeyInv
<1>3. ASSUME NEW c \in Conns, Authenticate(c) PROVE IInv'
  BY <1>3, AuthenticateInv
<1>4. ASSUME NEW c \in Conns, Speak(c) PROVE IInv'
  BY <1>4, BeginInv DEF Speak
<1>5. ASSUME NEW c \in Conns, BeginOneshot(c) PROVE IInv'
  BY <1>5, BeginInv DEF BeginOneshot
<1>6. ASSUME NEW c \in Conns, Clone(c) PROVE IInv'
  BY <1>6, CloneInv
<1>7. ASSUME NEW c \in Conns, Fail(c) PROVE IInv'
  BY <1>7, FailInv
<1>8. ASSUME NEW c \in Conns, Record(c) PROVE IInv'
  BY <1>8, RecordInv
<1>9. CASE UNCHANGED vars
  BY <1>9, StutterInv
<1> QED
  BY <1>1, <1>2, <1>3, <1>4, <1>5, <1>6, <1>7, <1>8, <1>9 DEF Next

\* The inductive invariant holds of every behaviour of the meter.
THEOREM UsageInvariance == Spec => []IInv
<1>1. Init => IInv
  BY InitInv
<1>2. IInv /\ [Next]_vars => IInv'
  BY NextInv
<1> QED
  BY <1>1, <1>2, PTL DEF Spec

\* synthesize() (synth.py) never speaks past the quota its caller was
\* authenticated with, whatever else the server does.
THEOREM SpeakingIsExact == Spec => []SpeaksWithinQuota
<1>1. IInv => SpeaksWithinQuota
  BY DEF IInv
<1> QED
  BY <1>1, UsageInvariance, PTL

\* The await inside /clone/oneshot (clones.py) costs at most one text for
\* each other request in flight.
THEOREM OvershootBounded == Spec => []DailyOvershoot
<1>1. IInv => DailyOvershoot
  BY DEF IInv
<1> QED
  BY <1>1, UsageInvariance, PTL
=============================================================================
