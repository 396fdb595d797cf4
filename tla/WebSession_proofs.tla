------------------------- MODULE WebSession_proofs -------------------------
(***************************************************************************)
(* Theorems of WebSession, for every user.                                 *)
(*                                                                         *)
(* SignedInHasToken is not inductive: a refusal wipes the token, so what   *)
(* is in flight matters.  Of the calls that are not old, a check is alone  *)
(* on the net, has its token in localStorage, and the app is not shown     *)
(* while it lasts; a list whose error was handled already has left an      *)
(* error or the gate behind.  All that ends when an old call wipes the     *)
(* token or opens the app, and holds again when a token is entered.        *)
(*                                                                         *)
(* ShownIsMine rests on two facts more: all calls of the app that is       *)
(* shown, but for the old ones, carry the stored token, and while its list *)
(* is not the shown one, a list is under way or an old one was shown.      *)
(***************************************************************************)
EXTENDS WebSession, TLAPS

\* A call begun since the last token was entered.
Current(s) == net[s] # None /\ ~net[s].old

CheckAlone ==
  OnCourse => \A s \in Slots : Checking(s) /\ Current(s) =>
    /\ ~authed /\ stored # None
    /\ \A r \in Slots \ {s} : ~Current(r)

RejectedIsKnown ==
  OnCourse => \A s \in Slots : Current(s) /\ net[s].rejected => error \/ ~authed

SameToken ==
  OnCourse /\ authed /\ ~error => \A s \in Slots : Current(s) => net[s].token = stored

ListUnderWay(s) == Current(s) /\ net[s].kind = "list" /\ ~net[s].rejected

ShownOrComing ==
  OnCourse /\ authed /\ ~error =>
    shown = stored \/ "listed" \in astray \/ \E s \in Slots : ListUnderWay(s)

IInv ==
  /\ TypeOK
  /\ SignedInHasToken
  /\ CheckAlone
  /\ RejectedIsKnown
  /\ SameToken
  /\ ShownOrComing

Kinds == {"mount", "gate", "oldgate", "list", "act"}

\* A new call is a call, and neither answered nor rejected nor old.
LEMMA NewCallFresh ==
  ASSUME TypeOK, NEW kind \in Kinds, NEW token \in Tokens \cup {None}
  PROVE  /\ NewCall(kind, token) \in Call
         /\ NewCall(kind, token) # None
         /\ NewCall(kind, token).kind = kind
         /\ NewCall(kind, token).token = token
         /\ ~NewCall(kind, token).rejected
         /\ ~NewCall(kind, token).old
<1> DEFINE waits == IF kind = "list" THEN 2 ELSE 1
<1>1. waits \in 1..2 /\ (token \in good) \in BOOLEAN
  OBVIOUS
<1> HIDE DEF waits
<1>2. NewCall(kind, token) = [kind |-> kind, token |-> token, valid |-> token \in good,
                              waits |-> waits, bad |-> FALSE, rejected |-> FALSE,
                              old |-> FALSE]
  BY Zenon DEF NewCall, waits
<1>3. NewCall(kind, token) \in Call
  BY <1>1, <1>2 DEF Call, Kinds
<1>4. NewCall(kind, token) # None
  BY <1>3, NoneAssumption
<1>5. /\ NewCall(kind, token).kind = kind
      /\ NewCall(kind, token).token = token
      /\ ~NewCall(kind, token).rejected
      /\ ~NewCall(kind, token).old
  BY <1>2
<1>6. QED
  BY <1>3, <1>4, <1>5

\* A call that becomes old, or whose gate is gone, stays a call.
LEMMA Aged ==
  ASSUME NEW call \in Call, NEW old \in BOOLEAN, NEW later, later = [call EXCEPT !.old = old]
  PROVE  /\ later \in Call /\ later.old = old /\ later.kind = call.kind
         /\ later.token = call.token /\ later.rejected = call.rejected
BY DEF Call

LEMMA Renamed ==
  ASSUME NEW call \in Call, NEW kind \in Kinds, NEW later, later = [call EXCEPT !.kind = kind]
  PROVE  later \in Call /\ later.old = call.old
BY DEF Call, Kinds

\* The refresh that follows a call is as old as the call.
LEMMA RefreshFollows ==
  ASSUME TypeOK, NEW s \in Slots, net[s] # None
  PROVE  /\ Refresh(s) \in Call /\ Refresh(s) # None
         /\ Refresh(s).kind = "list" /\ Refresh(s).token = stored
         /\ ~Refresh(s).rejected /\ Refresh(s).old = net[s].old
<1> DEFINE new == NewCall("list", stored)
           old == net[s].old
<1>1. old \in BOOLEAN /\ stored \in Tokens \cup {None} /\ "list" \in Kinds
  BY DEF TypeOK, Call, Kinds
<1>2. new \in Call /\ new.kind = "list" /\ new.token = stored /\ ~new.rejected
  BY <1>1, NewCallFresh
<1>3. Refresh(s) = [new EXCEPT !.old = old]
  BY DEF Refresh
<1> HIDE DEF new, old
<1>4. Refresh(s) \in Call /\ Refresh(s).kind = "list" /\ Refresh(s).token = stored
      /\ ~Refresh(s).rejected /\ Refresh(s).old = old
  BY <1>1, <1>2, <1>3, Aged
<1> QED
  BY <1>4, NoneAssumption DEF old

\* An answer changes its own call only: it ends it, or it notes whether the
\* call has rejected.
LEMMA AnsweredOne ==
  ASSUME TypeOK, NEW s \in Slots, Listing(s),
         NEW bad \in BOOLEAN, NEW rejected \in BOOLEAN, Answered(s, bad, rejected)
  PROVE  /\ net' \in [Slots -> Call \cup {None}]
         /\ \A r \in Slots \ {s} : net'[r] = net[r]
         /\ net[s].waits = 1 => net'[s] = None
         /\ net[s].waits # 1 =>
              /\ net'[s] # None
              /\ net'[s].kind = "list" /\ net'[s].token = net[s].token
              /\ net'[s].rejected = rejected /\ net'[s].old = net[s].old
<1> DEFINE left == [net[s] EXCEPT !.waits = 1, !.bad = bad, !.rejected = rejected]
<1>1. net[s] \in Call
  BY DEF TypeOK, Listing
<1>2. left \in Call /\ left.kind = "list" /\ left.token = net[s].token /\ left.rejected = rejected
      /\ left.old = net[s].old
  <2>2. PICK c \in Call : c = net[s] /\ c.kind = "list"
    BY <1>1 DEF Listing
  <2>3. left = [[[c EXCEPT !.waits = 1] EXCEPT !.bad = bad] EXCEPT !.rejected = rejected]
    BY <2>2
  <2> HIDE DEF left
  <2>4. left = [kind |-> c.kind, token |-> c.token, valid |-> c.valid,
                waits |-> 1, bad |-> bad, rejected |-> rejected, old |-> c.old]
    BY <2>3 DEF Call
  <2> QED BY <2>2, <2>4 DEF Call
<1>3. left # None
  BY <1>2, NoneAssumption
<1>4. net' = [net EXCEPT ![s] = IF net[s].waits = 1 THEN None ELSE left]
  BY DEF Answered
<1>5. net[s].waits \in 1..2
  BY <1>1 DEF Call
<1>6. net'[s] = IF net[s].waits = 1 THEN None ELSE left
  BY <1>4 DEF TypeOK
<1>7. net' \in [Slots -> Call \cup {None}] /\ \A r \in Slots \ {s} : net'[r] = net[r]
  <2> HIDE DEF left
  <2> QED BY <1>2, <1>4 DEF TypeOK
<1>8. QED
  BY <1>2, <1>3, <1>5, <1>6, <1>7

\* A call that ends leaves the others alone.
LEMMA EndsOne ==
  ASSUME TypeOK, NEW s \in Slots, Ends(s)
  PROVE  /\ net' \in [Slots -> Call \cup {None}]
         /\ net'[s] = None
         /\ \A r \in Slots \ {s} : net'[r] = net[r]
BY DEF TypeOK, Ends

\* A call put in a slot leaves the others alone.
LEMMA PutOne ==
  ASSUME TypeOK, NEW s \in Slots, NEW kind \in Kinds,
         NEW token \in Tokens \cup {None}, net' = [net EXCEPT ![s] = NewCall(kind, token)]
  PROVE  /\ net' \in [Slots -> Call \cup {None}]
         /\ net'[s] # None /\ net'[s].kind = kind /\ net'[s].token = token /\ ~net'[s].rejected
         /\ ~net'[s].old
         /\ \A r \in Slots \ {s} : net'[r] = net[r]
BY NewCallFresh DEF TypeOK

LEMMA InitInv == ASSUME Init PROVE IInv
<1>1. TypeOK
  BY DEF Init, TypeOK, Call
<1>2. \A s \in Slots : net[s] = None
  BY DEF Init
<1>3. QED
  BY <1>1, <1>2 DEF Init, IInv, SignedInHasToken, CheckAlone, Checking, Current, RejectedIsKnown,
                    SameToken, ShownOrComing

\* Off course nothing is promised but the types.
LEMMA OffCourse ==
  ASSUME TypeOK', ~OnCourse' PROVE IInv'
BY DEF IInv, SignedInHasToken, CheckAlone, RejectedIsKnown, SameToken, ShownOrComing

\* What an old call has done is remembered.
LEMMA StraysOff ==
  ASSUME TypeOK, NEW s \in Slots, net[s] # None, NEW mishap \in Mishaps, Strays(s, mishap)
  PROVE  /\ astray' \subseteq Mishaps
         /\ net[s].old /\ mishap # "listed" => ~OnCourse'
         /\ ~net[s].old => astray' = astray
BY DEF TypeOK, Strays, OnCourse, Mishaps

LEMMA RevokeInv == ASSUME IInv, NEW t \in Tokens, Revoke(t) PROVE IInv'
BY DEF IInv, Revoke, app, TypeOK, SignedInHasToken, CheckAlone, Checking, Current, OnCourse,
       RejectedIsKnown, SameToken, ShownOrComing, ListUnderWay

LEMMA SignOutInv == ASSUME IInv, SignOut PROVE IInv'
BY DEF IInv, SignOut, TypeOK, SignedInHasToken, CheckAlone, Checking, Current, OnCourse,
       RejectedIsKnown, SameToken, ShownOrComing

LEMMA ReloadInv == ASSUME IInv, NEW s \in Slots, Reload(s) PROVE IInv'
<1>1. /\ authed' = FALSE /\ error' = FALSE /\ shown' = None /\ astray' = {}
      /\ good' = good /\ stored' = stored
  BY DEF Reload
<1>2. TypeOK /\ "mount" \in Kinds
  BY DEF IInv, Kinds
<1>3. \A r \in Slots : net'[r] # None =>
        r = s /\ stored # None /\ net'[r] \in Call /\ ~net'[r].rejected
  BY <1>2, NewCallFresh DEF Reload, TypeOK
<1>4. net' \in [Slots -> Call \cup {None}]
  BY <1>2, NewCallFresh DEF Reload, TypeOK
<1>5. TypeOK' /\ SignedInHasToken' /\ SameToken' /\ ShownOrComing'
  BY <1>1, <1>2, <1>4 DEF TypeOK, SignedInHasToken, SameToken, ShownOrComing
<1>6. CheckAlone' /\ RejectedIsKnown'
  BY <1>1, <1>3 DEF CheckAlone, Checking, Current, RejectedIsKnown
<1> QED
  BY <1>5, <1>6 DEF IInv

LEMMA EnterTokenInv == ASSUME IInv, NEW s \in Slots, NEW t \in Tokens, EnterToken(s, t) PROVE IInv'
<1>1. /\ ~authed /\ stored' = t /\ t # None /\ astray' = {}
      /\ good' = good /\ authed' = authed /\ error' = error /\ shown' = shown
  BY NoneAssumption DEF EnterToken, app
<1>2. TypeOK /\ "gate" \in Kinds
  BY DEF IInv, Kinds
<1>3. /\ net'[s] \in Call /\ net'[s] # None /\ ~net'[s].rejected
  BY <1>2, NewCallFresh DEF EnterToken
<1>4. ASSUME NEW r \in Slots \ {s} PROVE net'[r] \in Call \cup {None} /\ ~Current(r)'
  <2>1. net'[r] = IF net[r] # None THEN [net[r] EXCEPT !.old = TRUE] ELSE None
    BY DEF EnterToken
  <2>2. CASE net[r] = None
    BY <2>1, <2>2 DEF Current
  <2>3. CASE net[r] # None
    <3> DEFINE call == net[r]
    <3>1. call \in Call
      BY <1>2, <2>3 DEF TypeOK
    <3>2. net'[r] = [call EXCEPT !.old = TRUE]
      BY <2>1, <2>3
    <3> HIDE DEF call
    <3>3. net'[r] \in Call /\ net'[r].old = TRUE
      BY <3>1, <3>2, Aged
    <3> QED
      BY <3>3 DEF Current
  <2> QED
    BY <2>2, <2>3
<1>5. net' \in [Slots -> Call \cup {None}]
  <2>1. net' = [r \in Slots |-> net'[r]]
    BY DEF EnterToken
  <2>2. \A r \in Slots : net'[r] \in Call \cup {None}
    BY <1>3, <1>4
  <2> QED
    BY <2>1, <2>2
<1>6. TypeOK' /\ SignedInHasToken' /\ SameToken' /\ ShownOrComing' /\ RejectedIsKnown'
  BY <1>1, <1>2, <1>5 DEF TypeOK, SignedInHasToken, SameToken, ShownOrComing, RejectedIsKnown
<1>7. CheckAlone'
  BY <1>1, <1>4 DEF CheckAlone
<1> QED
  BY <1>6, <1>7 DEF IInv

LEMMA UseInv == ASSUME IInv, NEW s \in Slots, NEW kind \in {"list", "act"}, Use(s, kind) PROVE IInv'
<1>1. authed /\ net[s] = None /\ UNCHANGED <<good, stored, authed, error, shown, astray>>
  BY DEF Use, Begin, app
<1>2. TypeOK /\ kind \in Kinds
  BY DEF IInv, Kinds
<1>3. /\ net' \in [Slots -> Call \cup {None}]
      /\ net'[s] # None /\ net'[s].kind = kind /\ net'[s].token = stored /\ ~net'[s].rejected
      /\ \A r \in Slots \ {s} : net'[r] = net[r]
  BY <1>2, PutOne DEF Use, Begin, TypeOK
<1>4. TypeOK' /\ SignedInHasToken'
  BY <1>1, <1>3 DEF IInv, TypeOK, SignedInHasToken, OnCourse
<1>5. CheckAlone' /\ RejectedIsKnown' /\ SameToken'
  BY <1>1, <1>3 DEF IInv, CheckAlone, Checking, Current, OnCourse, RejectedIsKnown, SameToken
<1>6. ShownOrComing'
  BY <1>1, <1>3 DEF IInv, ShownOrComing, ListUnderWay, Current, OnCourse
<1> QED
  BY <1>4, <1>5, <1>6 DEF IInv

LEMMA CheckRefusedInv == ASSUME IInv, NEW s \in Slots, CheckRefused(s) PROVE IInv'
<1>1. /\ TypeOK /\ net[s] # None /\ Checking(s) /\ "refused" \in Mishaps
      /\ Ends(s) /\ Strays(s, "refused") /\ stored' = None
      /\ (authed' => authed) /\ authed' \in BOOLEAN /\ UNCHANGED <<good, error, shown>>
  BY DEF IInv, TypeOK, CheckRefused, Checking, Mishaps
<1>2. TypeOK'
  BY <1>1, EndsOne, StraysOff DEF TypeOK
<1>3. CASE net[s].old \/ ~OnCourse
  <2>1. ~OnCourse'
    BY <1>1, <1>3, StraysOff DEF OnCourse
  <2> QED
    BY <1>2, <2>1, OffCourse
<1>4. CASE ~net[s].old /\ OnCourse
  <2>1. ~authed /\ \A r \in Slots \ {s} : ~Current(r)
    BY <1>1, <1>4 DEF IInv, CheckAlone, Current
  <2>2. ~authed' /\ \A r \in Slots : ~Current(r)'
    BY <1>1, <2>1, EndsOne DEF Current
  <2> QED
    BY <1>2, <2>2 DEF IInv, SignedInHasToken, CheckAlone, RejectedIsKnown, SameToken, ShownOrComing
<1> QED
  BY <1>3, <1>4

LEMMA CheckFailedInv == ASSUME IInv, NEW s \in Slots, CheckFailed(s) PROVE IInv'
<1>1. /\ TypeOK /\ (error => error') /\ error' \in BOOLEAN
      /\ UNCHANGED <<good, stored, authed, shown, astray>>
      /\ net' \in [Slots -> Call \cup {None}] /\ net'[s] = None
      /\ \A r \in Slots \ {s} : net'[r] = net[r]
  BY EndsOne DEF IInv, TypeOK, CheckFailed
<1>2. TypeOK' /\ SignedInHasToken'
  BY <1>1 DEF IInv, TypeOK, SignedInHasToken, OnCourse
<1>3. CheckAlone' /\ RejectedIsKnown' /\ SameToken'
  BY <1>1 DEF IInv, CheckAlone, Checking, Current, OnCourse, RejectedIsKnown, SameToken
<1>4. net[s].kind # "list"
  BY DEF CheckFailed, Checking
<1>5. ShownOrComing'
  BY <1>1, <1>4 DEF IInv, ShownOrComing, ListUnderWay, Current, OnCourse
<1> QED
  BY <1>2, <1>3, <1>5 DEF IInv

LEMMA CheckAcceptedInv == ASSUME IInv, NEW s \in Slots, CheckAccepted(s) PROVE IInv'
<1>1. /\ TypeOK /\ net[s] # None /\ Checking(s) /\ "accepted" \in Mishaps /\ "oldgate" \in Kinds
      /\ Strays(s, "accepted") /\ authed' = TRUE /\ UNCHANGED <<good, stored, error, shown>>
  BY DEF IInv, CheckAccepted, Checking, Mishaps, Kinds
<1>2. /\ net'[s] \in Call /\ net'[s] # None /\ net'[s].kind = "list"
      /\ net'[s].token = stored /\ ~net'[s].rejected /\ net'[s].old = net[s].old
  <2>1. net'[s] = Refresh(s)
    BY DEF CheckAccepted
  <2> QED
    BY <1>1, <2>1, RefreshFollows
<1>3. ASSUME NEW r \in Slots \ {s}
      PROVE  net'[r] \in Call \cup {None} /\ (Current(r)' => Current(r))
  <2> DEFINE call == net[r]
  <2>1. net'[r] = call \/ (call # None /\ net'[r] = [call EXCEPT !.kind = "oldgate"])
    BY DEF CheckAccepted
  <2>2. call \in Call \cup {None}
    BY <1>1 DEF TypeOK
  <2>3. Current(r) <=> call # None /\ ~call.old
    BY DEF Current
  <2> HIDE DEF call
  <2>4. CASE net'[r] = call
    BY <2>2, <2>3, <2>4 DEF Current
  <2>5. CASE call # None /\ net'[r] = [call EXCEPT !.kind = "oldgate"]
    <3>1. net'[r] \in Call /\ net'[r].old = call.old
      BY <1>1, <2>2, <2>5, Renamed
    <3> QED
      BY <2>3, <2>5, <3>1 DEF Current
  <2> QED
    BY <2>1, <2>4, <2>5
<1>4. TypeOK'
  <2>1. net' = [r \in Slots |-> net'[r]]
    BY DEF CheckAccepted
  <2>2. \A r \in Slots : net'[r] \in Call \cup {None}
    BY <1>2, <1>3
  <2>3. net' \in [Slots -> Call \cup {None}]
    BY <2>1, <2>2
  <2> QED
    BY <1>1, <2>3, StraysOff DEF TypeOK
<1>5. CASE net[s].old \/ ~OnCourse
  <2>1. ~OnCourse'
    BY <1>1, <1>5, StraysOff DEF OnCourse
  <2> QED
    BY <1>4, <2>1, OffCourse
<1>6. CASE ~net[s].old /\ OnCourse
  <2>1. stored # None /\ \A r \in Slots \ {s} : ~Current(r)
    BY <1>1, <1>6 DEF IInv, CheckAlone, Current
  <2>2. \A r \in Slots \ {s} : ~Current(r)'
    BY <1>3, <2>1
  <2>3. ListUnderWay(s)'
    BY <1>2, <1>6 DEF ListUnderWay, Current
  <2> QED
    BY <1>1, <1>2, <1>4, <2>1, <2>2, <2>3
       DEF IInv, SignedInHasToken, CheckAlone, Checking, RejectedIsKnown, SameToken, ShownOrComing
<1> QED
  BY <1>5, <1>6

LEMMA ActRefusedInv == ASSUME IInv, NEW s \in Slots, ActRefused(s) PROVE IInv'
<1>1. /\ TypeOK /\ net[s] # None /\ "refused" \in Mishaps /\ Strays(s, "refused")
      /\ authed' = FALSE /\ stored' = None /\ good' = good /\ shown' = shown /\ error' = FALSE
  BY DEF IInv, ActRefused, AuthError, Mishaps
<1>2. /\ net' \in [Slots -> Call \cup {None}]
      /\ net'[s] = None
      /\ \A r \in Slots \ {s} : net'[r] = net[r]
  BY <1>1, EndsOne DEF ActRefused
<1>3. TypeOK'
  BY <1>1, <1>2, StraysOff DEF TypeOK
<1>4. CASE net[s].old \/ ~OnCourse
  <2>1. ~OnCourse'
    BY <1>1, <1>4, StraysOff DEF OnCourse
  <2> QED
    BY <1>3, <2>1, OffCourse
<1>5. CASE ~net[s].old /\ OnCourse
  <2>1. \A r \in Slots : ~(Checking(r) /\ Current(r))
    BY <1>5 DEF IInv, ActRefused, CheckAlone, Checking, Current
  <2>2. CheckAlone'
    BY <1>2, <2>1 DEF CheckAlone, Checking, Current
  <2> QED
    BY <1>1, <1>3, <2>2
       DEF IInv, SignedInHasToken, RejectedIsKnown, SameToken, ShownOrComing
<1> QED
  BY <1>4, <1>5

LEMMA ActDoneInv == ASSUME IInv, NEW s \in Slots, ActDone(s) PROVE IInv'
<1>1. /\ TypeOK /\ net[s] # None /\ net[s].kind = "act"
      /\ UNCHANGED <<good, stored, authed, error, shown, astray>>
  BY DEF IInv, ActDone, app
<1>2. /\ net' \in [Slots -> Call \cup {None}]
      /\ net'[s] # None =>
           /\ net'[s].kind = "list" /\ net'[s].token = stored
           /\ ~net'[s].rejected /\ net'[s].old = net[s].old
      /\ \A r \in Slots \ {s} : net'[r] = net[r]
  <2>1. CASE Ends(s)
    BY <1>1, <2>1, EndsOne
  <2>2. CASE Refreshes(s)
    <3> DEFINE new == Refresh(s)
    <3>1. new \in Call /\ new.kind = "list" /\ new.token = stored /\ ~new.rejected
          /\ new.old = net[s].old
      BY <1>1, RefreshFollows
    <3>2. net' = [net EXCEPT ![s] = new]
      BY <2>2 DEF Refreshes
    <3> HIDE DEF new
    <3> QED
      BY <1>1, <3>1, <3>2 DEF TypeOK
  <2> QED
    BY <2>1, <2>2 DEF ActDone
<1>3. TypeOK' /\ SignedInHasToken'
  BY <1>1, <1>2 DEF IInv, TypeOK, SignedInHasToken, OnCourse
<1>4. CheckAlone' /\ RejectedIsKnown' /\ SameToken'
  BY <1>1, <1>2 DEF IInv, CheckAlone, Checking, Current, OnCourse, RejectedIsKnown, SameToken
<1>5. ShownOrComing'
  BY <1>1, <1>2 DEF IInv, ShownOrComing, ListUnderWay, Current, OnCourse
<1> QED
  BY <1>3, <1>4, <1>5 DEF IInv

LEMMA ListRefusedInv ==
  ASSUME IInv, NEW s \in Slots, ListRefused(s) PROVE IInv'
<1> DEFINE bad == net[s].bad
       rejected == TRUE
<1>1. /\ TypeOK /\ bad \in BOOLEAN /\ rejected \in BOOLEAN
      /\ Listing(s) /\ Answered(s, bad, rejected)
  BY DEF IInv, ListRefused, Listing, TypeOK, Call
<1> HIDE DEF bad, rejected
<1>2. /\ net' \in [Slots -> Call \cup {None}]
      /\ \A r \in Slots \ {s} : net'[r] = net[r]
      /\ net'[s] # None => net'[s].kind = "list" /\ net'[s].old = net[s].old
  BY <1>1, AnsweredOne
<1>3. /\ net[s] # None /\ "refused" \in Mishaps /\ Strays(s, "refused")
      /\ stored' = None /\ good' = good /\ shown' = shown
      /\ authed' \in BOOLEAN /\ error' \in BOOLEAN
      /\ net[s].rejected \/ ~authed'
      /\ net[s].rejected => error' = error /\ authed' = authed
  BY DEF IInv, ListRefused, Listing, AuthError, app, TypeOK, Mishaps
<1>4. TypeOK'
  BY <1>1, <1>2, <1>3, StraysOff DEF TypeOK
<1>5. CASE net[s].old \/ ~OnCourse
  <2>1. ~OnCourse'
    BY <1>1, <1>3, <1>5, StraysOff DEF OnCourse
  <2> QED
    BY <1>4, <2>1, OffCourse
<1>6. CASE ~net[s].old /\ OnCourse
  <2>1. error' \/ ~authed'
    BY <1>3, <1>6 DEF IInv, RejectedIsKnown, Current
  <2>2. \A r \in Slots : ~(Checking(r) /\ Current(r))
    BY <1>1, <1>6 DEF IInv, Listing, CheckAlone, Checking, Current
  <2>3. CheckAlone'
    BY <1>2, <2>2 DEF CheckAlone, Checking, Current
  <2> QED
    BY <1>4, <2>1, <2>3 DEF IInv, SignedInHasToken, RejectedIsKnown, SameToken, ShownOrComing
<1> QED
  BY <1>5, <1>6

LEMMA ListLostInv ==
  ASSUME IInv, NEW s \in Slots, ListLost(s) PROVE IInv'
<1> DEFINE bad == net[s].bad
       rejected == TRUE
<1>1. /\ TypeOK /\ bad \in BOOLEAN /\ rejected \in BOOLEAN
      /\ Listing(s) /\ Answered(s, bad, rejected)
  BY DEF IInv, ListLost, Listing, TypeOK, Call
<1> HIDE DEF bad, rejected
<1>2. /\ net' \in [Slots -> Call \cup {None}]
      /\ \A r \in Slots \ {s} : net'[r] = net[r]
      /\ net'[s] # None => net'[s].kind = "list" /\ net'[s].old = net[s].old
                           /\ net'[s].token = net[s].token
  BY <1>1, AnsweredOne
<1>3. /\ UNCHANGED <<good, stored, authed, shown, astray>> /\ error' \in BOOLEAN
      /\ error => error'
      /\ net[s].rejected \/ error'
      /\ net[s] # None /\ net[s].kind = "list"
  BY DEF IInv, ListLost, Listing, TypeOK
<1>4. TypeOK' /\ SignedInHasToken'
  BY <1>1, <1>2, <1>3 DEF IInv, TypeOK, SignedInHasToken, OnCourse
<1>5. CheckAlone' /\ SameToken'
  BY <1>2, <1>3 DEF IInv, CheckAlone, Checking, Current, OnCourse, SameToken
<1>6. RejectedIsKnown'
  BY <1>2, <1>3 DEF IInv, RejectedIsKnown, Current, OnCourse
<1>7. ShownOrComing'
  BY <1>2, <1>3 DEF IInv, ShownOrComing, ListUnderWay, Current, OnCourse
<1> QED
  BY <1>4, <1>5, <1>6, <1>7 DEF IInv

LEMMA ListAnsweredInv ==
  ASSUME IInv, NEW s \in Slots, ListAnswered(s) PROVE IInv'
<1>1. /\ TypeOK /\ net[s] \in Call /\ net[s].bad \in BOOLEAN /\ net[s].rejected \in BOOLEAN
      /\ net[s] # None /\ net[s].kind = "list" /\ Listing(s)
  BY DEF IInv, ListAnswered, Listing, TypeOK, Call
<1>2. PICK bad \in {net[s].bad, TRUE} :
        /\ Answered(s, bad, net[s].rejected)
        /\ IF net[s].rejected \/ net[s].waits # 1 THEN UNCHANGED <<error, shown, astray>>
           ELSE IF bad THEN error' = TRUE /\ UNCHANGED <<shown, astray>>
           ELSE Show(net[s])
  BY DEF ListAnswered
<1>3. /\ net' \in [Slots -> Call \cup {None}]
      /\ \A r \in Slots \ {s} : net'[r] = net[r]
      /\ net[s].waits = 1 => net'[s] = None
      /\ net[s].waits # 1 =>
           /\ net'[s] # None
           /\ net'[s].kind = "list" /\ net'[s].token = net[s].token
           /\ net'[s].rejected = net[s].rejected /\ net'[s].old = net[s].old
  BY <1>1, <1>2, AnsweredOne
<1>4. /\ UNCHANGED <<good, stored, authed>> /\ (error => error')
      /\ error' \in BOOLEAN /\ shown' \in Tokens \cup {None}
      /\ astray' \subseteq Mishaps /\ (OnCourse' <=> OnCourse)
  <2>1. UNCHANGED <<good, stored, authed>>
    BY DEF ListAnswered
  <2>2. Show(net[s]) => /\ error' = error /\ shown' \in Tokens \cup {None}
                        /\ astray' \subseteq Mishaps /\ (OnCourse' <=> OnCourse)
    BY <1>1 DEF Show, TypeOK, Call, Mishaps, OnCourse
  <2>3. UNCHANGED <<shown, astray>> => /\ shown' \in Tokens \cup {None}
                        /\ astray' \subseteq Mishaps /\ (OnCourse' <=> OnCourse)
    BY <1>1 DEF TypeOK, OnCourse
  <2> QED
    BY <1>1, <1>2, <2>1, <2>2, <2>3 DEF TypeOK
<1>5. TypeOK' /\ SignedInHasToken'
  BY <1>1, <1>3, <1>4 DEF IInv, TypeOK, SignedInHasToken
<1>6. CheckAlone' /\ RejectedIsKnown' /\ SameToken'
  BY <1>1, <1>3, <1>4 DEF IInv, CheckAlone, Checking, Current, RejectedIsKnown, SameToken
<1>7. ShownOrComing'
  <2> SUFFICES ASSUME OnCourse', authed', ~error'
               PROVE  shown' = stored' \/ "listed" \in astray' \/ \E r \in Slots : ListUnderWay(r)'
    BY DEF ShownOrComing
  <2>1. /\ OnCourse /\ authed /\ ~error
        /\ shown = stored \/ "listed" \in astray \/ \E r \in Slots : ListUnderWay(r)
    BY <1>4 DEF IInv, ShownOrComing
  <2>2. CASE net[s].rejected
    BY <1>1, <1>2, <1>3, <1>4, <2>1, <2>2 DEF ListUnderWay, Current
  <2>3. CASE ~net[s].rejected /\ net[s].waits # 1
    BY <1>1, <1>2, <1>3, <1>4, <2>1, <2>3 DEF ListUnderWay, Current
  <2>4. CASE ~net[s].rejected /\ net[s].waits = 1
    <3>1. Show(net[s])
      BY <1>2, <2>4
    <3>2. ~net[s].old => net[s].token = stored
      BY <1>1, <2>1 DEF IInv, SameToken, Current
    <3> QED
      BY <1>4, <3>1, <3>2 DEF Show
  <2> QED
    BY <2>2, <2>3, <2>4
<1> QED
  BY <1>5, <1>6, <1>7 DEF IInv

LEMMA StutterInv == ASSUME IInv, UNCHANGED vars PROVE IInv'
BY DEF IInv, vars, app, TypeOK, SignedInHasToken, CheckAlone, Checking, Current, OnCourse,
       RejectedIsKnown, SameToken, ShownOrComing, ListUnderWay

LEMMA StepInv == ASSUME IInv, [Next]_vars PROVE IInv'
<1>1. ASSUME NEW s \in Slots, User(s) PROVE IInv'
  BY <1>1, ReloadInv, EnterTokenInv, UseInv DEF User
<1>2. ASSUME NEW s \in Slots, Answer(s) PROVE IInv'
  BY <1>2, CheckRefusedInv, CheckFailedInv, CheckAcceptedInv, ActRefusedInv, ActDoneInv,
     ListRefusedInv, ListLostInv, ListAnsweredInv DEF Answer
<1> QED
  BY <1>1, <1>2, RevokeInv, SignOutInv, StutterInv DEF Next

\* What the proofs of the properties rest on.
THEOREM Invariance == Spec => []IInv
<1>1. Init => IInv
  BY InitInv
<1>2. IInv /\ [Next]_vars => IInv'
  BY StepInv
<1> QED
  BY <1>1, <1>2, PTL DEF Spec

\* For any tokens, any number of calls in flight and every user: an app that is
\* shown has its token, or shows an error, unless an answer to a call of an
\* earlier token took it.
THEOREM SignedIn == Spec => []SignedInHasToken
<1>1. IInv => SignedInHasToken
  BY DEF IInv
<1> QED
  BY <1>1, Invariance, PTL

\* Nor does it show the voices of another token once all is answered, unless
\* the last list to come was one of an earlier session.
THEOREM ShowsMine == Spec => []ShownIsMine
<1>1. IInv => ShownIsMine
  <2> SUFFICES ASSUME IInv, authed, Quiet, ~error, astray = {} PROVE shown = stored
    BY DEF ShownIsMine
  <2>1. OnCourse /\ "listed" \notin astray
    BY DEF OnCourse
  <2>2. \A s \in Slots : ~ListUnderWay(s)
    BY DEF Quiet, ListUnderWay, Current
  <2> QED
    BY <2>1, <2>2 DEF IInv, ShownOrComing
<1> QED
  BY <1>1, Invariance, PTL
=============================================================================
