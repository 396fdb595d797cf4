----------------------------- MODULE WebSession -----------------------------
(***************************************************************************)
(* The web UI's session (web/src/api.js, App.jsx): the token in            *)
(* localStorage, whether the app or its token gate is shown, and the calls *)
(* in flight, each with the token that was stored when it was made.        *)
(* Answers come in any order.  The server accepts a set of tokens; it may  *)
(* stop accepting any of them, and forbids some calls to a token it        *)
(* accepts.                                                                *)
(*                                                                         *)
(* A user may enter a token, sign out and reload while answers to earlier  *)
(* calls are on their way.  A call is old when it, or the one it follows,  *)
(* was made before the last token was entered; astray is the history of    *)
(* what the answers to old calls have done.                                *)
(*                                                                         *)
(* A list of voices is known by the token it was fetched with.  What the   *)
(* cards keep for themselves (text, recordings, their status) is left out. *)
(***************************************************************************)
EXTENDS Naturals

CONSTANTS
  Tokens,    \* the tokens a user may enter
  None,
  Slots      \* bound: calls in flight

VARIABLES
  good,      \* the tokens the server accepts
  stored,    \* localStorage
  authed, error, shown,   \* state of App: signed in, an error is shown, whose voices
  net,       \* the calls in flight
  astray     \* history: what answers to old calls did since a token was entered

app == <<authed, error, shown>>
vars == <<good, stored, app, net, astray>>

\* An old call was refused, and the token stored since wiped; an old check was
\* accepted, and the app shown; an old list was shown.
Mishaps == {"refused", "accepted", "listed"}

Call == [kind : {"mount", "gate", "oldgate", "list", "act"}, token : Tokens \cup {None},
         valid : BOOLEAN,        \* the token was good when the call was made
         waits : 1..2,           \* requests not yet answered
         bad : BOOLEAN,          \* an answer was neither ok nor 401 or 403
         rejected : BOOLEAN,     \* Promise.all has rejected already
         old : BOOLEAN]          \* begun before the last token was entered

ASSUME NoneAssumption == None \notin Tokens \cup Call

TypeOK ==
  /\ good \subseteq Tokens
  /\ stored \in Tokens \cup {None} /\ shown \in Tokens \cup {None}
  /\ authed \in BOOLEAN /\ error \in BOOLEAN
  /\ net \in [Slots -> Call \cup {None}]
  /\ astray \subseteq Mishaps

Quiet == \A s \in Slots : net[s] = None

\* The gate that is shown waits for its answer.
GateBusy == \E s \in Slots : net[s] # None /\ net[s].kind = "gate"

\* listVoices makes two requests at a time, which it treats alike, all others
\* make one.
NewCall(kind, token) ==
  [kind |-> kind, token |-> token, valid |-> token \in good,
   waits |-> IF kind = "list" THEN 2 ELSE 1, bad |-> FALSE,
   rejected |-> FALSE, old |-> FALSE]

Begin(s, kind, token) == net[s] = None /\ net' = [net EXCEPT ![s] = NewCall(kind, token)]

\* The call in slot s has all its answers, and goes on as a refresh or not.
Ends(s) == net' = [net EXCEPT ![s] = None]
Refresh(s) == [NewCall("list", stored) EXCEPT !.old = net[s].old]
Refreshes(s) == net' = [net EXCEPT ![s] = Refresh(s)]

\* History: the call in slot s, if it is an old one, does this.
Strays(s, mishap) == astray' = IF net[s].old THEN astray \cup {mishap} ELSE astray

Init ==
  /\ good = Tokens
  /\ stored = None /\ authed = FALSE /\ error = FALSE /\ shown = None
  /\ net = [s \in Slots |-> None] /\ astray = {}

-----------------------------------------------------------------------------
(* The user, and the server's administrator *)

Revoke(t) ==
  /\ t \in good /\ good' = good \ {t}
  /\ UNCHANGED <<stored, app, net, astray>>

\* App mounts: nothing but localStorage is left, and a token in it is checked.
Reload(s) ==
  /\ authed' = FALSE /\ error' = FALSE /\ shown' = None
  /\ net' = [r \in Slots |->
               IF r = s /\ stored # None THEN NewCall("mount", stored) ELSE None]
  /\ astray' = {}
  /\ UNCHANGED <<good, stored>>

EnterToken(s, t) ==
  /\ ~authed /\ ~GateBusy
  /\ stored' = t
  /\ net[s] = None
  /\ net' = [r \in Slots |->
               IF r = s THEN NewCall("gate", t)
               ELSE IF net[r] # None THEN [net[r] EXCEPT !.old = TRUE]
               ELSE None]
  /\ astray' = {}
  /\ UNCHANGED <<good, app>>

SignOut ==
  /\ authed /\ authed' = FALSE
  /\ stored' = None
  /\ UNCHANGED <<good, error, shown, net, astray>>

\* The refresh button; or speaking, transcribing, saving, deleting.
Use(s, kind) ==
  /\ authed
  /\ Begin(s, kind, stored)
  /\ UNCHANGED <<good, stored, app, astray>>

-----------------------------------------------------------------------------
(* Answers *)

\* A request is refused if its token was good no longer, or for an action its
\* owner is not allowed.
Refused(call) == call.token \notin good \/ call.kind = "act"

Accepted(call) == call.valid

\* Mutant: the app does not go back to the gate.
AuthErrorOutside == error' = FALSE /\ UNCHANGED <<authed, shown>>

\* handleError(AuthError)
AuthError == authed' = FALSE /\ error' = FALSE /\ UNCHANGED shown

\* checkAuth: 401 or 403, another answer or none, ok.  A gate that is gone
\* shows no error, and is heard all the same when the token is accepted.
Checking(s) == net[s] # None /\ net[s].kind \in {"mount", "gate", "oldgate"}

CheckRefused(s) ==
  /\ Checking(s) /\ Refused(net[s])
  /\ stored' = None
  /\ authed' = (authed /\ net[s].kind # "mount")
  /\ Ends(s) /\ Strays(s, "refused")
  /\ UNCHANGED <<good, error, shown>>

CheckFailed(s) ==
  /\ Checking(s)
  /\ error' = (error \/ net[s].kind = "mount")
  /\ Ends(s)
  /\ UNCHANGED <<good, stored, authed, shown, astray>>

\* Mutant: a token entered at the gate shows the voices fetched before.
CheckAcceptedAtOnce(s) ==
  /\ Checking(s) /\ Accepted(net[s])
  /\ authed' = TRUE
  /\ Ends(s) /\ Strays(s, "accepted")
  /\ UNCHANGED <<good, stored, error, shown>>

\* The gate, if there is one, is gone with what it waits for.
CheckAccepted(s) ==
  /\ Checking(s) /\ Accepted(net[s])
  /\ authed' = TRUE
  /\ net' = [r \in Slots |->
               IF r = s THEN Refresh(s)
               ELSE IF net[r] # None /\ net[r].kind = "gate" THEN [net[r] EXCEPT !.kind = "oldgate"]
               ELSE net[r]]
  /\ Strays(s, "accepted")
  /\ UNCHANGED <<good, stored, error, shown>>

ActRefused(s) ==
  /\ net[s] # None /\ net[s].kind = "act" /\ Refused(net[s])
  /\ stored' = None /\ AuthError
  /\ Ends(s) /\ Strays(s, "refused")
  /\ UNCHANGED good

\* A card shows its own errors; a voice saved or deleted is followed by a refresh.
ActDone(s) ==
  /\ net[s] # None /\ net[s].kind = "act"
  /\ Ends(s) \/ (Accepted(net[s]) /\ Refreshes(s))
  /\ UNCHANGED <<good, stored, app, astray>>

\* One of the two requests of a list is answered, and the call with it if it
\* was the last.
Answered(s, bad, rejected) ==
  net' = [net EXCEPT ![s] =
            IF net[s].waits = 1 THEN None
            ELSE [@ EXCEPT !.waits = 1, !.bad = bad, !.rejected = rejected]]

Listing(s) == net[s] # None /\ net[s].kind = "list"

\* request() wipes the token whether or not anybody waits for its error still.
ListRefused(s) ==
  /\ Listing(s) /\ Refused(net[s])
  /\ stored' = None
  /\ IF net[s].rejected THEN UNCHANGED app ELSE AuthError
  /\ Answered(s, net[s].bad, TRUE) /\ Strays(s, "refused")
  /\ UNCHANGED good

\* A fetch that fails rejects at once.
ListLost(s) ==
  /\ Listing(s)
  /\ error' = (error \/ ~net[s].rejected)
  /\ Answered(s, net[s].bad, TRUE)
  /\ UNCHANGED <<good, stored, authed, shown, astray>>

\* setVoices: the list may be an old one, of another token than the one stored.
Show(call) ==
  /\ shown' = call.token /\ UNCHANGED error
  /\ astray' = IF call.old /\ call.token # stored THEN astray \cup {"listed"}
               ELSE astray \ {"listed"}

\* An answer that is not ok is looked at when both are there.
ListAnswered(s) ==
  /\ Listing(s)
  /\ \E bad \in {net[s].bad, TRUE} :
       /\ ~bad => Accepted(net[s])
       /\ Answered(s, bad, net[s].rejected)
       /\ IF net[s].rejected \/ net[s].waits # 1 THEN UNCHANGED <<error, shown, astray>>
          ELSE IF bad THEN error' = TRUE /\ UNCHANGED <<shown, astray>>
          ELSE Show(net[s])
  /\ UNCHANGED <<good, stored, authed>>

User(s) ==
  \/ Reload(s)
  \/ \E t \in Tokens : EnterToken(s, t)
  \/ \E kind \in {"list", "act"} : Use(s, kind)

Answer(s) ==
  \/ CheckRefused(s) \/ CheckFailed(s) \/ CheckAccepted(s)
  \/ ActRefused(s) \/ ActDone(s)
  \/ ListRefused(s) \/ ListLost(s) \/ ListAnswered(s)

Next ==
  \/ \E t \in Tokens : Revoke(t)
  \/ SignOut
  \/ \E s \in Slots : User(s) \/ Answer(s)

Spec == Init /\ [][Next]_vars
-----------------------------------------------------------------------------
(* Properties *)

\* No old call has wiped the token or opened the app.
OnCourse == astray \cap {"refused", "accepted"} = {}

\* api.js:50-52: when the token is wiped, the UI goes back to the gate; an app
\* that is shown, and shows no error, has the token its next call will carry.
\* Whatever the user does meanwhile, there is one way to lose it unheard: an
\* answer to a call begun before the last token was entered.
SignedInHasToken == authed /\ ~error /\ OnCourse => stored # None

\* App.jsx:57-65: once every call is answered, and no error is shown, the
\* voices the app shows are those of the token it uses, though the answers to
\* several sessions' calls come in any order; unless the last list to come
\* was of an earlier session.
ShownIsMine == authed /\ Quiet /\ ~error /\ astray = {} => shown = stored
=============================================================================
