------------------------------ MODULE Browser ------------------------------
(***************************************************************************)
(* A browser in front of the service: the auth cookies, the CSRF check and *)
(* what becomes of them when calls overlap, answers get lost or arrive in  *)
(* another order than they were sent (internal/auth: handler, cookies,     *)
(* csrf).                                                                  *)
(*                                                                         *)
(* The tables and their transactions are TokenFamily, which Sessions       *)
(* implements.  The tabs of the browser share one cookie jar and hold the  *)
(* access token and the CSRF value of the last answer they got themselves. *)
(* Each answer has a refresh token and a CSRF value of its own, so that    *)
(* both, and the access token, are named by the refresh token.  A tab that *)
(* is reloaded forgets its values, and cannot read them from the cookies:  *)
(* their path is /v1/auth.                                                 *)
(***************************************************************************)
EXTENDS TokenFamily, FiniteSets

CONSTANTS Tab,
          Call        \* calls under way at once

ASSUME NoneAssumption == None \notin Token

VARIABLES
  (* The service, beside `issued` and `usable` *)
  family,     \* token -> its family
  (* The browser *)
  jar,        \* the cookies refresh_token and csrf_token
  mem,        \* tab -> its access token and CSRF value
  (* Calls under way *)
  call,       \* slot -> what was sent, and what the answer brings
  (* History *)
  ended,      \* families ended by a logout
  disturbed   \* families one of whose calls was repeated, overlapped with
              \* another, or lost its answer

browserVars == <<jar, mem>>
vars == <<issued, usable, family, jar, mem, call, ended, disturbed>>

\* A refresh sends the cookies and its tab's CSRF value; a logout sends its
\* tab's access token as `header`.  When its tab was reloaded it is nobody's.
CallType ==
  [state  : {"free", "login", "refresh", "logout",    \* sent
             "accepted",                              \* a logout, by Authn
             "tokens", "cleared", "refused"},         \* answered
   tab    : Tab \cup {None},
   cookie : Token \cup {None},
   csrf   : Token \cup {None},
   header : Token \cup {None},
   token  : Token \cup {None}]

Free == [state |-> "free", tab |-> None, cookie |-> None, csrf |-> None,
         header |-> None, token |-> None]

\* There are both cookies, of one answer, or neither.
TypeOK ==
  /\ FTypeOK
  /\ family \in [Token -> Token \cup {None}]
  /\ jar \in {[refresh_token |-> t, csrf_token |-> t] : t \in Token \cup {None}}
  /\ mem \in [Tab -> Token \cup {None}]
  /\ call \in [Call -> CallType]
  /\ ended \subseteq Token
  /\ disturbed \subseteq Token

NoCookies == [refresh_token |-> None, csrf_token |-> None]

Init ==
  /\ FInit
  /\ family = [t \in Token |-> None]
  /\ jar = NoCookies
  /\ mem = [b \in Tab |-> None]
  /\ call = [c \in Call |-> Free]
  /\ ended = {}
  /\ disturbed = {}

-----------------------------------------------------------------------------
(* Tabs *)

Send(c, msg) ==
  /\ call[c] = Free
  /\ call' = [call EXCEPT ![c] = msg]
  /\ UNCHANGED <<issued, usable, family, browserVars, ended>>

SendLogin(b, c) ==
  /\ Send(c, [Free EXCEPT !.state = "login", !.tab = b])
  /\ UNCHANGED disturbed

\* Families with a refresh that was not answered, or whose answer is on its way.
UnderWay ==
  {family[call[c].cookie] : c \in {d \in Call : call[d].cookie # None}}

SendRefresh(b, c) ==
  LET f == family[jar.refresh_token] IN
  /\ jar.refresh_token # None
  /\ Send(c, [Free EXCEPT !.state = "refresh", !.tab = b,
                          !.cookie = jar.refresh_token,
                          !.csrf = jar.csrf_token,
                          !.header = mem[b]])
  /\ disturbed' = IF f \in UnderWay THEN disturbed \cup {f} ELSE disturbed

SendLogout(b, c) ==
  /\ mem[b] # None
  /\ Send(c, [Free EXCEPT !.state = "logout", !.tab = b, !.header = mem[b]])
  /\ UNCHANGED disturbed

\* A refresh is repeated, by the tab after a timeout or on its way.
Repeat(c, d) ==
  /\ call[c].state = "refresh"
  /\ Send(d, call[c])
  /\ disturbed' = disturbed \cup {family[call[c].cookie]}

\* A page is reloaded, or closed and opened again: what it had in memory is
\* gone, and of the answers to its calls only the cookies arrive.
Reload(b) ==
  /\ mem' = [mem EXCEPT ![b] = None]
  /\ call' = [c \in Call |-> IF call[c].tab = b THEN [call[c] EXCEPT !.tab = None]
                                               ELSE call[c]]
  /\ UNCHANGED <<issued, usable, family, jar, ended, disturbed>>

-----------------------------------------------------------------------------
(* Handlers *)

Answered(c, state, t) ==
  /\ call' = [call EXCEPT ![c].state = state, ![c].token = t]
  /\ UNCHANGED <<browserVars, disturbed>>

\* Register and Login, the latter in whatever session the browser is.
Login(c, t) ==
  /\ call[c].state = "login"
  /\ Start(t)
  /\ family' = [family EXCEPT ![t] = t]
  /\ Answered(c, "tokens", t)
  /\ UNCHANGED ended

\* The double-submit check.
VerifyCSRF(c) == call[c].csrf # None /\ call[c].header = call[c].csrf

\* Mutant: the check comes after the rotation.
RefreshForbiddenLate(c) ==
  /\ call[c].state = "refresh" /\ ~ VerifyCSRF(c)
  /\ LET f == family[call[c].cookie] IN
     \/ /\ usable[f] = call[c].cookie
        /\ \E t \in Token : Rotate(f, t) /\ family' = [family EXCEPT ![t] = f]
     \/ /\ usable[f] # call[c].cookie
        /\ Kill({f})
        /\ UNCHANGED family
  /\ Answered(c, "refused", None)
  /\ UNCHANGED ended

\* 403, before the refresh token is read.
RefreshForbidden(c) ==
  /\ call[c].state = "refresh" /\ ~ VerifyCSRF(c)
  /\ Answered(c, "refused", None)
  /\ UNCHANGED <<issued, usable, family, ended>>

\* The refresh token is exchanged.
RefreshRotates(c, t) ==
  LET f == family[call[c].cookie] IN
  /\ call[c].state = "refresh" /\ VerifyCSRF(c)
  /\ usable[f] = call[c].cookie
  /\ Rotate(f, t)
  /\ family' = [family EXCEPT ![t] = f]
  /\ Answered(c, "tokens", t)
  /\ UNCHANGED ended

\* It was exchanged before: the family is revoked, unless that fails or misses
\* a rotation under way; the cookies stay.
RefreshReplayed(c) ==
  LET f == family[call[c].cookie] IN
  /\ call[c].state = "refresh" /\ VerifyCSRF(c)
  /\ usable[f] # call[c].cookie
  /\ \E F \in SUBSET {f} : Kill(F)
  /\ Answered(c, "refused", None)
  /\ UNCHANGED <<family, ended>>

\* Any handler fails before it has changed anything; so does Authn, if the
\* session of the access token was rotated or revoked.
Refuse(c) ==
  /\ call[c].state \in {"login", "refresh", "logout", "accepted"}
  /\ Answered(c, "refused", None)
  /\ UNCHANGED <<issued, usable, family, ended>>

\* Authn accepts the access token of a logout.
Authn(c) ==
  /\ call[c].state = "logout"
  /\ usable[family[call[c].header]] = call[c].header
  /\ Answered(c, "accepted", None)
  /\ UNCHANGED <<issued, usable, family, ended>>

\* Logout of one session: of none, if it was rotated since.
Logout(c) ==
  LET f == family[call[c].header]
      F == IF usable[f] = call[c].header THEN {f} ELSE {}
  IN /\ call[c].state = "accepted"
     /\ Kill(F)
     /\ ended' = ended \cup F
     /\ Answered(c, "cleared", None)
     /\ UNCHANGED family

\* Logout of all sessions of the user, but for those that a rotation under way
\* replaces.
LogoutAll(c) ==
  /\ call[c].state = "accepted"
  /\ \E F \in SUBSET {f \in issued : family[f] = f} :
       /\ Kill(F)
       /\ ended' = ended \cup F
  /\ Answered(c, "cleared", None)
  /\ UNCHANGED family

-----------------------------------------------------------------------------
(* Answers *)

Received(c) ==
  /\ call' = [call EXCEPT ![c] = Free]
  /\ UNCHANGED <<issued, usable, family, ended, disturbed>>

\* The tab that waits for the answer to c, if it still does, keeps t.
Keeps(c, t) == mem' = [b \in Tab |-> IF call[c].tab = b THEN t ELSE mem[b]]

\* setAuthCookies, and the CSRF value once more in the body.
DeliverTokens(c) ==
  LET t == call[c].token IN
  /\ call[c].state = "tokens"
  /\ jar' = [refresh_token |-> t, csrf_token |-> t]
  /\ Keeps(c, t)
  /\ Received(c)

\* Mutant: only the refresh token's cookie is cleared.
DeliverClearedHalf(c) ==
  /\ call[c].state = "cleared"
  /\ jar' = [jar EXCEPT !.refresh_token = None]
  /\ Keeps(c, None)
  /\ Received(c)

\* clearAuthCookies
DeliverCleared(c) ==
  /\ call[c].state = "cleared"
  /\ jar' = NoCookies
  /\ Keeps(c, None)
  /\ Received(c)

DeliverRefused(c) ==
  /\ call[c].state = "refused"
  /\ Received(c)
  /\ UNCHANGED browserVars

\* newCSRFToken fails, or the connection breaks: what was committed stays.
LoseAnswer(c) ==
  /\ call[c].state \in {"tokens", "cleared"}
  /\ call' = [call EXCEPT ![c] = Free]
  /\ disturbed' = IF call[c].cookie = None THEN disturbed
                  ELSE disturbed \cup {family[call[c].cookie]}
  /\ UNCHANGED <<issued, usable, family, browserVars, ended>>

\* Both cookies expire with the refresh token.
CookiesExpire ==
  /\ jar # NoCookies
  /\ jar' = NoCookies
  /\ UNCHANGED <<issued, usable, family, mem, call, ended, disturbed>>

-----------------------------------------------------------------------------
Next ==
  \/ CookiesExpire
  \/ \E b \in Tab : Reload(b)
  \/ \E c \in Call :
       \/ \E b \in Tab : SendLogin(b, c) \/ SendRefresh(b, c) \/ SendLogout(b, c)
       \/ \E d \in Call : Repeat(c, d)
       \/ \E t \in Token : Login(c, t) \/ RefreshRotates(c, t)
       \/ RefreshForbidden(c) \/ RefreshReplayed(c) \/ Refuse(c)
       \/ Authn(c) \/ Logout(c) \/ LogoutAll(c)
       \/ DeliverTokens(c) \/ DeliverCleared(c) \/ DeliverRefused(c)
       \/ LoseAnswer(c)

Spec == Init /\ [][Next]_vars

-----------------------------------------------------------------------------
(* Properties *)

\* Rotation logs nobody out who sends one refresh at a time and gets the
\* answers: a family dies only by a logout, or if one of its refreshes was
\* repeated, overlapped with another, or lost its answer, whatever other tabs
\* try with a CSRF value that is out of date or forgotten, and in whatever order
\* the answers of several logins come in (handler.go:120, cookies.go:15).
UndisturbedFamiliesLive ==
  \A f \in issued :
    family[f] = f /\ usable[f] = None => f \in ended \cup disturbed

============================================================================
