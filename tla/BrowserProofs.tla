---------------------------- MODULE BrowserProofs ----------------------------
(* Proofs about Browser, for any tokens, tabs and calls under way.         *)
EXTENDS Browser, TLAPS

-----------------------------------------------------------------------------
(* The inductive invariant                                                 *)

Known == issued \cup {None}

\* A family is named after its first token, and what is usable is of the family.
FamilyInv ==
  /\ \A t \in Token : t \in issued <=> family[t] # None
  /\ \A t \in issued : family[t] \in issued /\ family[family[t]] = family[t]
  /\ \A f \in Token : usable[f] # None =>
       usable[f] \in issued /\ family[usable[f]] = f

\* What a call holds was issued; an answer to a refresh brings a token of the
\* family it was asked for.
KnownCall(m) ==
  /\ m.cookie \in Known /\ m.header \in Known /\ m.token \in Known
  /\ m.state = "refresh" => m.cookie # None
  /\ m.state \in {"free", "login", "logout", "accepted", "cleared"} => m.cookie = None
  /\ m.state \in {"logout", "accepted"} => m.header # None
  /\ m.state = "tokens" =>
       /\ m.token # None
       /\ m.cookie # None => family[m.token] = family[m.cookie]

KnownInv ==
  /\ jar.refresh_token \in Known
  /\ \A b \in Tab : mem[b] \in Known
  /\ \A c \in Call : KnownCall(call[c])

\* f is a family of which nothing was repeated, overlapped or lost.
Undisturbed(f) == f \in issued /\ family[f] = f /\ f \notin ended \cup disturbed

\* Of family f: the refreshes that are out, the answers, and the jar's token.
Asks(m, f) == m.cookie # None /\ family[m.cookie] = f
Brings(m, f) == m.state = "tokens" /\ family[m.token] = f
JarIn(f) == jar.refresh_token # None /\ family[jar.refresh_token] = f

\* Such a family has a usable token; one refresh at most is out, with that
\* token or with its answer; so has the jar, unless the answer is on its way,
\* and nothing was sent yet while the answer to the login is.
Fresh(f) ==
  /\ usable[f] # None
  /\ \A c, d \in Call : Asks(call[c], f) /\ Asks(call[d], f) => c = d
  /\ \A c \in Call : Asks(call[c], f) /\ call[c].state = "refresh" =>
       call[c].cookie = usable[f]
  /\ \A c \in Call : Brings(call[c], f) => call[c].token = usable[f]
  /\ \A c \in Call : Brings(call[c], f) /\ call[c].cookie = None =>
       /\ ~ JarIn(f)
       /\ \A d \in Call : ~ Asks(call[d], f) /\ (Brings(call[d], f) => c = d)
  /\ JarIn(f) =>
       \/ jar.refresh_token = usable[f]
       \/ \E c \in Call : Asks(call[c], f) /\ Brings(call[c], f)

FreshInv == \A f \in Token : Undisturbed(f) => Fresh(f)

IInv == TypeOK /\ FamilyInv /\ KnownInv /\ FreshInv

LEMMA InitInv == Init => IInv
<1> SUFFICES ASSUME Init PROVE IInv
  OBVIOUS
<1> USE NoneAssumption DEF Init, FInit, NoCookies, Free
<1>1. TypeOK
  BY DEF TypeOK, FTypeOK, CallType
<1>2. FamilyInv /\ KnownInv
  BY DEF FamilyInv, KnownInv, KnownCall, Known
<1>3. FreshInv
  BY DEF FreshInv, Undisturbed
<1>4. QED
  BY <1>1, <1>2, <1>3 DEF IInv

-----------------------------------------------------------------------------
(* Tabs                                                                    *)

\* A new call, or a repeated one, that brings nothing yet.
SentKeeps(c, m) ==
  /\ m \in CallType /\ KnownCall(m)
  /\ m.state # "tokens"
  /\ disturbed' \in SUBSET Token
  /\ disturbed \subseteq disturbed'
  /\ \A f \in Token : Asks(m, f) /\ Undisturbed(f) /\ f \notin disturbed' =>
       /\ m.cookie = usable[f]
       /\ \A d \in Call : ~ Asks(call[d], f)
       /\ JarIn(f)

LEMMA SendInv ==
  ASSUME IInv, NEW c \in Call, NEW m, Send(c, m), SentKeeps(c, m)
  PROVE  IInv'
<1> USE NoneAssumption DEF IInv, Send, browserVars
<1>1. TypeOK'
  BY DEF TypeOK, FTypeOK, SentKeeps
<1>2. FamilyInv'
  BY DEF FamilyInv
<1>3. \A d \in Call : call'[d] = IF d = c THEN m ELSE call[d]
  BY DEF TypeOK
<1>4. KnownInv'
  BY <1>3 DEF KnownInv, KnownCall, Known, SentKeeps
<1>5. ASSUME NEW f \in Token, Undisturbed(f)' PROVE Fresh(f)'
  <2>1. Undisturbed(f) /\ Fresh(f)
    BY <1>5 DEF Undisturbed, SentKeeps, FreshInv
  <2>2. ~ Brings(m, f) /\ ~ Asks(call[c], f) /\ ~ Brings(call[c], f)
    BY DEF SentKeeps, Brings, Asks, Free
  <2>3. Asks(m, f) => m.cookie = usable[f] /\ JarIn(f) /\ \A d \in Call : ~ Asks(call[d], f)
    BY <1>5, <2>1 DEF SentKeeps, Undisturbed
  <2>4. QED
    BY <1>3, <2>1, <2>2, <2>3 DEF Fresh, Asks, Brings, JarIn
<1>6. FreshInv'
  BY <1>5 DEF FreshInv
<1>7. QED
  BY <1>1, <1>2, <1>4, <1>6

LEMMA TabInv ==
  ASSUME IInv, NEW c \in Call, NEW b \in Tab,
         SendLogin(b, c) \/ SendRefresh(b, c) \/ SendLogout(b, c)
  PROVE  IInv'
<1> USE NoneAssumption DEF IInv
<1>1. CASE SendLogin(b, c)
  <2> DEFINE m == [Free EXCEPT !.state = "login", !.tab = b]
  <2>1. m \in CallType /\ m.state = "login" /\ m.cookie = None /\ m.header = None
        /\ m.token = None /\ m.tab = b
    BY DEF CallType, Free
  <2> HIDE DEF m
  <2>2. SentKeeps(c, m)
    BY <1>1, <2>1 DEF SentKeeps, SendLogin, KnownCall, Known, Asks, TypeOK
  <2>3. Send(c, m)
    BY <1>1 DEF SendLogin, m
  <2>4. QED
    BY <2>2, <2>3, SendInv
<1>2. CASE SendRefresh(b, c)
  <2> DEFINE m == [Free EXCEPT !.state = "refresh", !.tab = b,
                               !.cookie = jar.refresh_token,
                               !.csrf = jar.csrf_token,
                               !.header = mem[b]]
             g == family[jar.refresh_token]
  <2>1. m \in CallType /\ m.state = "refresh" /\ m.cookie = jar.refresh_token
        /\ m.header = mem[b] /\ m.token = None /\ m.tab = b
    <3>1. jar.refresh_token \in Token \cup {None} /\ jar.csrf_token \in Token \cup {None}
      BY DEF TypeOK
    <3>2. mem[b] \in Token \cup {None}
      BY DEF TypeOK
    <3>3. QED
      BY <3>1, <3>2 DEF CallType, Free
  <2> HIDE DEF m
  <2>2. jar.refresh_token # None /\ jar.refresh_token \in issued /\ g \in Token
    BY <1>2 DEF SendRefresh, KnownInv, Known, FamilyInv, TypeOK, FTypeOK
  <2>3. disturbed' = IF g \in UnderWay THEN disturbed \cup {g} ELSE disturbed
    BY <1>2 DEF SendRefresh
  <2>4. KnownCall(m)
    BY <2>1, <2>2 DEF KnownCall, Known, KnownInv
  <2>5. ASSUME NEW f \in Token, Asks(m, f), Undisturbed(f), f \notin disturbed'
        PROVE  /\ m.cookie = usable[f]
               /\ \A d \in Call : ~ Asks(call[d], f)
               /\ JarIn(f)
    <3>1. f = g /\ JarIn(f)
      BY <2>1, <2>2, <2>5 DEF Asks, JarIn
    <3>2. \A d \in Call : ~ Asks(call[d], f)
      BY <2>3, <2>5, <3>1 DEF Asks, UnderWay
    <3>3. Fresh(f)
      BY <2>5 DEF FreshInv
    <3>4. QED
      BY <2>1, <3>1, <3>2, <3>3 DEF Fresh
  <2>6. SentKeeps(c, m)
    BY <2>1, <2>2, <2>3, <2>4, <2>5 DEF SentKeeps, TypeOK
  <2>7. Send(c, m)
    BY <1>2 DEF SendRefresh, m
  <2>8. QED
    BY <2>6, <2>7, SendInv
<1>3. CASE SendLogout(b, c)
  <2> DEFINE m == [Free EXCEPT !.state = "logout", !.tab = b, !.header = mem[b]]
  <2>1. m \in CallType /\ m.state = "logout" /\ m.cookie = None /\ m.header = mem[b]
        /\ m.token = None /\ m.tab = b
    BY DEF CallType, Free, TypeOK
  <2> HIDE DEF m
  <2>2. SentKeeps(c, m)
    BY <1>3, <2>1 DEF SentKeeps, SendLogout, KnownCall, Known, KnownInv, Asks, TypeOK
  <2>3. Send(c, m)
    BY <1>3 DEF SendLogout, m
  <2>4. QED
    BY <2>2, <2>3, SendInv
<1>4. QED
  BY <1>1, <1>2, <1>3

LEMMA RepeatInv ==
  ASSUME IInv, NEW c \in Call, NEW d \in Call, Repeat(c, d)
  PROVE  IInv'
<1> USE NoneAssumption DEF IInv, Repeat
<1>1. call[c] \in CallType /\ KnownCall(call[c]) /\ call[c].state = "refresh"
  BY DEF TypeOK, KnownInv
<1>2. family[call[c].cookie] \in Token
  BY <1>1 DEF KnownCall, Known, FamilyInv, TypeOK, FTypeOK
<1>3. SentKeeps(d, call[c])
  BY <1>1, <1>2 DEF SentKeeps, Asks, TypeOK
<1>4. QED
  BY <1>3, SendInv

\* A reload changes whose calls they are, and nothing else of them.
LEMMA ReloadInv ==
  ASSUME IInv, NEW b \in Tab, Reload(b)
  PROVE  IInv'
<1> USE NoneAssumption DEF IInv
<1>1. UNCHANGED <<issued, usable, family, jar, ended, disturbed>>
  BY DEF Reload
<1>2. mem' \in [Tab -> Token \cup {None}] /\ \A e \in Tab : mem'[e] \in Known
  BY DEF Reload, TypeOK, KnownInv, Known
<1>3. call' \in [Call -> CallType]
  BY DEF Reload, TypeOK, CallType
<1>4. \A c \in Call :
        /\ call'[c].state = call[c].state /\ call'[c].cookie = call[c].cookie
        /\ call'[c].token = call[c].token /\ call'[c].header = call[c].header
  BY DEF Reload, TypeOK, CallType
<1>5. TypeOK' /\ FamilyInv'
  BY <1>1, <1>2, <1>3 DEF TypeOK, FTypeOK, FamilyInv
<1>6. KnownInv'
  BY <1>1, <1>2, <1>4 DEF KnownInv, KnownCall, Known
<1>7. ASSUME NEW f \in Token, Undisturbed(f)' PROVE Fresh(f)'
  <2>1. Fresh(f)
    BY <1>1, <1>7 DEF Undisturbed, FreshInv
  <2>2. \A c \in Call : /\ Asks(call[c], f)' <=> Asks(call[c], f)
                        /\ Brings(call[c], f)' <=> Brings(call[c], f)
    BY <1>1, <1>4 DEF Asks, Brings
  <2>3. JarIn(f)' <=> JarIn(f)
    BY <1>1 DEF JarIn
  <2>4. QED
    BY <1>1, <1>4, <2>1, <2>2, <2>3 DEF Fresh
<1>8. QED
  BY <1>5, <1>6, <1>7 DEF FreshInv

-----------------------------------------------------------------------------
(* Handlers                                                                *)

\* An answer changes what the call brings, and nothing else of it.
LEMMA AnsweredFacts ==
  ASSUME TypeOK, NEW c \in Call, NEW t \in Token \cup {None},
         NEW state \in {"tokens", "accepted", "cleared", "refused"}, Answered(c, state, t)
  PROVE  /\ call' \in [Call -> CallType]
         /\ \A d \in Call \ {c} : call'[d] = call[d]
         /\ call'[c].state = state /\ call'[c].token = t
         /\ call'[c].tab = call[c].tab /\ call'[c].cookie = call[c].cookie
         /\ call'[c].header = call[c].header
<1>1. call[c] \in CallType
  BY DEF TypeOK
<1>2. call' = [call EXCEPT ![c] = [call[c] EXCEPT !.state = state, !.token = t]]
  BY <1>1 DEF Answered, TypeOK, CallType
<1>3. QED
  BY <1>1, <1>2 DEF TypeOK, CallType

\* A handler that brings nothing; the families F that it ends are not
\* undisturbed any more.
LEMMA NoTokensInv ==
  ASSUME IInv, NEW c \in Call, NEW state \in {"accepted", "cleared", "refused"},
         call[c].state \in {"login", "refresh", "logout", "accepted"},
         state # "refused" => call[c].state \in {"logout", "accepted"},
         Answered(c, state, None),
         NEW F \in SUBSET Token, Kill(F), UNCHANGED family,
         ended \subseteq ended', ended' \subseteq Token,
         \A f \in F : ~ Undisturbed(f)'
  PROVE  IInv'
<1> USE NoneAssumption DEF IInv
<1>1. UNCHANGED <<issued, family, jar, mem, disturbed>>
      /\ \A f \in Token : usable'[f] = IF f \in F THEN None ELSE usable[f]
  BY DEF Answered, Kill, browserVars
<1>2. /\ call' \in [Call -> CallType]
      /\ \A d \in Call \ {c} : call'[d] = call[d]
      /\ call'[c].state = state /\ call'[c].token = None
      /\ call'[c].tab = call[c].tab /\ call'[c].cookie = call[c].cookie
      /\ call'[c].header = call[c].header
  BY AnsweredFacts
<1>3. TypeOK'
  BY <1>1, <1>2 DEF TypeOK, FTypeOK, Kill
<1>4. FamilyInv'
  BY <1>1 DEF FamilyInv
<1>5. KnownInv'
  <2>1. KnownCall(call[c])
    BY DEF KnownInv
  <2>2. KnownCall(call[c])'
    BY <1>1, <1>2, <2>1 DEF KnownCall, Known
  <2>3. \A d \in Call \ {c} : KnownCall(call[d])'
    BY <1>1, <1>2 DEF KnownInv, KnownCall, Known
  <2>4. QED
    BY <1>1, <2>2, <2>3 DEF KnownInv, Known
<1>6. ASSUME NEW f \in Token, Undisturbed(f)' PROVE Fresh(f)'
  <2>1. Fresh(f) /\ usable'[f] = usable[f]
    BY <1>1, <1>6 DEF Undisturbed, FreshInv
  <2>2. \A d \in Call : Asks(call[d], f)' <=> Asks(call[d], f)
    BY <1>1, <1>2 DEF Asks
  <2>3. \A d \in Call : Brings(call[d], f)' <=> Brings(call[d], f)
    BY <1>1, <1>2 DEF Brings
  <2>4. \A d \in Call : call'[d].cookie = call[d].cookie
    BY <1>2
  <2>5. \A d \in Call : call'[d].state = "refresh" => call[d].state = "refresh"
    BY <1>2
  <2>6. \A d \in Call : Brings(call[d], f) => call'[d].token = call[d].token
    BY <1>2 DEF Brings
  <2>7. JarIn(f)' <=> JarIn(f)
    BY <1>1 DEF JarIn
  <2>8. QED
    BY <1>1, <2>1, <2>2, <2>3, <2>4, <2>5, <2>6, <2>7 DEF Fresh
<1>7. FreshInv'
  BY <1>6 DEF FreshInv
<1>8. QED
  BY <1>3, <1>4, <1>5, <1>7

\* A handler that brings a token of family g, as its usable one.
TokenKeeps(c, g, t) ==
  /\ t \in Token \ issued /\ g \in Token
  /\ issued' = issued \cup {t}
  /\ usable' = [usable EXCEPT ![g] = t]
  /\ family' = [family EXCEPT ![t] = g]
  /\ Answered(c, "tokens", t)
  /\ UNCHANGED ended

\* What is known of the other families stays.
LEMMA TokensInv ==
  ASSUME IInv, NEW c \in Call, NEW g, NEW t, TokenKeeps(c, g, t),
         call[c].state \in {"login", "refresh"},
         g = t \/ (g \in issued /\ family[g] = g),
         call[c].cookie # None => family[call[c].cookie] = g,
         Undisturbed(g)' => Fresh(g)'
  PROVE  IInv'
<1> USE NoneAssumption DEF IInv
<1>1. /\ UNCHANGED <<jar, mem, disturbed, ended>>
      /\ t \in Token /\ t \notin issued /\ g \in Token
      /\ issued' = issued \cup {t}
      /\ \A f \in Token : usable'[f] = IF f = g THEN t ELSE usable[f]
      /\ \A x \in Token : family'[x] = IF x = t THEN g ELSE family[x]
  BY DEF TokenKeeps, Answered, browserVars, TypeOK, FTypeOK
<1>2. /\ call' \in [Call -> CallType]
      /\ \A d \in Call \ {c} : call'[d] = call[d]
      /\ call'[c].state = "tokens" /\ call'[c].token = t
      /\ call'[c].tab = call[c].tab /\ call'[c].cookie = call[c].cookie
      /\ call'[c].header = call[c].header
  BY AnsweredFacts DEF TokenKeeps
<1>3. TypeOK'
  BY <1>1, <1>2 DEF TypeOK, FTypeOK, TokenKeeps
<1>4. issued \subseteq Token /\ t # None
  BY <1>1 DEF TypeOK, FTypeOK
<1>5. FamilyInv'
  <2>1. \A x \in Token : x \in issued' <=> family'[x] # None
    BY <1>1 DEF FamilyInv
  <2>2. \A x \in issued' : family'[x] \in issued' /\ family'[family'[x]] = family'[x]
    BY <1>1, <1>4 DEF FamilyInv
  <2>3. \A f \in Token : usable'[f] # None =>
          usable'[f] \in issued' /\ family'[usable'[f]] = f
    BY <1>1, <1>4 DEF FamilyInv
  <2>4. QED
    BY <2>1, <2>2, <2>3 DEF FamilyInv
<1>6. KnownInv'
  <2>1. ASSUME NEW d \in Call PROVE KnownCall(call[d])'
    <3>1. KnownCall(call[d])
      BY DEF KnownInv
    <3>2. CASE d = c
      BY <1>1, <1>2, <1>4, <3>1, <3>2 DEF KnownCall, Known
    <3>3. CASE d # c
      BY <1>1, <1>2, <1>4, <3>1, <3>3 DEF KnownCall, Known
    <3>4. QED
      BY <3>2, <3>3
  <2>2. QED
    BY <1>1, <2>1 DEF KnownInv, Known
<1>7. ASSUME NEW f \in Token, Undisturbed(f)', f # g PROVE Fresh(f)'
  <2>1. Undisturbed(f) /\ Fresh(f)
    BY <1>1, <1>4, <1>7 DEF Undisturbed, FreshInv
  <2>2. \A d \in Call : Asks(call[d], f)' <=> Asks(call[d], f)
    BY <1>1, <1>2, <1>4 DEF Asks, KnownInv, KnownCall, Known
  <2>3. ~ Brings(call[c], f)' /\ ~ Brings(call[c], f)
    BY <1>1, <1>2, <1>7 DEF Brings
  <2>4. \A d \in Call \ {c} : Brings(call[d], f)' <=> Brings(call[d], f)
    BY <1>1, <1>2, <1>4 DEF Brings, KnownInv, KnownCall, Known
  <2>5. JarIn(f)' <=> JarIn(f)
    BY <1>1, <1>4 DEF JarIn, KnownInv, Known
  <2>6. usable'[f] = usable[f] /\ jar' = jar
    BY <1>1, <1>7
  <2>7. \A d \in Call : call'[d].cookie = call[d].cookie
    BY <1>2
  <2>8. QED
    BY <1>2, <2>1, <2>2, <2>3, <2>4, <2>5, <2>6, <2>7 DEF Fresh
<1>8. FreshInv'
  BY <1>7 DEF FreshInv
<1>9. QED
  BY <1>3, <1>5, <1>6, <1>8

LEMMA LoginInv ==
  ASSUME IInv, NEW c \in Call, NEW t \in Token, Login(c, t)
  PROVE  IInv'
<1> USE NoneAssumption DEF IInv
<1>1. TokenKeeps(c, t, t) /\ call[c].state = "login" /\ call[c].cookie = None
  BY DEF Login, Start, TokenKeeps, KnownInv, KnownCall
<1>2. /\ jar' = jar /\ t \notin issued /\ t # None /\ issued \subseteq Token
      /\ usable'[t] = t
      /\ \A x \in Token : family'[x] = IF x = t THEN t ELSE family[x]
  BY <1>1 DEF TokenKeeps, Answered, browserVars, TypeOK, FTypeOK
<1>3. /\ \A d \in Call \ {c} : call'[d] = call[d]
      /\ call'[c].token = t /\ call'[c].cookie = None
  BY <1>1, AnsweredFacts DEF TokenKeeps
<1>4. \A x \in issued : family[x] # t /\ family'[x] # t
  BY <1>2 DEF FamilyInv
<1>5. \A d \in Call : ~ Asks(call[d], t)'
  BY <1>3, <1>4 DEF Asks, KnownInv, KnownCall, Known
<1>6. \A d \in Call \ {c} : ~ Brings(call[d], t)'
  BY <1>3, <1>4 DEF Brings, KnownInv, KnownCall, Known
<1>7. ~ JarIn(t)'
  BY <1>2, <1>4 DEF JarIn, KnownInv, Known
<1>8. Fresh(t)'
  BY <1>2, <1>3, <1>5, <1>6, <1>7 DEF Fresh
<1>9. QED
  BY <1>1, <1>8, TokensInv

LEMMA RotatesInv ==
  ASSUME IInv, NEW c \in Call, NEW t \in Token, RefreshRotates(c, t)
  PROVE  IInv'
<1> USE NoneAssumption DEF IInv
<1>1. /\ call[c].state = "refresh" /\ call[c].cookie \in issued
      /\ call[c].cookie # None
  BY DEF RefreshRotates, KnownInv, KnownCall, Known
<1>g. PICK g \in issued : g = family[call[c].cookie]
  BY <1>1 DEF FamilyInv
<1>2. issued \subseteq Token /\ family[g] = g
  BY <1>1, <1>g DEF FamilyInv, TypeOK, FTypeOK
<1>3. TokenKeeps(c, g, t)
  BY <1>2, <1>g DEF RefreshRotates, Rotate, TokenKeeps
<1>4. /\ UNCHANGED <<jar, ended, disturbed>>
      /\ t \notin issued /\ t # None
      /\ usable'[g] = t
      /\ \A x \in Token : family'[x] = IF x = t THEN g ELSE family[x]
  BY <1>2, <1>3 DEF TokenKeeps, Answered, browserVars, TypeOK, FTypeOK
<1>5. /\ \A d \in Call \ {c} : call'[d] = call[d]
      /\ call'[c].state = "tokens" /\ call'[c].token = t
      /\ call'[c].cookie = call[c].cookie
  BY <1>3, AnsweredFacts DEF TokenKeeps
<1>6. ASSUME Undisturbed(g)' PROVE Fresh(g)'
  <2>1. Fresh(g)
    BY <1>2, <1>4, <1>6 DEF Undisturbed, FreshInv
  <2>2. Asks(call[c], g)
    BY <1>1, <1>g DEF Asks
  <2>3. \A d \in Call \ {c} : ~ Asks(call[d], g)
    BY <2>1, <2>2 DEF Fresh
  <2>4. \A d \in Call \ {c} : ~ Brings(call[d], g)
    BY <2>1, <2>2, <2>3 DEF Fresh, Brings, Asks, KnownInv, KnownCall
  <2>5. \A d \in Call \ {c} : ~ Asks(call[d], g)' /\ ~ Brings(call[d], g)'
    BY <1>2, <1>4, <1>5, <2>3, <2>4 DEF Asks, Brings, KnownInv, KnownCall, Known
  <2>6. Asks(call[c], g)' /\ Brings(call[c], g)'
    BY <1>1, <1>2, <1>4, <1>5, <2>2 DEF Asks, Brings
  <2>7. QED
    BY <1>1, <1>4, <1>5, <2>5, <2>6 DEF Fresh
<1>7. QED
  BY <1>1, <1>2, <1>g, <1>3, <1>6, TokensInv

LEMMA RefusalInv ==
  ASSUME IInv, NEW c \in Call,
         RefreshForbidden(c) \/ RefreshReplayed(c) \/ Refuse(c)
         \/ Authn(c) \/ Logout(c) \/ LogoutAll(c)
  PROVE  IInv'
<1> USE NoneAssumption DEF IInv
<1>1. CASE RefreshForbidden(c) \/ Refuse(c) \/ Authn(c)
  <2>1. Kill({})
    BY <1>1 DEF RefreshForbidden, Refuse, Authn, Kill, TypeOK, FTypeOK
  <2>2. QED
    BY <1>1, <2>1, NoTokensInv DEF RefreshForbidden, Refuse, Authn, TypeOK
<1>2. CASE RefreshReplayed(c)
  <2>1. call[c].state = "refresh" /\ call[c].cookie # None
        /\ family[call[c].cookie] \in Token
    BY <1>2 DEF RefreshReplayed, KnownInv, KnownCall, Known, FamilyInv, TypeOK,
                FTypeOK
  <2>2. PICK f \in Token : f = family[call[c].cookie]
    BY <2>1
  <2>3. PICK F \in SUBSET {f} : Kill(F)
    BY <1>2, <2>2 DEF RefreshReplayed
  <2>4. Answered(c, "refused", None)
        /\ UNCHANGED <<family, ended>> /\ usable[f] # call[c].cookie
    BY <1>2, <2>2 DEF RefreshReplayed
  <2>5. ~ Undisturbed(f)
    BY <2>1, <2>2, <2>4 DEF FreshInv, Fresh, Asks
  <2>6. ~ Undisturbed(f)'
    BY <2>3, <2>4, <2>5 DEF Undisturbed, Kill, Answered
  <2>7. QED
    BY <2>1, <2>3, <2>4, <2>6, NoTokensInv DEF TypeOK
<1>3. ASSUME NEW F \in SUBSET Token, Kill(F), ended' = ended \cup F,
             call[c].state = "accepted", Answered(c, "cleared", None), UNCHANGED family
      PROVE  IInv'
  BY <1>3, NoTokensInv DEF TypeOK, Undisturbed
<1>4. CASE Logout(c)
  <2>1. PICK f \in Token : f = family[call[c].header]
    BY <1>4 DEF Logout, KnownInv, KnownCall, Known, FamilyInv, TypeOK, FTypeOK
  <2>2. CASE usable[f] = call[c].header
    BY <1>3, <1>4, <2>1, <2>2 DEF Logout
  <2>3. CASE usable[f] # call[c].header
    BY <1>3, <1>4, <2>1, <2>3 DEF Logout
  <2>4. QED
    BY <2>2, <2>3
<1>5. CASE LogoutAll(c)
  <2>1. issued \subseteq Token
    BY DEF TypeOK, FTypeOK
  <2>2. QED
    BY <1>3, <1>5, <2>1 DEF LogoutAll
<1>6. QED
  BY <1>1, <1>2, <1>4, <1>5

-----------------------------------------------------------------------------
(* Answers                                                                 *)

\* The jar has what is usable, or its successor is on its way with a call
\* other than c; and no answer to a login is.
JarFollows(c, f) ==
  /\ \/ jar'.refresh_token = usable[f]
     \/ \E e \in Call \ {c} : Asks(call[e], f) /\ Brings(call[e], f)
  /\ \A d \in Call \ {c} : Brings(call[d], f) => call[d].cookie # None

\* Call c is over: its answer was delivered or lost.
LEMMA OverInv ==
  ASSUME IInv, NEW c \in Call,
         call' = [call EXCEPT ![c] = Free],
         UNCHANGED <<issued, usable, family, ended>>,
         disturbed \subseteq disturbed', disturbed' \subseteq Token,
         jar' \in {[refresh_token |-> t, csrf_token |-> t] : t \in Token \cup {None}},
         mem' \in [Tab -> Token \cup {None}],
         jar'.refresh_token \in Known, \A b \in Tab : mem'[b] \in Known,
         \A f \in Token : Undisturbed(f)' /\ JarIn(f)' => JarFollows(c, f)
  PROVE  IInv'
<1> USE NoneAssumption DEF IInv
<1>1. /\ Free \in CallType /\ Free.cookie = None /\ Free.header = None
      /\ Free.token = None /\ Free.state = "free"
  BY DEF CallType, Free
<1>2. \A d \in Call : call'[d] = IF d = c THEN Free ELSE call[d]
  BY DEF TypeOK
<1>3. TypeOK'
  BY <1>1 DEF TypeOK, FTypeOK
<1>4. FamilyInv'
  BY DEF FamilyInv
<1>5. KnownInv'
  BY <1>1, <1>2 DEF KnownInv, KnownCall, Known
<1>6. ASSUME NEW f \in Token, Undisturbed(f)' PROVE Fresh(f)'
  <2>1. Fresh(f)
    BY <1>6 DEF Undisturbed, FreshInv
  <2>2. ~ Asks(call[c], f)' /\ ~ Brings(call[c], f)'
    BY <1>1, <1>2 DEF Asks, Brings
  <2>3. \A d \in Call \ {c} :
          /\ Asks(call[d], f)' <=> Asks(call[d], f)
          /\ Brings(call[d], f)' <=> Brings(call[d], f)
    BY <1>2 DEF Asks, Brings
  <2>4. JarIn(f)' => JarFollows(c, f)
    BY <1>6
  <2>5. JarIn(f)' =>
          \/ jar'.refresh_token = usable[f]
          \/ \E e \in Call : Asks(call[e], f)' /\ Brings(call[e], f)'
    BY <2>3, <2>4 DEF JarFollows
  <2>6. \A d \in Call : Brings(call[d], f)' /\ call'[d].cookie = None => ~ JarIn(f)'
    BY <1>2, <2>2, <2>3, <2>4 DEF JarFollows
  <2>7. QED
    BY <1>2, <2>1, <2>2, <2>3, <2>5, <2>6 DEF Fresh
<1>7. FreshInv'
  BY <1>6 DEF FreshInv
<1>8. QED
  BY <1>3, <1>4, <1>5, <1>7

LEMMA DeliverTokensInv ==
  ASSUME IInv, NEW c \in Call, DeliverTokens(c)
  PROVE  IInv'
<1> USE NoneAssumption DEF IInv
<1>1. /\ call[c].state = "tokens" /\ call[c].token \in issued
      /\ call[c].token # None
  BY DEF DeliverTokens, KnownInv, KnownCall, Known
<1>2. PICK t \in Token : t = call[c].token /\ t \in issued
  BY <1>1 DEF TypeOK, FTypeOK
<1>3. /\ jar' = [refresh_token |-> t, csrf_token |-> t]
      /\ mem' = [b \in Tab |-> IF call[c].tab = b THEN t ELSE mem[b]]
      /\ call' = [call EXCEPT ![c] = Free]
      /\ UNCHANGED <<issued, usable, family, ended, disturbed>>
  BY <1>2 DEF DeliverTokens, Keeps, Received
<1>4. mem' \in [Tab -> Token \cup {None}] /\ \A b \in Tab : mem'[b] \in Known
  BY <1>2, <1>3 DEF TypeOK, KnownInv, Known
<1>5. ASSUME NEW f \in Token, Undisturbed(f)', JarIn(f)' PROVE JarFollows(c, f)
  <2>1. Fresh(f) /\ Brings(call[c], f)
    BY <1>1, <1>2, <1>3, <1>5 DEF Undisturbed, FreshInv, JarIn, Brings
  <2>2. jar'.refresh_token = usable[f]
    BY <1>2, <1>3, <2>1 DEF Fresh
  <2>3. ASSUME NEW d \in Call \ {c}, Brings(call[d], f) PROVE call[d].cookie # None
    <3>1. CASE call[c].cookie = None
      BY <2>1, <2>3, <3>1 DEF Fresh
    <3>2. CASE call[c].cookie # None
      <4>1. Asks(call[c], f)
        BY <1>1, <2>1, <3>2 DEF Asks, Brings, KnownInv, KnownCall
      <4>2. QED
        BY <2>1, <2>3, <4>1 DEF Fresh
    <3>3. QED
      BY <3>1, <3>2
  <2>4. QED
    BY <2>2, <2>3 DEF JarFollows
<1>6. QED
  BY <1>2, <1>3, <1>4, <1>5, OverInv DEF TypeOK, Known

LEMMA DeliverClearedInv ==
  ASSUME IInv, NEW c \in Call, DeliverCleared(c)
  PROVE  IInv'
<1> USE NoneAssumption DEF IInv
<1>1. /\ jar' = NoCookies
      /\ mem' = [b \in Tab |-> IF call[c].tab = b THEN None ELSE mem[b]]
      /\ call' = [call EXCEPT ![c] = Free]
      /\ UNCHANGED <<issued, usable, family, ended, disturbed>>
  BY DEF DeliverCleared, Keeps, Received
<1>2. mem' \in [Tab -> Token \cup {None}] /\ \A b \in Tab : mem'[b] \in Known
  BY <1>1 DEF TypeOK, KnownInv, Known
<1>3. \A f \in Token : ~ JarIn(f)'
  BY <1>1 DEF JarIn, NoCookies
<1>4. QED
  BY <1>1, <1>2, <1>3, OverInv DEF TypeOK, Known, NoCookies

LEMMA DeliverRefusedInv ==
  ASSUME IInv, NEW c \in Call, DeliverRefused(c)
  PROVE  IInv'
<1> USE NoneAssumption DEF IInv
<1>1. /\ call[c].state = "refused"
      /\ call' = [call EXCEPT ![c] = Free]
      /\ UNCHANGED <<issued, usable, family, ended, disturbed, jar, mem>>
  BY DEF DeliverRefused, Received, browserVars
<1>2. ASSUME NEW f \in Token, Undisturbed(f)', JarIn(f)' PROVE JarFollows(c, f)
  <2>1. Fresh(f) /\ JarIn(f) /\ ~ Brings(call[c], f)
    BY <1>1, <1>2 DEF Undisturbed, FreshInv, JarIn, Brings
  <2>2. QED
    BY <1>1, <2>1 DEF Fresh, JarFollows
<1>3. QED
  BY <1>1, <1>2, OverInv DEF TypeOK, KnownInv

LEMMA LoseAnswerInv ==
  ASSUME IInv, NEW c \in Call, LoseAnswer(c)
  PROVE  IInv'
<1> USE NoneAssumption DEF IInv
<1>1. /\ call[c].state \in {"tokens", "cleared"}
      /\ call' = [call EXCEPT ![c] = Free]
      /\ disturbed' = IF call[c].cookie = None THEN disturbed
                      ELSE disturbed \cup {family[call[c].cookie]}
      /\ UNCHANGED <<issued, usable, family, ended, jar, mem>>
  BY DEF LoseAnswer, browserVars
<1>2. disturbed \subseteq disturbed' /\ disturbed' \subseteq Token
  BY <1>1 DEF TypeOK, FTypeOK, KnownInv, KnownCall, Known, FamilyInv
<1>3. ASSUME NEW f \in Token, Undisturbed(f)', JarIn(f)' PROVE JarFollows(c, f)
  <2>1. Fresh(f) /\ JarIn(f) /\ ~ Asks(call[c], f)
    BY <1>1, <1>2, <1>3 DEF Undisturbed, FreshInv, JarIn, Asks
  <2>2. QED
    BY <1>1, <2>1 DEF Fresh, JarFollows
<1>4. QED
  BY <1>1, <1>2, <1>3, OverInv DEF TypeOK, KnownInv

LEMMA CookiesExpireInv ==
  ASSUME IInv, CookiesExpire
  PROVE  IInv'
<1> USE NoneAssumption DEF IInv, CookiesExpire
<1>1. TypeOK'
  BY DEF TypeOK, FTypeOK, NoCookies
<1>2. FamilyInv' /\ KnownInv'
  BY DEF FamilyInv, KnownInv, KnownCall, Known, NoCookies
<1>3. \A f \in Token : ~ JarIn(f)'
  BY DEF JarIn, NoCookies
<1>4. FreshInv'
  BY <1>3 DEF FreshInv, Undisturbed, Fresh, Asks, Brings
<1>5. QED
  BY <1>1, <1>2, <1>4

-----------------------------------------------------------------------------
(* Theorems                                                                *)

LEMMA StutterInv == IInv /\ UNCHANGED vars => IInv'
  BY DEF vars, browserVars, IInv, TypeOK, FTypeOK, FamilyInv, KnownInv, KnownCall, Known,
         FreshInv, Undisturbed, Fresh, Asks, Brings, JarIn

\* The inductive invariant: the tables, the cookies, and every call and answer
\* under way fit together (Next of Browser).
THEOREM Invariant == Spec => []IInv
<1>1. Init => IInv
  BY InitInv
<1>2. IInv /\ [Next]_vars => IInv'
  <2> SUFFICES ASSUME IInv, [Next]_vars PROVE IInv'
    OBVIOUS
  <2>1. CASE CookiesExpire
    BY <2>1, CookiesExpireInv
  <2>2. ASSUME NEW c \in Call, NEW b \in Tab,
               SendLogin(b, c) \/ SendRefresh(b, c) \/ SendLogout(b, c)
        PROVE  IInv'
    BY <2>2, TabInv
  <2>3. ASSUME NEW c \in Call, NEW d \in Call, Repeat(c, d) PROVE IInv'
    BY <2>3, RepeatInv
  <2>4. ASSUME NEW c \in Call, NEW t \in Token, Login(c, t) PROVE IInv'
    BY <2>4, LoginInv
  <2>5. ASSUME NEW c \in Call, NEW t \in Token, RefreshRotates(c, t) PROVE IInv'
    BY <2>5, RotatesInv
  <2>6. ASSUME NEW c \in Call,
               RefreshForbidden(c) \/ RefreshReplayed(c) \/ Refuse(c)
               \/ Authn(c) \/ Logout(c) \/ LogoutAll(c)
        PROVE  IInv'
    BY <2>6, RefusalInv
  <2>7. ASSUME NEW c \in Call, DeliverTokens(c) PROVE IInv'
    BY <2>7, DeliverTokensInv
  <2>8. ASSUME NEW c \in Call, DeliverCleared(c) PROVE IInv'
    BY <2>8, DeliverClearedInv
  <2>9. ASSUME NEW c \in Call, DeliverRefused(c) PROVE IInv'
    BY <2>9, DeliverRefusedInv
  <2>10. ASSUME NEW c \in Call, LoseAnswer(c) PROVE IInv'
    BY <2>10, LoseAnswerInv
  <2>11. ASSUME NEW b \in Tab, Reload(b) PROVE IInv'
    BY <2>11, ReloadInv
  <2>12. CASE UNCHANGED vars
    BY <2>12, StutterInv
  <2>13. QED
    BY <2>1, <2>2, <2>3, <2>4, <2>5, <2>6, <2>7, <2>8, <2>9, <2>10, <2>11, <2>12
       DEF Next
<1>3. QED
  BY <1>1, <1>2, PTL DEF Spec

\* Types, for any tokens, tabs and calls (the cookies and the calls of Browser).
THEOREM TypeCorrect == Spec => []TypeOK
  BY Invariant, PTL DEF IInv

\* Nobody is logged out by rotation who refreshes one at a time and gets the
\* answers, however many tabs and calls there are (Refresh in handler.go).
THEOREM UndisturbedLive == Spec => []UndisturbedFamiliesLive
<1>1. IInv => UndisturbedFamiliesLive
  BY DEF IInv, TypeOK, FTypeOK, FreshInv, Fresh, Undisturbed, UndisturbedFamiliesLive
<1>2. QED
  BY <1>1, Invariant, PTL

=============================================================================
