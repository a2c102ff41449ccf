---------------------------- MODULE WebLoginProofs ----------------------------
(***************************************************************************)
(* Proofs about the logins of the web frontend (WebLogin), for any number  *)
(* of browsers, overlapping requests and users.                            *)
(*                                                                         *)
(* The second factor is kept: a request carries the session that it loaded *)
(* until it stores it, so Inv asks of every session under way what it asks *)
(* of the stored ones.                                                     *)
(*                                                                         *)
(* Attempts are bounded: LimitInv compares the limiter's entry with the    *)
(* history of failures, from the last one backwards, and counts the        *)
(* attempts under way as failures still to come.                           *)
(*                                                                         *)
(* Codes are used once: CodeInv says that the row of a user has spent      *)
(* every code that was accepted, and that a row which a request has read   *)
(* is a row of the table.                                                  *)
(***************************************************************************)
EXTENDS WebLogin, FiniteSetTheorems, SequenceTheorems, TLAPS

\* session data has its eight fields and nothing else
Field == {"loggedIn", "admin", "user", "provider", "state", "webAuthn", "pending", "secret"}

IsSession(s) == s = [f \in Field |-> s[f]]

\* what a session claims is what the browser has shown
Shown(s, g, h) ==
    /\ s.loggedIn /\ s.provider = "" => s.user \in g
    /\ s.pending # Nobody => s.pending \in h

Honest(s, g, h) == IsSession(s) /\ Shown(s, g, h)

\* requests that store the session they have loaded
Carrying == {"enroll", "confirm", "regStart", "waStart", "regFinish", "waFinish", "oauthInit"}

Functions ==
    /\ session = [b \in Browser |-> session[b]]
    /\ req = [r \in Slot |-> req[r]]
    /\ granted = [b \in Browser |-> granted[b]]
    /\ half = [b \in Browser |-> half[b]]

SessionsHonest == \A b \in Browser : Honest(session[b], granted[b], half[b])

RequestsHonest ==
    \A r \in Slot : req[r] # Idle =>
        /\ req[r].b \in Browser
        /\ req[r].kind \in Carrying => Honest(req[r].s, granted[req[r].b], half[req[r].b])

Inv == Functions /\ SessionsHonest /\ RequestsHonest
---------------------------------------------------------------------------
(* Sessions *)

\* what was shown stays shown when a browser shows more
LEMMA Growing ==
    ASSUME NEW s, NEW g, NEW h, NEW g2, NEW h2, g \subseteq g2, h \subseteq h2, Honest(s, g, h)
    PROVE  Honest(s, g2, h2)
  BY DEF Honest, Shown

\* new data claims nothing (web_session.go, defaultSessionData)
LEMMA FreshIsHonest == ASSUME NEW g, NEW h PROVE Honest(FreshSession, g, h)
  <1>1. FreshSession.loggedIn = FALSE /\ FreshSession.pending = Nobody BY DEF FreshSession
  <1>2. IsSession(FreshSession) BY DEF FreshSession, IsSession, Field
  <1> QED BY <1>1, <1>2 DEF Honest, Shown

\* a complete session is honest if every factor was shown, or a provider vouches
LEMMA AuthenticatedIsHonest ==
    ASSUME NEW g, NEW h, NEW admin, NEW u, NEW p, u \in g \/ p # ""
    PROVE  Honest([FreshSession EXCEPT !.loggedIn = TRUE, !.admin = admin,
                                       !.user = u, !.provider = p], g, h)
  <1> DEFINE s == [FreshSession EXCEPT !.loggedIn = TRUE, !.admin = admin,
                                       !.user = u, !.provider = p]
  <1>1. IsSession(FreshSession) BY FreshIsHonest DEF Honest
  <1>2. IsSession(s) BY <1>1 DEF IsSession, Field
  <1>3. s.user = u /\ s.provider = p /\ s.pending = FreshSession.pending
    BY <1>1 DEF IsSession, Field
  <1>4. FreshSession.pending = Nobody BY DEF FreshSession
  <1> HIDE DEF s
  <1>5. Honest(s, g, h) BY <1>2, <1>3, <1>4 DEF Honest, Shown
  <1> QED BY <1>5 DEF s

\* one that waits for the code is honest if the first factor was shown
LEMMA PendingIsHonest ==
    ASSUME NEW g, NEW h, NEW u \in h
    PROVE  Honest([FreshSession EXCEPT !.pending = u], g, h)
  <1> DEFINE s == [FreshSession EXCEPT !.pending = u]
  <1>1. IsSession(FreshSession) BY FreshIsHonest DEF Honest
  <1>2. IsSession(s) BY <1>1 DEF IsSession, Field
  <1>3. s.loggedIn = FreshSession.loggedIn /\ s.pending = u BY <1>1 DEF IsSession, Field
  <1>4. FreshSession.loggedIn = FALSE BY DEF FreshSession
  <1> HIDE DEF s
  <1>5. Honest(s, g, h) BY <1>2, <1>3, <1>4 DEF Honest, Shown
  <1> QED BY <1>5 DEF s

\* the data of a ceremony or of an enrolment changes no claim
LEMMA DataIsNoClaim ==
    ASSUME NEW s, NEW g, NEW h, NEW x, Honest(s, g, h)
    PROVE  /\ Honest([s EXCEPT !.secret = x], g, h)
           /\ Honest([s EXCEPT !.webAuthn = x], g, h)
           /\ Honest([s EXCEPT !.state = x], g, h)
  <1>1. IsSession(s) /\ Shown(s, g, h) BY DEF Honest
  <1>2. ASSUME NEW f \in {"secret", "webAuthn", "state"}
        PROVE  Honest([s EXCEPT ![f] = x], g, h)
    <2> DEFINE t == [s EXCEPT ![f] = x]
    <2>1. IsSession(t) BY <1>1 DEF IsSession, Field
    <2>2. /\ t.loggedIn = s.loggedIn /\ t.user = s.user
          /\ t.provider = s.provider /\ t.pending = s.pending
      BY <1>1 DEF IsSession, Field
    <2> HIDE DEF t
    <2>3. Honest(t, g, h) BY <1>1, <2>1, <2>2 DEF Honest, Shown
    <2> QED BY <2>3 DEF t
  <1> QED BY <1>2

---------------------------------------------------------------------------
(* The three kinds of steps *)

\* a step that neither stores a session nor begins or ends a request
LEMMA KeepStep ==
    ASSUME Inv, UNCHANGED <<session, req, half, granted>> PROVE Inv'
  BY DEF Inv, Functions, SessionsHonest, RequestsHonest

\* a request arrives
LEMMA ArriveStep ==
    ASSUME Inv, NEW r \in Slot, NEW b \in Browser, NEW rec, rec.b = b,
           rec.kind \in Carrying => Honest(rec.s, granted[b], half[b]),
           Arrive(r, rec), UNCHANGED <<session, half, granted>>
    PROVE  Inv'
  <1>1. req' = [req EXCEPT ![r] = rec] BY DEF Arrive
  <1>2. Functions' BY <1>1 DEF Inv, Functions
  <1>3. SessionsHonest' BY DEF Inv, SessionsHonest
  <1>4. RequestsHonest'
    <2> SUFFICES ASSUME NEW x \in Slot, req'[x] # Idle
                 PROVE  /\ req'[x].b \in Browser
                        /\ req'[x].kind \in Carrying =>
                             Honest(req'[x].s, granted[req'[x].b], half[req'[x].b])
      BY DEF RequestsHonest
    <2>1. CASE x = r
      <3>1. req'[x] = rec BY <1>1, <2>1 DEF Inv, Functions
      <3> QED BY <3>1
    <2>2. CASE x # r
      <3>1. req'[x] = req[x] BY <1>1, <2>2 DEF Inv, Functions
      <3> QED BY <3>1 DEF Inv, RequestsHonest
    <2> QED BY <2>1, <2>2
  <1> QED BY <1>2, <1>3, <1>4 DEF Inv

\* a request is answered and stores a session
LEMMA StoreStep ==
    ASSUME Inv, NEW r \in Slot, NEW b, b = req[r].b, req[r] # Idle, Answer(r),
           NEW s, SetData(b, s), NEW g, NEW h,
           granted' = [granted EXCEPT ![b] = g], half' = [half EXCEPT ![b] = h],
           granted[b] \subseteq g, half[b] \subseteq h, Honest(s, g, h)
    PROVE  Inv'
  <1>1. req' = [req EXCEPT ![r] = Idle] BY DEF Answer
  <1>2. session' = [session EXCEPT ![b] = s] BY DEF SetData
  <1>3. b \in Browser BY DEF Inv, RequestsHonest
  <1>4. Functions' BY <1>1, <1>2 DEF Inv, Functions
  <1>5. granted'[b] = g /\ half'[b] = h /\ session'[b] = s
    BY <1>2, <1>3 DEF Inv, Functions
  <1>6. ASSUME NEW c \in Browser, c # b
        PROVE  granted'[c] = granted[c] /\ half'[c] = half[c] /\ session'[c] = session[c]
    BY <1>2, <1>6 DEF Inv, Functions
  <1>7. ASSUME NEW c \in Browser
        PROVE  granted[c] \subseteq granted'[c] /\ half[c] \subseteq half'[c]
    BY <1>5, <1>6
  <1>8. SessionsHonest'
    <2> SUFFICES ASSUME NEW c \in Browser PROVE Honest(session'[c], granted'[c], half'[c])
      BY DEF SessionsHonest
    <2>1. CASE c = b BY <1>5, <2>1
    <2>2. CASE c # b BY <1>6, <2>2 DEF Inv, SessionsHonest
    <2> QED BY <2>1, <2>2
  <1>9. RequestsHonest'
    <2> SUFFICES ASSUME NEW x \in Slot, req'[x] # Idle
                 PROVE  /\ req'[x].b \in Browser
                        /\ req'[x].kind \in Carrying =>
                             Honest(req'[x].s, granted'[req'[x].b], half'[req'[x].b])
      BY DEF RequestsHonest
    <2>1. x # r BY <1>1 DEF Inv, Functions
    <2>2. req'[x] = req[x] BY <1>1, <2>1 DEF Inv, Functions
    <2>3. req[x].b \in Browser BY <2>2 DEF Inv, RequestsHonest
    <2>4. req[x].kind \in Carrying => Honest(req[x].s, granted[req[x].b], half[req[x].b])
      BY <2>2 DEF Inv, RequestsHonest
    <2> QED BY <1>7, <2>2, <2>3, <2>4, Growing
  <1> QED BY <1>4, <1>8, <1>9 DEF Inv

\* ... a session that claims no more than before
LEMMA StoreAsShown ==
    ASSUME Inv, NEW r \in Slot, req[r] # Idle, Answer(r), NEW s, SetData(req[r].b, s),
           UNCHANGED <<granted, half>>, Honest(s, granted[req[r].b], half[req[r].b])
    PROVE  Inv'
  <1> DEFINE b == req[r].b
  <1>1. granted' = [granted EXCEPT ![b] = granted[b]] /\ half' = [half EXCEPT ![b] = half[b]]
    BY DEF Inv, Functions
  <1> QED BY <1>1, StoreStep

\* a request is answered and stores nothing
LEMMA AnswerStep ==
    ASSUME Inv, NEW r \in Slot, Answer(r), UNCHANGED <<session, half, granted>>
    PROVE  Inv'
  <1>1. req' = [req EXCEPT ![r] = Idle] BY DEF Answer
  <1>2. Functions' BY <1>1 DEF Inv, Functions
  <1>3. SessionsHonest' BY DEF Inv, SessionsHonest
  <1>4. RequestsHonest'
    <2> SUFFICES ASSUME NEW x \in Slot, req'[x] # Idle
                 PROVE  /\ req'[x].b \in Browser
                        /\ req'[x].kind \in Carrying =>
                             Honest(req'[x].s, granted[req'[x].b], half[req'[x].b])
      BY DEF RequestsHonest
    <2>1. req'[x] = req[x] BY <1>1 DEF Inv, Functions
    <2> QED BY <2>1 DEF Inv, RequestsHonest
  <1> QED BY <1>2, <1>3, <1>4 DEF Inv

\* the first factor is shown: either it is the only one, or the code is asked for
LEMMA FirstFactorStep ==
    ASSUME Inv, NEW r \in Slot, req[r] # Idle, Answer(r), NEW row, NEW u,
           FirstFactorPassed(req[r].b, row, u)
    PROVE  Inv'
  <1> DEFINE b == req[r].b
             h == half[b] \union {u}
             g == IF AsksForCode(row) THEN granted[b] ELSE granted[b] \union {u}
  <1>1. b \in Browser BY DEF Inv, RequestsHonest
  <1>2. half' = [half EXCEPT ![b] = h] /\ granted' = [granted EXCEPT ![b] = g]
    BY DEF FirstFactorPassed
  <1>3. half[b] \subseteq h /\ granted[b] \subseteq g OBVIOUS
  <1>4. CASE NeedsTwoFactor(row)
    <2>1. SetData(b, [FreshSession EXCEPT !.pending = u])
      BY <1>4 DEF FirstFactorPassed, SetPendingTwoFactor
    <2>2. Honest([FreshSession EXCEPT !.pending = u], g, h) BY PendingIsHonest
    <2> HIDE DEF g, h
    <2> QED BY <1>2, <1>3, <2>1, <2>2, StoreStep
  <1>5. CASE ~ NeedsTwoFactor(row)
    <2>1. SetData(b, [FreshSession EXCEPT !.loggedIn = TRUE, !.admin = row.admin,
                                          !.user = u, !.provider = ""])
      BY <1>5 DEF FirstFactorPassed, SetAuthenticatedUser
    <2>2. ~ AsksForCode(row)
      BY <1>5 DEF NeedsTwoFactor, CanUseTotp, HasDatabaseSource, AsksForCode
    <2>3. u \in g BY <2>2
    <2> HIDE DEF g, h
    <2>4. Honest([FreshSession EXCEPT !.loggedIn = TRUE, !.admin = row.admin,
                                      !.user = u, !.provider = ""], g, h)
      BY <2>3, AuthenticatedIsHonest
    <2> QED BY <1>2, <1>3, <2>1, <2>4, StoreStep
  <1> QED BY <1>4, <1>5

---------------------------------------------------------------------------
(* Requests that arrive *)

LEMMA ArrivesKeep ==
    ASSUME Inv, NEW r \in Slot, NEW b \in Browser, Arrives(r, b) PROVE Inv'
  <1> DEFINE s == GetData(b)
  <1>1. Honest(s, granted[b], half[b]) BY DEF Inv, SessionsHonest, GetData
  <1>2. ASSUME NEW u \in User, LoginPost(r, b, u) PROVE Inv'
    <2>1. UNCHANGED <<session, half, granted>> BY <1>2 DEF LoginPost, history
    <2>2. PICK row : Arrive(r, [kind |-> "login", b |-> b, u |-> u, row |-> row])
      BY <1>2 DEF LoginPost
    <2> QED BY <2>1, <2>2, ArriveStep DEF Carrying
  <1>3. ASSUME NEW u \in User, WebAuthnLoginFinish(r, b, u) PROVE Inv'
    <2> DEFINE rec == [kind |-> "waFinish", b |-> b, u |-> u, s |-> s, row |-> users[u]]
    <2>1. UNCHANGED <<session, half, granted>> BY <1>3 DEF WebAuthnLoginFinish, data, history
    <2>2. Arrive(r, rec) BY <1>3 DEF WebAuthnLoginFinish
    <2>3. rec.b = b /\ rec.s = s OBVIOUS
    <2> HIDE DEF rec, s
    <2> QED BY <1>1, <2>1, <2>2, <2>3, ArriveStep
  <1>4. ASSUME NEW u \in User, OauthLoginStep2(r, b, u) PROVE Inv'
    <2>1. UNCHANGED <<session, half, granted>> BY <1>4 DEF OauthLoginStep2, history
    <2>2. PICK row : Arrive(r, [kind |-> "callback", b |-> b, u |-> u, row |-> row])
      BY <1>4 DEF OauthLoginStep2
    <2> QED BY <2>1, <2>2, ArriveStep DEF Carrying
  <1>5. CASE LogoutPost(r, b)
    <2>1. /\ session' = [session EXCEPT ![b] = FreshSession] /\ req' = req
          /\ half' = [half EXCEPT ![b] = IF Alone(r, b) THEN {} ELSE half[b]]
          /\ granted' = [granted EXCEPT ![b] = IF Alone(r, b) THEN {} ELSE granted[b]]
          /\ req[r] = Idle
      BY <1>5 DEF LogoutPost, DestroyData
    <2>2. Functions' BY <2>1 DEF Inv, Functions
    <2>3. session'[b] = FreshSession BY <2>1 DEF Inv, Functions
    <2>4. ASSUME NEW c \in Browser, c # b
          PROVE  granted'[c] = granted[c] /\ half'[c] = half[c] /\ session'[c] = session[c]
      BY <2>1, <2>4 DEF Inv, Functions
    <2>5. ~ Alone(r, b) => granted'[b] = granted[b] /\ half'[b] = half[b]
      BY <2>1 DEF Inv, Functions
    <2>6. SessionsHonest'
      <3> SUFFICES ASSUME NEW c \in Browser PROVE Honest(session'[c], granted'[c], half'[c])
        BY DEF SessionsHonest
      <3>1. CASE c = b BY <2>3, <3>1, FreshIsHonest
      <3>2. CASE c # b BY <2>4, <3>2 DEF Inv, SessionsHonest
      <3> QED BY <3>1, <3>2
    <2>7. RequestsHonest'
      <3> SUFFICES ASSUME NEW x \in Slot, req[x] # Idle
                   PROVE  /\ req[x].b \in Browser
                          /\ req[x].kind \in Carrying =>
                               Honest(req[x].s, granted'[req[x].b], half'[req[x].b])
        BY <2>1 DEF RequestsHonest
      <3>1. x # r BY <2>1
      <3>2. Alone(r, b) => req[x].b # b BY <3>1 DEF Alone
      <3>3. req[x].b \in Browser BY DEF Inv, RequestsHonest
      <3>4. req[x].kind \in Carrying => Honest(req[x].s, granted[req[x].b], half[req[x].b])
        BY DEF Inv, RequestsHonest
      <3>5. granted'[req[x].b] = granted[req[x].b] /\ half'[req[x].b] = half[req[x].b]
        BY <2>4, <2>5, <3>2, <3>3
      <3> QED BY <3>3, <3>4, <3>5
    <2> QED BY <2>2, <2>6, <2>7 DEF Inv
  <1>6. CASE LoginTotpPost(r, b)
    <2>1. UNCHANGED <<session, half, granted>> BY <1>6 DEF LoginTotpPost, data, history
    <2>2. PICK code, row, u :
            Arrive(r, [kind |-> "totp", b |-> b, u |-> u, row |-> row, code |-> code])
      BY <1>6 DEF LoginTotpPost
    <2> QED BY <2>1, <2>2, ArriveStep DEF Carrying
  <1>7. CASE TotpEnrollStart(r, b)
    <2> DEFINE t == [s EXCEPT !.secret = secrets + 1]
               rec == [kind |-> "enroll", b |-> b, s |-> t]
    <2>1. UNCHANGED <<session, half, granted>> BY <1>7 DEF TotpEnrollStart, data, history
    <2>2. Arrive(r, rec) BY <1>7 DEF TotpEnrollStart
    <2>3. Honest(t, granted[b], half[b]) BY <1>1, DataIsNoClaim
    <2>4. rec.b = b /\ rec.s = t OBVIOUS
    <2> HIDE DEF rec, t, s
    <2> QED BY <2>1, <2>2, <2>3, <2>4, ArriveStep
  <1>8. CASE TotpEnrollConfirm(r, b)
    <2> DEFINE rec == [kind |-> "confirm", b |-> b, u |-> s.user, s |-> s,
                       row |-> users[s.user]]
    <2>1. UNCHANGED <<session, half, granted>> BY <1>8 DEF TotpEnrollConfirm, data, history
    <2>2. Arrive(r, rec) BY <1>8 DEF TotpEnrollConfirm
    <2>3. rec.b = b /\ rec.s = s OBVIOUS
    <2> HIDE DEF rec, s
    <2> QED BY <1>1, <2>1, <2>2, <2>3, ArriveStep
  <1>9. CASE TotpDisablePost(r, b)
    <2> DEFINE rec == [kind |-> "disable", b |-> b, u |-> s.user, s |-> s,
                       row |-> users[s.user]]
    <2>1. UNCHANGED <<session, half, granted>> BY <1>9 DEF TotpDisablePost, data, history
    <2>2. Arrive(r, rec) BY <1>9 DEF TotpDisablePost
    <2>3. rec.b = b /\ rec.s = s OBVIOUS
    <2> HIDE DEF rec, s
    <2> QED BY <1>1, <2>1, <2>2, <2>3, ArriveStep
  <1>10. CASE WebAuthnRegisterStart(r, b)
    <2> DEFINE t == [s EXCEPT !.webAuthn = [kind |-> "register", user |-> s.user]]
               rec == [kind |-> "regStart", b |-> b, s |-> t]
    <2>1. UNCHANGED <<session, half, granted>> BY <1>10 DEF WebAuthnRegisterStart, history
    <2>2. Arrive(r, rec) BY <1>10 DEF WebAuthnRegisterStart
    <2>3. Honest(t, granted[b], half[b]) BY <1>1, DataIsNoClaim
    <2>4. rec.b = b /\ rec.s = t OBVIOUS
    <2> HIDE DEF rec, t, s
    <2> QED BY <2>1, <2>2, <2>3, <2>4, ArriveStep
  <1>11. CASE WebAuthnRegisterFinish(r, b)
    <2> DEFINE rec == [kind |-> "regFinish", b |-> b, u |-> s.user, s |-> s,
                       row |-> users[s.user]]
    <2>1. UNCHANGED <<session, half, granted>>
      BY <1>11 DEF WebAuthnRegisterFinish, data, history
    <2>2. Arrive(r, rec) BY <1>11 DEF WebAuthnRegisterFinish
    <2>3. rec.b = b /\ rec.s = s OBVIOUS
    <2> HIDE DEF rec, s
    <2> QED BY <1>1, <2>1, <2>2, <2>3, ArriveStep
  <1>12. CASE WebAuthnLoginStart(r, b)
    <2> DEFINE t == [s EXCEPT !.webAuthn = [kind |-> "login", user |-> Nobody]]
               rec == [kind |-> "waStart", b |-> b, s |-> t]
    <2>1. UNCHANGED <<session, half, granted>> BY <1>12 DEF WebAuthnLoginStart, data, history
    <2>2. Arrive(r, rec) BY <1>12 DEF WebAuthnLoginStart
    <2>3. Honest(t, granted[b], half[b]) BY <1>1, DataIsNoClaim
    <2>4. rec.b = b /\ rec.s = t OBVIOUS
    <2> HIDE DEF rec, t, s
    <2> QED BY <2>1, <2>2, <2>3, <2>4, ArriveStep
  <1>13. CASE WebAuthnCredentialsDelete(r, b)
    BY <1>13, KeepStep DEF WebAuthnCredentialsDelete
  <1>14. CASE OauthInitiate(r, b)
    <2> DEFINE t == [s EXCEPT !.state = TRUE]
               rec == [kind |-> "oauthInit", b |-> b, s |-> t]
    <2>1. UNCHANGED <<session, half, granted>> BY <1>14 DEF OauthInitiate, data, history
    <2>2. Arrive(r, rec) BY <1>14 DEF OauthInitiate
    <2>3. Honest(t, granted[b], half[b]) BY <1>1, DataIsNoClaim
    <2>4. rec.b = b /\ rec.s = t OBVIOUS
    <2> HIDE DEF rec, t, s
    <2> QED BY <2>1, <2>2, <2>3, <2>4, ArriveStep
  <1> QED BY <1>2, <1>3, <1>4, <1>5, <1>6, <1>7, <1>8, <1>9, <1>10, <1>11, <1>12, <1>13, <1>14
         DEF Arrives

---------------------------------------------------------------------------
(* Requests that are answered *)

LEMMA AnswersKeep == ASSUME Inv, NEW r \in Slot, Answers(r) PROVE Inv'
  <1> DEFINE q == req[r]
             g == granted[q.b]
             h == half[q.b]
  <1>1. /\ q # Idle => q.b \in Browser
        /\ q # Idle /\ q.kind \in Carrying => Honest(q.s, g, h)
    BY DEF Inv, RequestsHonest
  <1>2. q.kind # "idle" => q # Idle BY DEF Idle
  <1>3. CASE LoginPostAnswer(r)
    <2>1. q # Idle /\ Answer(r) /\ FirstFactorPassed(q.b, q.row, q.u)
      BY <1>2, <1>3 DEF LoginPostAnswer
    <2> QED BY <2>1, FirstFactorStep
  <1>4. CASE LoginTotpAnswer(r)
    <2> DEFINE row == Consumed(q.row, q.code)
    <2>1. q # Idle /\ Answer(r) BY <1>2, <1>4 DEF LoginTotpAnswer
    <2>2. CASE UNCHANGED <<session, half, granted>> BY <2>1, <2>2, AnswerStep
    <2>3. CASE /\ SetAuthenticatedUser(q.b, row, q.u, "")
               /\ granted' = [granted EXCEPT ![q.b] = @ \union {q.u}]
               /\ UNCHANGED half
      <3> DEFINE s == [FreshSession EXCEPT !.loggedIn = TRUE, !.admin = row.admin,
                                           !.user = q.u, !.provider = ""]
                 g2 == g \union {q.u}
      <3>1. SetData(q.b, s) BY <2>3 DEF SetAuthenticatedUser
      <3>2. Honest(s, g2, h) BY AuthenticatedIsHonest
      <3>3. granted' = [granted EXCEPT ![q.b] = g2] /\ g \subseteq g2 BY <2>3
      <3>4. half' = [half EXCEPT ![q.b] = h] BY <2>3 DEF Inv, Functions
      <3> HIDE DEF s, g2
      <3> QED BY <2>1, <3>1, <3>2, <3>3, <3>4, StoreStep
    <2> QED BY <1>4, <2>2, <2>3 DEF LoginTotpAnswer
  <1>5. CASE TotpEnrollStartAnswer(r)
    <2>1. q # Idle /\ q.kind \in Carrying /\ Answer(r) /\ SetData(q.b, q.s)
      BY <1>2, <1>5 DEF TotpEnrollStartAnswer, Carrying
    <2> QED BY <1>1, <1>5, <2>1, StoreAsShown DEF TotpEnrollStartAnswer, history
  <1>6. CASE TotpEnrollConfirmAnswer(r)
    <2>1. q # Idle /\ q.kind \in Carrying /\ Answer(r) /\ UNCHANGED <<half, granted>>
      BY <1>2, <1>6 DEF TotpEnrollConfirmAnswer, Carrying
    <2>2. CASE UNCHANGED session BY <2>1, <2>2, AnswerStep
    <2>3. CASE SetData(q.b, [q.s EXCEPT !.secret = 0])
      <3>1. Honest([q.s EXCEPT !.secret = 0], g, h) BY <1>1, <2>1, DataIsNoClaim
      <3> QED BY <2>1, <2>3, <3>1, StoreAsShown
    <2> QED BY <1>6, <2>2, <2>3 DEF TotpEnrollConfirmAnswer
  <1>7. CASE TotpDisableAnswer(r)
    BY <1>7, AnswerStep DEF TotpDisableAnswer
  <1>8. CASE WebAuthnStartAnswer(r)
    <2>1. q # Idle /\ q.kind \in Carrying /\ Answer(r) /\ SetData(q.b, q.s)
      BY <1>2, <1>8 DEF WebAuthnStartAnswer, Carrying
    <2> QED BY <1>1, <1>8, <2>1, StoreAsShown DEF WebAuthnStartAnswer, history
  <1>9. CASE WebAuthnRegisterAnswer(r)
    <2>1. /\ q # Idle /\ q.kind \in Carrying /\ Answer(r) /\ UNCHANGED <<half, granted>>
          /\ SetData(q.b, [q.s EXCEPT !.webAuthn = NoData])
      BY <1>2, <1>9 DEF WebAuthnRegisterAnswer, Carrying
    <2>2. Honest([q.s EXCEPT !.webAuthn = NoData], g, h) BY <1>1, <2>1, DataIsNoClaim
    <2> QED BY <2>1, <2>2, StoreAsShown
  <1>10. CASE WebAuthnLoginAnswer(r)
    <2>1. q # Idle /\ q.kind \in Carrying /\ Answer(r)
      BY <1>2, <1>10 DEF WebAuthnLoginAnswer, Carrying
    <2>2. CASE FirstFactorPassed(q.b, q.row, q.u) BY <2>1, <2>2, FirstFactorStep
    <2>3. CASE SetData(q.b, [q.s EXCEPT !.webAuthn = NoData]) /\ UNCHANGED <<half, granted>>
      <3>1. Honest([q.s EXCEPT !.webAuthn = NoData], g, h) BY <1>1, <2>1, DataIsNoClaim
      <3> QED BY <2>1, <2>3, <3>1, StoreAsShown
    <2> QED BY <1>10, <2>2, <2>3 DEF WebAuthnLoginAnswer
  <1>11. CASE OauthInitiateAnswer(r)
    <2>1. q # Idle /\ q.kind \in Carrying /\ Answer(r) /\ SetData(q.b, q.s)
      BY <1>2, <1>11 DEF OauthInitiateAnswer, Carrying
    <2> QED BY <1>1, <1>11, <2>1, StoreAsShown DEF OauthInitiateAnswer, history
  <1>12. CASE OauthCallbackAnswer(r)
    <2> DEFINE s == [FreshSession EXCEPT !.loggedIn = TRUE, !.admin = q.row.admin,
                                         !.user = q.u, !.provider = "oauth"]
    <2>1. q # Idle /\ Answer(r) /\ SetData(q.b, s) /\ UNCHANGED <<half, granted>>
      BY <1>2, <1>12 DEF OauthCallbackAnswer, SetAuthenticatedUser, history
    <2>2. Honest(s, g, h) BY AuthenticatedIsHonest
    <2> HIDE DEF s
    <2> QED BY <2>1, <2>2, StoreAsShown
  <1> QED BY <1>3, <1>4, <1>5, <1>6, <1>7, <1>8, <1>9, <1>10, <1>11, <1>12 DEF Answers

---------------------------------------------------------------------------
(* Everything else *)

LEMMA InitHolds == Init => Inv
  <1> SUFFICES ASSUME Init PROVE Inv OBVIOUS
  <1>1. Functions BY DEF Init, Functions
  <1>2. SessionsHonest
    <2> SUFFICES ASSUME NEW b \in Browser PROVE Honest(session[b], granted[b], half[b])
      BY DEF SessionsHonest
    <2>1. /\ session[b] \in InitialSession
          /\ half[b] = {session[b].pending} \ {Nobody}
          /\ granted[b] = {session[b].user} \ {Nobody}
      BY DEF Init
    <2>2. CASE session[b] = FreshSession BY <2>2, FreshIsHonest
    <2>3. ASSUME NEW u \in User,
                 session[b] = [FreshSession EXCEPT !.loggedIn = TRUE, !.user = u]
          PROVE  Honest(session[b], granted[b], half[b])
      <3> DEFINE s == [FreshSession EXCEPT !.loggedIn = TRUE, !.admin = FALSE,
                                           !.user = u, !.provider = ""]
      <3>1. session[b] = s BY <2>3 DEF FreshSession
      <3>2. s.user = u BY DEF FreshSession
      <3>3. u \in granted[b] BY <2>1, <3>1, <3>2, NobodyAssumption
      <3>4. Honest(s, granted[b], half[b]) BY <3>3, AuthenticatedIsHonest
      <3> QED BY <3>1, <3>4
    <2>4. ASSUME NEW u \in User, session[b] = [FreshSession EXCEPT !.pending = u]
          PROVE  Honest(session[b], granted[b], half[b])
      <3>1. session[b].pending = u BY <2>4 DEF FreshSession
      <3>2. u \in half[b] BY <2>1, <3>1, NobodyAssumption
      <3> QED BY <2>4, <3>2, PendingIsHonest
    <2> QED BY <2>1, <2>2, <2>3, <2>4 DEF InitialSession
  <1>3. RequestsHonest BY DEF Init, RequestsHonest
  <1> QED BY <1>1, <1>2, <1>3 DEF Inv

LEMMA StepHolds == Inv /\ [Next]_vars => Inv'
  <1> SUFFICES ASSUME Inv, [Next]_vars PROVE Inv' OBVIOUS
  <1>1. ASSUME NEW r \in Slot, Answers(r) PROVE Inv' BY <1>1, AnswersKeep
  <1>2. ASSUME NEW r \in Slot, NEW b \in Browser, Arrives(r, b) PROVE Inv' BY <1>2, ArrivesKeep
  <1>3. ASSUME NEW b \in Browser, SessionNoLongerAvailable(b) PROVE Inv'
    <2>1. session' = [session EXCEPT ![b] = FreshSession] /\ UNCHANGED <<req, half, granted>>
      BY <1>3 DEF SessionNoLongerAvailable, DestroyData, history
    <2>2. Functions' BY <2>1 DEF Inv, Functions
    <2>3. SessionsHonest'
      <3> SUFFICES ASSUME NEW c \in Browser PROVE Honest(session'[c], granted[c], half[c])
        BY <2>1 DEF SessionsHonest
      <3>1. session'[c] = IF c = b THEN FreshSession ELSE session[c]
        BY <2>1 DEF Inv, Functions
      <3> QED BY <3>1, FreshIsHonest DEF Inv, SessionsHonest
    <2>4. RequestsHonest' BY <2>1 DEF Inv, RequestsHonest
    <2> QED BY <2>2, <2>3, <2>4 DEF Inv
  <1>4. CASE SetupExternalAuthProviders
    BY <1>4, KeepStep DEF SetupExternalAuthProviders, data, history
  <1>5. CASE CleanupLoop BY <1>5, KeepStep DEF CleanupLoop, history
  <1>6. CASE Tick BY <1>6, KeepStep DEF Tick, data
  <1>7. CASE Restart
    <2>1. /\ session' = [b \in Browser |-> FreshSession] /\ req' = [r \in Slot |-> Idle]
          /\ half' = [b \in Browser |-> {}] /\ granted' = [b \in Browser |-> {}]
      BY <1>7 DEF Restart
    <2>2. Functions' BY <2>1 DEF Functions
    <2>3. SessionsHonest' BY <2>1, FreshIsHonest DEF SessionsHonest
    <2>4. RequestsHonest' BY <2>1 DEF RequestsHonest
    <2> QED BY <2>2, <2>3, <2>4 DEF Inv
  <1>8. ASSUME NEW u \in User, AdminEdits(u) PROVE Inv'
    BY <1>8, KeepStep DEF AdminEdits, history
  <1>9. CASE UNCHANGED vars BY <1>9, KeepStep DEF vars, data, history
  <1> QED BY <1>1, <1>2, <1>3, <1>4, <1>5, <1>6, <1>7, <1>8, <1>9 DEF Next

\* The inductive invariant: every session, stored or carried by a request under
\* way, claims no more than its browser has shown.
THEOREM Invariance == Spec => []Inv
  <1> QED BY InitHolds, StepHolds, PTL DEF Spec

\* Nobody is logged in without every factor that was asked of him, however the
\* requests of his browser overlap (endpoint_authentication.go, web_session.go).
THEOREM SecondFactor == Spec => []SecondFactorKept
  <1>1. Inv => SecondFactorKept
    BY DEF Inv, SessionsHonest, Honest, Shown, SecondFactorKept
  <1> QED BY <1>1, Invariance, PTL

---------------------------------------------------------------------------
(* The limit of attempts.  Everything the limiter knows of the failures    *)
(* since the last lockout is compared with the history, from the last one  *)
(* backwards.                                                              *)

\* times in the order in which they were recorded
Times(s, now) ==
    /\ s \in Seq(Nat)
    /\ \A i, j \in 1 .. Len(s) : i <= j => s[i] <= s[j]
    /\ \A i \in 1 .. Len(s) : s[i] <= now

\* the limiter has counted every failure of the window after a lockout
Counts(f, g, till) ==
    \A i \in 0 .. Len(g) - 1 :
        g[Len(g) - i] + Window > till => i < Len(f) /\ f[Len(f) - i] = g[Len(g) - i]

\* attempts of the user that were let in and are not judged yet
LetIn(u) == {r \in Slot : req[r].kind = "totp" /\ req[r].u = u}

EntryHolds(e, g, now) ==
    /\ e = [failures |-> e.failures, lockedTill |-> e.lockedTill]
    /\ Times(e.failures, now) /\ e.lockedTill \in Nat
    /\ Times(g, now) /\ \A i \in 1 .. Len(g) : g[i] + Window > now
    /\ Len(e.failures) < MaxAttempts
    /\ Counts(e.failures, g, e.lockedTill)

LimitInv ==
    /\ limiter = [u \in User |-> limiter[u]] /\ failed = [u \in User |-> failed[u]]
    /\ req = [r \in Slot |-> req[r]] /\ clock \in Nat
    /\ \A u \in User :
          /\ EntryHolds(limiter[u], failed[u], clock)
          /\ Len(failed[u]) + Cardinality(LetIn(u)) < MaxAttempts + Cardinality(Slot)

\* the old times of a sequence are its first ones
LEMMA OldFirst ==
    ASSUME NEW now \in Nat, NEW s, Times(s, now), NEW n \in Nat
    PROVE  /\ Cardinality(Old(s, n)) \in 0 .. Len(s)
           /\ \A j \in 1 .. Len(s) : s[j] + Window > n <=> j > Cardinality(Old(s, n))
  <1> DEFINE k == Cardinality(Old(s, n))
  <1>1. s \in Seq(Nat) /\ Len(s) \in Nat /\ DOMAIN s = 1 .. Len(s) BY DEF Times
  <1>2. Old(s, n) \subseteq 1 .. Len(s) BY <1>1 DEF Old
  <1>3. IsFiniteSet(1 .. Len(s)) /\ Cardinality(1 .. Len(s)) = Len(s)
    <2>1. ASSUME NEW m \in Nat PROVE IsFiniteSet(1 .. m) /\ Cardinality(1 .. m) = m
      BY FS_Interval
    <2> QED BY <1>1, <2>1
  <1>4. IsFiniteSet(Old(s, n)) /\ k <= Len(s) BY <1>2, <1>3, FS_Subset
  <1>5. k \in 0 .. Len(s) BY <1>1, <1>4, FS_CardinalityType
  <1>6. ASSUME NEW j \in 1 .. Len(s), s[j] + Window > n PROVE j > k
    <2>1. ASSUME NEW i \in Old(s, n) PROVE i \in 1 .. j - 1
      <3>1. i \in 1 .. Len(s) /\ s[i] + Window <= n BY <1>2, <2>1 DEF Old
      <3>2. s[i] \in Nat /\ s[j] \in Nat /\ Window \in Nat
        BY <1>1, <3>1, WebLoginAssumption
      <3>3. ~ (j <= i)
        <4>1. SUFFICES ASSUME j <= i PROVE FALSE OBVIOUS
        <4>2. s[j] <= s[i] BY <3>1, <4>1 DEF Times
        <4> QED BY <1>6, <3>1, <3>2, <4>2
      <3> QED BY <3>1, <3>3
    <2>2. IsFiniteSet(1 .. j - 1) /\ Cardinality(1 .. j - 1) = j - 1 BY FS_Interval
    <2>3. k <= j - 1 BY <2>1, <2>2, FS_Subset
    <2> QED BY <1>5, <2>3
  <1>7. ASSUME NEW j \in 1 .. Len(s), ~ (s[j] + Window > n) PROVE j <= k
    <2>1. ASSUME NEW i \in 1 .. j PROVE i \in Old(s, n)
      <3>1. i \in 1 .. Len(s) /\ i <= j BY <1>1
      <3>2. s[i] \in Nat /\ s[j] \in Nat /\ Window \in Nat
        BY <1>1, <3>1, WebLoginAssumption
      <3>3. s[i] <= s[j] BY <3>1 DEF Times
      <3> QED BY <1>1, <1>7, <3>1, <3>2, <3>3 DEF Old
    <2>2. Cardinality(1 .. j) = j BY FS_Interval
    <2>3. Cardinality(1 .. j) <= k BY <1>4, <2>1, FS_Subset
    <2> QED BY <2>2, <2>3
  <1> QED BY <1>5, <1>6, <1>7

\* what is left of them, counted from the end
LEMMA RecentTimes ==
    ASSUME NEW now \in Nat, NEW s, Times(s, now), NEW n \in Nat
    PROVE  /\ Times(Recent(s, n), now) /\ Len(Recent(s, n)) <= Len(s)
           /\ \A i \in 1 .. Len(Recent(s, n)) : Recent(s, n)[i] + Window > n
           /\ \A i \in 0 .. Len(s) - 1 :
                s[Len(s) - i] + Window > n <=> i < Len(Recent(s, n))
           /\ \A i \in 0 .. Len(Recent(s, n)) - 1 :
                Recent(s, n)[Len(Recent(s, n)) - i] = s[Len(s) - i]
  <1> DEFINE k == Cardinality(Old(s, n))
             t == Recent(s, n)
  <1>1. s \in Seq(Nat) /\ Len(s) \in Nat BY DEF Times
  <1>2. k \in 0 .. Len(s) BY OldFirst
  <1>3. \A j \in 1 .. Len(s) : s[j] + Window > n <=> j > k BY OldFirst
  <1>4. t = SubSeq(s, k + 1, Len(s)) BY DEF Recent
  <1> HIDE DEF k, t
  <1>5. /\ t \in Seq(Nat) /\ Len(t) = Len(s) - k
        /\ \A i \in 1 .. Len(t) : t[i] = s[i + k]
    <2>1. k + 1 \in Int /\ Len(s) \in Int /\ \A i \in k + 1 .. Len(s) : s[i] \in Nat
      BY <1>1, <1>2
    <2>2. /\ t \in Seq(Nat)
          /\ Len(t) = IF k + 1 <= Len(s) THEN Len(s) - (k + 1) + 1 ELSE 0
          /\ \A i \in 1 .. Len(s) - (k + 1) + 1 : t[i] = s[k + 1 + i - 1]
      BY <1>4, <2>1, SubSeqProperties
    <2>3. Len(t) = Len(s) - k BY <1>1, <1>2, <2>2
    <2>4. ASSUME NEW i \in 1 .. Len(t) PROVE t[i] = s[i + k]
      <3>1. i \in 1 .. Len(s) - (k + 1) + 1 /\ k + 1 + i - 1 = i + k BY <1>1, <1>2, <2>3
      <3> QED BY <2>2, <3>1
    <2> QED BY <2>2, <2>3, <2>4
  <1>6. \A i \in 1 .. Len(t) : i + k \in 1 .. Len(s) /\ i + k > k BY <1>1, <1>2, <1>5
  <1>7. Times(t, now)
    <2>1. ASSUME NEW i \in 1 .. Len(t), NEW j \in 1 .. Len(t), i <= j PROVE t[i] <= t[j]
      <3>1. i + k \in 1 .. Len(s) /\ j + k \in 1 .. Len(s) BY <1>6
      <3>2. i + k <= j + k BY <1>2, <2>1
      <3>3. s[i + k] <= s[j + k] BY <3>1, <3>2 DEF Times
      <3> QED BY <1>5, <3>3
    <2>2. ASSUME NEW i \in 1 .. Len(t) PROVE t[i] <= now BY <1>5, <1>6 DEF Times
    <2> QED BY <1>5, <2>1, <2>2 DEF Times
  <1>8. \A i \in 1 .. Len(t) : t[i] + Window > n BY <1>3, <1>5, <1>6
  <1>9. ASSUME NEW i \in 0 .. Len(s) - 1
        PROVE  s[Len(s) - i] + Window > n <=> i < Len(t)
    <2>1. Len(s) - i \in 1 .. Len(s) BY <1>1
    <2>2. s[Len(s) - i] + Window > n <=> Len(s) - i > k BY <1>3, <2>1
    <2> QED BY <1>1, <1>2, <1>5, <2>2
  <1>10. ASSUME NEW i \in 0 .. Len(t) - 1 PROVE t[Len(t) - i] = s[Len(s) - i]
    <2>1. Len(t) \in Nat /\ Len(t) = Len(s) - k BY <1>1, <1>2, <1>5
    <2>2. Len(t) - i \in 1 .. Len(t) BY <2>1
    <2>3. Len(t) - i + k = Len(s) - i BY <1>1, <1>2, <2>1
    <2> QED BY <1>5, <2>2, <2>3
  <1>11. Len(t) <= Len(s) BY <1>1, <1>2, <1>5
  <1> QED BY <1>7, <1>8, <1>9, <1>10, <1>11 DEF t

LEMMA AppendTimes ==
    ASSUME NEW now \in Nat, NEW s, Times(s, now)
    PROVE  /\ Times(Append(s, now), now) /\ Len(Append(s, now)) = Len(s) + 1
           /\ Append(s, now)[Len(s) + 1] = now
           /\ \A i \in 1 .. Len(s) : Append(s, now)[i] = s[i]
  <1> DEFINE t == Append(s, now)
  <1>1. s \in Seq(Nat) /\ Len(s) \in Nat BY DEF Times
  <1>2. /\ t \in Seq(Nat) /\ Len(t) = Len(s) + 1 /\ t[Len(s) + 1] = now
        /\ \A i \in 1 .. Len(s) : t[i] = s[i]
    BY <1>1
  <1> HIDE DEF t
  <1>3. ASSUME NEW i \in 1 .. Len(t) PROVE t[i] <= now /\ t[i] \in Nat
    BY <1>1, <1>2 DEF Times
  <1>4. ASSUME NEW i \in 1 .. Len(t), NEW j \in 1 .. Len(t), i <= j PROVE t[i] <= t[j]
    <2>1. CASE j = Len(s) + 1 BY <1>2, <1>3, <2>1
    <2>2. CASE j # Len(s) + 1
      <3>1. i \in 1 .. Len(s) /\ j \in 1 .. Len(s) BY <1>1, <1>2, <1>4, <2>2
      <3>2. s[i] <= s[j] BY <1>4, <3>1 DEF Times
      <3> QED BY <1>2, <3>1, <3>2
    <2> QED BY <2>1, <2>2
  <1>5. Times(t, now) BY <1>2, <1>3, <1>4 DEF Times
  <1> QED BY <1>2, <1>5 DEF t

\* nothing is counted, and nothing has failed
LEMMA NothingCounted == ASSUME NEW now \in Nat PROVE EntryHolds(NoEntry, <<>>, now)
  <1>1. NoEntry.failures = <<>> /\ NoEntry.lockedTill = 0 BY DEF NoEntry
  <1>2. NoEntry = [failures |-> NoEntry.failures, lockedTill |-> NoEntry.lockedTill]
    BY DEF NoEntry
  <1>3. Times(<<>>, now) /\ Len(<<>>) = 0 BY DEF Times
  <1>4. Counts(<<>>, <<>>, 0) BY DEF Counts
  <1> QED BY <1>1, <1>2, <1>3, <1>4, WebLoginAssumption DEF EntryHolds

\* a failure is recorded (recordFailure)
LEMMA RecordCounts ==
    ASSUME NEW now \in Nat, NEW e, NEW g, EntryHolds(e, g, now),
           NEW fs, fs = Append(Recent(e.failures, now), now)
    PROVE  /\ EntryHolds(IF Len(fs) >= MaxAttempts
                         THEN [failures |-> <<>>, lockedTill |-> now + Window]
                         ELSE [e EXCEPT !.failures = fs], Append(g, now), now)
           /\ Len(Append(g, now)) = Len(g) + 1
  <1> DEFINE f == e.failures
             r == Recent(f, now)
             g2 == Append(g, now)
  <1>1. Window \in Nat /\ Window > 0 /\ MaxAttempts \in Nat /\ MaxAttempts > 0
    BY WebLoginAssumption
  <1>2. Times(f, now) /\ Times(g, now) BY DEF EntryHolds
  <1>3. Len(f) \in Nat /\ Len(g) \in Nat /\ g \in Seq(Nat) BY <1>2 DEF Times
  <1>4. /\ Times(g2, now) /\ Len(g2) = Len(g) + 1 /\ g2[Len(g) + 1] = now
        /\ \A i \in 1 .. Len(g) : g2[i] = g[i]
    BY <1>2, AppendTimes
  <1>5. /\ Times(r, now)
        /\ \A i \in 0 .. Len(f) - 1 : f[Len(f) - i] + Window > now <=> i < Len(r)
        /\ \A i \in 0 .. Len(r) - 1 : r[Len(r) - i] = f[Len(f) - i]
    BY <1>2, RecentTimes
  <1>6. /\ Times(fs, now) /\ Len(fs) = Len(r) + 1 /\ fs[Len(r) + 1] = now
        /\ \A i \in 1 .. Len(r) : fs[i] = r[i]
    BY <1>5, AppendTimes
  <1>7. Len(r) \in Nat BY <1>5 DEF Times
  <1> HIDE DEF r, g2
  <1>8. \A i \in 1 .. Len(g2) : g2[i] + Window > now
    <2>1. \A i \in 1 .. Len(g) : g[i] + Window > now BY DEF EntryHolds
    <2>2. SUFFICES ASSUME NEW i \in 1 .. Len(g2) PROVE g2[i] + Window > now OBVIOUS
    <2>3. CASE i = Len(g) + 1 BY <1>1, <1>4, <2>3
    <2>4. CASE i # Len(g) + 1
      <3>1. i \in 1 .. Len(g) BY <1>3, <1>4, <2>4
      <3> QED BY <1>4, <2>1, <3>1
    <2> QED BY <2>3, <2>4
  <1>9. CASE Len(fs) >= MaxAttempts
    <2> DEFINE e2 == [failures |-> <<>>, lockedTill |-> now + Window]
    <2>1. e2.failures = <<>> /\ e2.lockedTill = now + Window OBVIOUS
    <2>2. e2 = [failures |-> e2.failures, lockedTill |-> e2.lockedTill] OBVIOUS
    <2> HIDE DEF e2
    <2>3. Times(<<>>, now) /\ Len(<<>>) = 0 BY DEF Times
    <2>4. \A i \in 1 .. Len(g2) : g2[i] \in Nat /\ g2[i] <= now BY <1>4 DEF Times
    <2>5. ASSUME NEW i \in 0 .. Len(g2) - 1
          PROVE  ~ (g2[Len(g2) - i] + Window > now + Window)
      <3>1. Len(g2) \in Nat BY <1>3, <1>4
      <3>2. Len(g2) - i \in 1 .. Len(g2) BY <3>1
      <3> QED BY <1>1, <2>4, <3>2
    <2>6. Counts(<<>>, g2, now + Window) BY <2>5 DEF Counts
    <2>7. EntryHolds(e2, g2, now)
      BY <1>1, <1>4, <1>8, <2>1, <2>2, <2>3, <2>6 DEF EntryHolds
    <2> QED BY <1>4, <1>9, <2>7 DEF e2, g2
  <1>10. CASE ~ (Len(fs) >= MaxAttempts)
    <2> DEFINE e2 == [e EXCEPT !.failures = fs]
               till == e.lockedTill
    <2>1. e = [failures |-> f, lockedTill |-> till] /\ till \in Nat BY DEF EntryHolds
    <2>2. e2 = [failures |-> fs, lockedTill |-> till] BY <2>1
    <2> HIDE DEF e2
    <2>3. e2.failures = fs /\ e2.lockedTill = till BY <2>2
    <2>4. Counts(f, g, till) BY DEF EntryHolds
    <2>5. Counts(fs, g2, till)
      <3> SUFFICES ASSUME NEW i \in 0 .. Len(g2) - 1, g2[Len(g2) - i] + Window > till
                   PROVE  i < Len(fs) /\ fs[Len(fs) - i] = g2[Len(g2) - i]
        BY DEF Counts
      <3>1. CASE i = 0 BY <1>3, <1>4, <1>6, <1>7, <3>1
      <3>2. CASE i # 0
        <4> DEFINE j == i - 1
        <4>1. j \in 0 .. Len(g) - 1 /\ Len(g2) - i = Len(g) - j /\ Len(g) - j \in 1 .. Len(g)
          BY <1>3, <1>4, <3>2
        <4>2. g2[Len(g2) - i] = g[Len(g) - j] BY <1>4, <4>1
        <4>3. j < Len(f) /\ f[Len(f) - j] = g[Len(g) - j] BY <2>4, <4>1, <4>2 DEF Counts
        <4>4. g[Len(g) - j] + Window > now BY <4>1 DEF EntryHolds
        <4>5. j \in 0 .. Len(f) - 1 BY <1>3, <4>1, <4>3
        <4>6. j < Len(r) BY <1>5, <4>3, <4>4, <4>5
        <4>7. r[Len(r) - j] = f[Len(f) - j]
          <5>1. j \in 0 .. Len(r) - 1 BY <1>7, <4>1, <4>6
          <5> QED BY <1>5, <5>1
        <4>8. i < Len(fs) /\ Len(fs) - i = Len(r) - j /\ Len(r) - j \in 1 .. Len(r)
          BY <1>6, <1>7, <4>1, <4>6
        <4> QED BY <1>6, <4>2, <4>3, <4>7, <4>8
      <3> QED BY <3>1, <3>2
    <2>6. Len(fs) < MaxAttempts BY <1>1, <1>6, <1>7, <1>10
    <2>7. EntryHolds(e2, g2, now)
      BY <1>4, <1>6, <1>8, <2>1, <2>2, <2>3, <2>5, <2>6 DEF EntryHolds
    <2> QED BY <1>4, <1>10, <2>7 DEF e2, g2
  <1> QED BY <1>9, <1>10

\* a period passes, and failures leave the window
LEMMA TickCounts ==
    ASSUME NEW now \in Nat, NEW e, NEW g, EntryHolds(e, g, now)
    PROVE  EntryHolds(e, Recent(g, now + 1), now + 1) /\ Len(Recent(g, now + 1)) <= Len(g)
  <1> DEFINE f == e.failures
             r == Recent(g, now + 1)
  <1>1. Times(f, now) /\ Times(g, now) BY DEF EntryHolds
  <1>2. now + 1 \in Nat OBVIOUS
  <1>3. /\ Times(r, now) /\ Len(r) <= Len(g)
        /\ \A i \in 1 .. Len(r) : r[i] + Window > now + 1
        /\ \A i \in 0 .. Len(r) - 1 : r[Len(r) - i] = g[Len(g) - i]
    BY <1>1, <1>2, RecentTimes
  <1>4. Len(g) \in Nat /\ Len(r) \in Nat BY <1>1, <1>3 DEF Times
  <1> HIDE DEF r
  <1>5. ASSUME NEW s, Times(s, now) PROVE Times(s, now + 1) BY <1>5 DEF Times
  <1>6. Counts(f, r, e.lockedTill)
    <2> SUFFICES ASSUME NEW i \in 0 .. Len(r) - 1, r[Len(r) - i] + Window > e.lockedTill
                 PROVE  i < Len(f) /\ f[Len(f) - i] = r[Len(r) - i]
      BY DEF Counts
    <2>1. i \in 0 .. Len(g) - 1 /\ r[Len(r) - i] = g[Len(g) - i] BY <1>3, <1>4
    <2>2. Counts(f, g, e.lockedTill) BY DEF EntryHolds
    <2> QED BY <2>1, <2>2 DEF Counts
  <1>7. EntryHolds(e, r, now + 1) BY <1>1, <1>3, <1>5, <1>6 DEF EntryHolds
  <1> QED BY <1>3, <1>7 DEF r

\* an entry is dropped only when no failure is left in the window (cleanupLoop)
LEMMA CleanupCounts ==
    ASSUME NEW now \in Nat, NEW e, NEW g, EntryHolds(e, g, now),
           now > e.lockedTill, Recent(e.failures, now) = <<>>
    PROVE  EntryHolds(NoEntry, g, now)
  <1> DEFINE f == e.failures
  <1>1. Times(f, now) /\ Times(g, now) /\ e.lockedTill \in Nat BY DEF EntryHolds
  <1>2. g \in Seq(Nat) /\ Len(g) \in Nat /\ Len(f) \in Nat /\ Window \in Nat
    BY <1>1, WebLoginAssumption DEF Times
  <1>3. \A i \in 0 .. Len(f) - 1 : f[Len(f) - i] + Window > now <=> i < 0
    <2>1. Len(Recent(f, now)) = 0 OBVIOUS
    <2> QED BY <1>1, <2>1, RecentTimes
  <1>4. Len(g) = 0
    <2>1. SUFFICES ASSUME Len(g) # 0 PROVE FALSE OBVIOUS
    <2>2. 0 \in 0 .. Len(g) - 1 /\ Len(g) \in 1 .. Len(g) /\ Len(g) - 0 = Len(g)
      BY <1>2, <2>1
    <2>3. g[Len(g)] \in Nat /\ g[Len(g)] + Window > now BY <1>2, <2>2 DEF EntryHolds
    <2>4. g[Len(g)] + Window > e.lockedTill BY <1>1, <1>2, <2>3
    <2>5. 0 < Len(f) /\ f[Len(f) - 0] = g[Len(g) - 0]
      BY <2>2, <2>4 DEF EntryHolds, Counts
    <2>6. 0 \in 0 .. Len(f) - 1 BY <1>2, <2>5
    <2> QED BY <1>3, <2>2, <2>3, <2>5, <2>6
  <1>5. g = <<>> BY <1>2, <1>4
  <1> QED BY <1>5, NothingCounted

\* a step that counts nothing, lets no attempt in, and may answer one
LEMMA LimitKept ==
    ASSUME LimitInv, UNCHANGED <<limiter, failed, clock>>,
           req' = [r \in Slot |-> req'[r]],
           \A r \in Slot : req'[r].kind = "totp" => req'[r] = req[r]
    PROVE  LimitInv'
  <1>1. ASSUME NEW u \in User
        PROVE  Len(failed[u]) + Cardinality(LetIn(u)') < MaxAttempts + Cardinality(Slot)
    <2>1. LetIn(u) \subseteq Slot /\ LetIn(u)' \subseteq LetIn(u) BY DEF LetIn
    <2>2. IsFiniteSet(LetIn(u)) BY <2>1, WebLoginAssumption, FS_Subset
    <2>3. Cardinality(LetIn(u)') <= Cardinality(LetIn(u)) /\ IsFiniteSet(LetIn(u)')
      BY <2>1, <2>2, FS_Subset
    <2>4. Cardinality(LetIn(u)) \in Nat /\ Cardinality(LetIn(u)') \in Nat
          /\ Cardinality(Slot) \in Nat
      BY <2>2, <2>3, FS_CardinalityType, WebLoginAssumption
    <2>5. Len(failed[u]) \in Nat BY DEF LimitInv, EntryHolds, Times
    <2>6. Len(failed[u]) + Cardinality(LetIn(u)) < MaxAttempts + Cardinality(Slot)
      BY DEF LimitInv
    <2> QED BY <2>3, <2>4, <2>5, <2>6, WebLoginAssumption
  <1> QED BY <1>1 DEF LimitInv

LEMMA LimitArrive ==
    ASSUME LimitInv, NEW r \in Slot, NEW rec, rec.kind # "totp", Arrive(r, rec),
           UNCHANGED <<limiter, failed, clock>>
    PROVE  LimitInv'
  <1>1. req' = [req EXCEPT ![r] = rec] BY DEF Arrive
  <1>2. req' = [x \in Slot |-> req'[x]] BY <1>1 DEF LimitInv
  <1>3. ASSUME NEW x \in Slot, req'[x].kind = "totp" PROVE req'[x] = req[x]
    BY <1>1, <1>3 DEF LimitInv
  <1> QED BY <1>2, <1>3, LimitKept

LEMMA LimitAnswer ==
    ASSUME LimitInv, NEW r \in Slot, Answer(r), UNCHANGED <<limiter, failed, clock>>
    PROVE  LimitInv'
  <1>1. req' = [req EXCEPT ![r] = Idle] BY DEF Answer
  <1>2. req' = [x \in Slot |-> req'[x]] BY <1>1 DEF LimitInv
  <1>3. Idle.kind # "totp" BY DEF Idle
  <1>4. ASSUME NEW x \in Slot, req'[x].kind = "totp" PROVE req'[x] = req[x]
    BY <1>1, <1>3, <1>4 DEF LimitInv
  <1> QED BY <1>2, <1>4, LimitKept

\* an attempt is let in when no lockout holds: what failed is counted then
LEMMA LimitLetsIn ==
    ASSUME LimitInv, NEW r \in Slot, NEW b, LoginTotpPost(r, b) PROVE LimitInv'
  <1> DEFINE w == GetData(b).pending
  <1>1. Allow(w) /\ UNCHANGED <<limiter, failed, clock>>
    BY DEF LoginTotpPost, data, history
  <1>2. PICK code : Arrive(r, [kind |-> "totp", b |-> b, u |-> w, row |-> users[w],
                               code |-> code])
    BY DEF LoginTotpPost
  <1> DEFINE rec == [kind |-> "totp", b |-> b, u |-> w, row |-> users[w], code |-> code]
  <1>3. req' = [req EXCEPT ![r] = rec] /\ rec.u = w BY <1>2 DEF Arrive
  <1> HIDE DEF rec, w
  <1>4. req' = [x \in Slot |-> req'[x]] BY <1>3 DEF LimitInv
  <1>5. ASSUME NEW u \in User
        PROVE  Len(failed[u]) + Cardinality(LetIn(u)') < MaxAttempts + Cardinality(Slot)
    <2>1. LetIn(u) \subseteq Slot /\ LetIn(u)' \subseteq Slot BY DEF LetIn
    <2>2. /\ Cardinality(LetIn(u)') \in Nat /\ Cardinality(LetIn(u)') <= Cardinality(Slot)
          /\ Cardinality(LetIn(u)) \in Nat /\ Cardinality(Slot) \in Nat
          /\ IsFiniteSet(LetIn(u))
      BY <2>1, FS_Subset, FS_CardinalityType, WebLoginAssumption
    <2>3. EntryHolds(limiter[u], failed[u], clock) BY DEF LimitInv
    <2>4. Len(failed[u]) \in Nat BY <2>3 DEF EntryHolds, Times
    <2>5. CASE u = w
      <3> DEFINE e == limiter[u]
                 g == failed[u]
      <3>1. clock >= e.lockedTill BY <1>1, <2>5 DEF Allow
      <3>2. Len(g) <= Len(e.failures) \/ Len(g) = 0
        <4>1. SUFFICES ASSUME Len(g) # 0 PROVE Len(g) <= Len(e.failures) OBVIOUS
        <4>2. /\ Len(g) - 1 \in 0 .. Len(g) - 1 /\ Len(g) - (Len(g) - 1) = 1
              /\ 1 \in 1 .. Len(g)
          BY <2>4, <4>1
        <4>3. /\ g[1] + Window > clock /\ g[1] \in Nat /\ e.lockedTill \in Nat
              /\ clock \in Nat /\ Window \in Nat
          <5>1. clock \in Nat /\ Window \in Nat BY WebLoginAssumption DEF LimitInv
          <5>2. g \in Seq(Nat) /\ e.lockedTill \in Nat BY <2>3 DEF EntryHolds, Times
          <5>3. g[1] + Window > clock BY <2>3, <4>2 DEF EntryHolds
          <5> QED BY <4>2, <5>1, <5>2, <5>3
        <4>4. g[1] + Window > e.lockedTill BY <3>1, <4>3
        <4>5. Len(g) - 1 < Len(e.failures) BY <2>3, <4>2, <4>4 DEF EntryHolds, Counts
        <4>6. Len(e.failures) \in Nat BY <2>3 DEF EntryHolds, Times
        <4> QED BY <2>4, <4>5, <4>6
      <3>3. Len(e.failures) < MaxAttempts /\ Len(e.failures) \in Nat
        BY <2>3 DEF EntryHolds, Times
      <3>4. Len(g) < MaxAttempts BY <2>4, <3>2, <3>3, WebLoginAssumption
      <3> QED BY <2>2, <2>4, <3>4, WebLoginAssumption
    <2>6. CASE u # w
      <3>1. LetIn(u)' \subseteq LetIn(u)
        <4>1. ASSUME NEW x \in LetIn(u)' PROVE x \in LetIn(u)
          <5>1. x \in Slot /\ req'[x].kind = "totp" /\ req'[x].u = u BY <4>1 DEF LetIn
          <5>2. x # r BY <1>3, <2>6, <5>1 DEF LimitInv
          <5>3. req'[x] = req[x] BY <1>3, <5>1, <5>2 DEF LimitInv
          <5> QED BY <5>1, <5>3 DEF LetIn
        <4> QED BY <4>1
      <3>2. Cardinality(LetIn(u)') <= Cardinality(LetIn(u)) BY <2>2, <3>1, FS_Subset
      <3>3. Len(failed[u]) + Cardinality(LetIn(u)) < MaxAttempts + Cardinality(Slot)
        BY DEF LimitInv
      <3> QED BY <2>2, <2>4, <3>2, <3>3, WebLoginAssumption
    <2> QED BY <2>5, <2>6
  <1> QED BY <1>1, <1>4, <1>5 DEF LimitInv

\* an attempt is judged: it is recorded and no longer under way
LEMMA LimitJudges ==
    ASSUME LimitInv, NEW r \in Slot, LoginTotpAnswer(r) PROVE LimitInv'
  <1> DEFINE w == req[r].u
             f == limiter[w].failures
             fs == Append(Recent(f, clock), clock)
             counted == IF Len(fs) >= MaxAttempts
                        THEN [failures |-> <<>>, lockedTill |-> clock + Window]
                        ELSE [limiter[w] EXCEPT !.failures = fs]
  <1>1. req[r].kind = "totp" /\ req' = [req EXCEPT ![r] = Idle] /\ clock' = clock
    BY DEF LoginTotpAnswer, Answer, bounds
  <1>2. \/ limiter' = [limiter EXCEPT ![w] = NoEntry] /\ failed' = [failed EXCEPT ![w] = <<>>]
        \/ /\ limiter' = [limiter EXCEPT ![w] = counted]
           /\ failed' = [failed EXCEPT ![w] = Append(failed[w], clock)]
    BY DEF LoginTotpAnswer, Reset, RecordFailure
  <1>3. ASSUME NEW e, NEW g, limiter' = [limiter EXCEPT ![w] = e],
               failed' = [failed EXCEPT ![w] = g],
               w \in User => EntryHolds(e, g, clock) /\ Len(g) <= Len(failed[w]) + 1
        PROVE  LimitInv'
    <2>1. /\ limiter' = [u \in User |-> limiter'[u]] /\ failed' = [u \in User |-> failed'[u]]
          /\ req' = [x \in Slot |-> req'[x]] /\ clock' \in Nat
      BY <1>1, <1>3 DEF LimitInv
    <2>2. Idle.kind # "totp" BY DEF Idle
    <2>3. ASSUME NEW u \in User
          PROVE  /\ EntryHolds(limiter'[u], failed'[u], clock)
                 /\ Len(failed'[u]) + Cardinality(LetIn(u)')
                      < MaxAttempts + Cardinality(Slot)
      <3>1. EntryHolds(limiter[u], failed[u], clock) BY DEF LimitInv
      <3>2. Len(failed[u]) \in Nat BY <3>1 DEF EntryHolds, Times
      <3>3. LetIn(u) \subseteq Slot /\ LetIn(u)' = LetIn(u) \ {r}
        <4>1. ASSUME NEW x \in Slot, x # r PROVE req'[x] = req[x]
          BY <1>1, <4>1 DEF LimitInv
        <4>2. req'[r] = Idle BY <1>1 DEF LimitInv
        <4> QED BY <2>2, <4>1, <4>2 DEF LetIn
      <3>4. IsFiniteSet(LetIn(u)) BY <3>3, FS_Subset, WebLoginAssumption
      <3>5. /\ Cardinality(LetIn(u)) \in Nat /\ Cardinality(Slot) \in Nat
            /\ Cardinality(LetIn(u)') \in Nat
            /\ Cardinality(LetIn(u)') =
                 IF r \in LetIn(u) THEN Cardinality(LetIn(u)) - 1 ELSE Cardinality(LetIn(u))
        BY <3>3, <3>4, FS_RemoveElement, FS_CardinalityType, WebLoginAssumption
      <3>6. Len(failed[u]) + Cardinality(LetIn(u)) < MaxAttempts + Cardinality(Slot)
        BY DEF LimitInv
      <3>7. CASE u = w
        <4>1. limiter'[u] = e /\ failed'[u] = g BY <1>3, <3>7 DEF LimitInv
        <4>2. EntryHolds(e, g, clock) /\ Len(g) <= Len(failed[u]) + 1 BY <1>3, <3>7
        <4>3. Len(g) \in Nat BY <4>2 DEF EntryHolds, Times
        <4>4. r \in LetIn(u) BY <1>1, <3>7 DEF LetIn
        <4> QED BY <3>2, <3>5, <3>6, <4>1, <4>2, <4>3, <4>4, WebLoginAssumption
      <3>8. CASE u # w
        <4>1. limiter'[u] = limiter[u] /\ failed'[u] = failed[u]
          BY <1>3, <3>8 DEF LimitInv
        <4> QED BY <3>1, <3>2, <3>5, <3>6, <4>1, WebLoginAssumption
      <3> QED BY <3>7, <3>8
    <2> QED BY <1>1, <2>1, <2>3 DEF LimitInv
  <1>4. clock \in Nat /\ (w \in User => EntryHolds(limiter[w], failed[w], clock))
    BY DEF LimitInv
  <1>5. w \in User => /\ EntryHolds(NoEntry, <<>>, clock)
                      /\ Len(<<>>) <= Len(failed[w]) + 1
    <2>1. w \in User => Len(failed[w]) \in Nat BY <1>4 DEF EntryHolds, Times
    <2>2. Len(<<>>) = 0 OBVIOUS
    <2> QED BY <1>4, <2>1, <2>2, NothingCounted
  <1>6. w \in User => /\ EntryHolds(counted, Append(failed[w], clock), clock)
                      /\ Len(Append(failed[w], clock)) <= Len(failed[w]) + 1
    <2>1. w \in User => Len(failed[w]) \in Nat BY <1>4 DEF EntryHolds, Times
    <2> SUFFICES ASSUME w \in User
                 PROVE  /\ EntryHolds(counted, Append(failed[w], clock), clock)
                        /\ Len(Append(failed[w], clock)) = Len(failed[w]) + 1
      BY <2>1
    <2> QED BY <1>4, RecordCounts
  <1> HIDE DEF counted
  <1> QED BY <1>2, <1>3, <1>5, <1>6

\* every request but an attempt leaves the limiter alone
LEMMA OtherArrivals ==
    ASSUME NEW r \in Slot, NEW b \in Browser, Arrives(r, b), ~ LoginTotpPost(r, b)
    PROVE  /\ UNCHANGED <<limiter, failed, clock>>
           /\ \/ UNCHANGED req
              \/ \E rec : rec.kind # "totp" /\ Arrive(r, rec)
  <1> DEFINE s == GetData(b)
             Other == \E rec : rec.kind # "totp" /\ Arrive(r, rec)
             Same == UNCHANGED <<limiter, failed, clock>>
  <1>1. ASSUME NEW u \in User, LoginPost(r, b, u) PROVE Same /\ Other
    <2>1. PICK row : Arrive(r, [kind |-> "login", b |-> b, u |-> u, row |-> row])
      BY <1>1 DEF LoginPost
    <2>2. Other
      <3> DEFINE rec == [kind |-> "login", b |-> b, u |-> u, row |-> row]
      <3>1. rec.kind # "totp" /\ Arrive(r, rec) BY <2>1
      <3> QED BY <3>1
    <2> QED BY <1>1, <2>2 DEF LoginPost, history
  <1>2. ASSUME NEW u \in User, WebAuthnLoginFinish(r, b, u) PROVE Same /\ Other
    <2> DEFINE rec == [kind |-> "waFinish", b |-> b, u |-> u, s |-> s, row |-> users[u]]
    <2>1. rec.kind # "totp" /\ Arrive(r, rec) BY <1>2 DEF WebAuthnLoginFinish
    <2> QED BY <1>2, <2>1 DEF WebAuthnLoginFinish, data, history
  <1>3. ASSUME NEW u \in User, OauthLoginStep2(r, b, u) PROVE Same /\ Other
    <2>1. PICK row : Arrive(r, [kind |-> "callback", b |-> b, u |-> u, row |-> row])
      BY <1>3 DEF OauthLoginStep2
    <2> DEFINE rec == [kind |-> "callback", b |-> b, u |-> u, row |-> row]
    <2>2. rec.kind # "totp" /\ Arrive(r, rec) BY <2>1
    <2> QED BY <1>3, <2>2 DEF OauthLoginStep2, history
  <1>4. CASE LogoutPost(r, b) BY <1>4 DEF LogoutPost
  <1>5. CASE TotpEnrollStart(r, b)
    <2> DEFINE rec == [kind |-> "enroll", b |-> b, s |-> [s EXCEPT !.secret = secrets + 1]]
    <2>1. rec.kind # "totp" /\ Arrive(r, rec) BY <1>5 DEF TotpEnrollStart
    <2> QED BY <1>5, <2>1 DEF TotpEnrollStart, data, history
  <1>6. CASE TotpEnrollConfirm(r, b)
    <2> DEFINE rec == [kind |-> "confirm", b |-> b, u |-> s.user, s |-> s,
                       row |-> users[s.user]]
    <2>1. rec.kind # "totp" /\ Arrive(r, rec) BY <1>6 DEF TotpEnrollConfirm
    <2> QED BY <1>6, <2>1 DEF TotpEnrollConfirm, data, history
  <1>7. CASE TotpDisablePost(r, b)
    <2> DEFINE rec == [kind |-> "disable", b |-> b, u |-> s.user, s |-> s,
                       row |-> users[s.user]]
    <2>1. rec.kind # "totp" /\ Arrive(r, rec) BY <1>7 DEF TotpDisablePost
    <2> QED BY <1>7, <2>1 DEF TotpDisablePost, data, history
  <1>8. CASE WebAuthnRegisterStart(r, b)
    <2> DEFINE rec == [kind |-> "regStart", b |-> b,
                       s |-> [s EXCEPT !.webAuthn = [kind |-> "register", user |-> s.user]]]
    <2>1. rec.kind # "totp" /\ Arrive(r, rec) BY <1>8 DEF WebAuthnRegisterStart
    <2> QED BY <1>8, <2>1 DEF WebAuthnRegisterStart
  <1>9. CASE WebAuthnRegisterFinish(r, b)
    <2> DEFINE rec == [kind |-> "regFinish", b |-> b, u |-> s.user, s |-> s,
                       row |-> users[s.user]]
    <2>1. rec.kind # "totp" /\ Arrive(r, rec) BY <1>9 DEF WebAuthnRegisterFinish
    <2> QED BY <1>9, <2>1 DEF WebAuthnRegisterFinish, data, history
  <1>10. CASE WebAuthnLoginStart(r, b)
    <2> DEFINE rec == [kind |-> "waStart", b |-> b,
                       s |-> [s EXCEPT !.webAuthn = [kind |-> "login", user |-> Nobody]]]
    <2>1. rec.kind # "totp" /\ Arrive(r, rec) BY <1>10 DEF WebAuthnLoginStart
    <2> QED BY <1>10, <2>1 DEF WebAuthnLoginStart, data, history
  <1>11. CASE WebAuthnCredentialsDelete(r, b) BY <1>11 DEF WebAuthnCredentialsDelete
  <1>12. CASE OauthInitiate(r, b)
    <2> DEFINE rec == [kind |-> "oauthInit", b |-> b, s |-> [s EXCEPT !.state = TRUE]]
    <2>1. rec.kind # "totp" /\ Arrive(r, rec) BY <1>12 DEF OauthInitiate
    <2> QED BY <1>12, <2>1 DEF OauthInitiate, data, history
  <1> HIDE DEF Other
  <1> QED BY <1>1, <1>2, <1>3, <1>4, <1>5, <1>6, <1>7, <1>8, <1>9, <1>10, <1>11, <1>12
         DEF Arrives, Other

\* so does every answer
LEMMA OtherAnswers ==
    ASSUME NEW r \in Slot, Answers(r), ~ LoginTotpAnswer(r)
    PROVE  Answer(r) /\ UNCHANGED <<limiter, failed, clock>>
  BY DEF Answers, LoginPostAnswer, TotpEnrollStartAnswer, TotpEnrollConfirmAnswer,
         TotpDisableAnswer, WebAuthnStartAnswer, WebAuthnRegisterAnswer, WebAuthnLoginAnswer,
         OauthInitiateAnswer, OauthCallbackAnswer, bounds, history

LEMMA LimitInit == Init => LimitInv
  <1> SUFFICES ASSUME Init PROVE LimitInv OBVIOUS
  <1>1. /\ limiter = [u \in User |-> limiter[u]] /\ failed = [u \in User |-> failed[u]]
        /\ req = [r \in Slot |-> Idle] /\ clock \in Nat
    BY DEF Init
  <1>2. req = [r \in Slot |-> req[r]] BY <1>1
  <1>3. ASSUME NEW u \in User
        PROVE  /\ EntryHolds(limiter[u], failed[u], clock)
               /\ Len(failed[u]) + Cardinality(LetIn(u)) < MaxAttempts + Cardinality(Slot)
    <2>1. limiter[u] = NoEntry /\ failed[u] = <<>> BY DEF Init
    <2>2. Idle.kind # "totp" BY DEF Idle
    <2>3. LetIn(u) = {} BY <1>1, <2>2 DEF LetIn
    <2>4. Cardinality(LetIn(u)) = 0 BY <2>3, FS_EmptySet
    <2>5. Cardinality(Slot) \in Nat BY FS_CardinalityType, WebLoginAssumption
    <2>6. Len(<<>>) + 0 < MaxAttempts + Cardinality(Slot) BY <2>5, WebLoginAssumption
    <2> QED BY <1>1, <2>1, <2>4, <2>6, NothingCounted
  <1> QED BY <1>1, <1>2, <1>3 DEF LimitInv

LEMMA LimitStep == LimitInv /\ [Next]_vars => LimitInv'
  <1> SUFFICES ASSUME LimitInv, [Next]_vars PROVE LimitInv' OBVIOUS
  <1> DEFINE Bound(u) == Len(failed[u]) + Cardinality(LetIn(u)) < MaxAttempts + Cardinality(Slot)
  <1>1. ASSUME NEW r \in Slot, Answers(r) PROVE LimitInv'
    BY <1>1, OtherAnswers, LimitAnswer, LimitJudges
  <1>2. ASSUME UNCHANGED <<limiter, failed, clock, req>> PROVE LimitInv'
    BY <1>2, LimitKept DEF LimitInv
  <1>3. ASSUME NEW r \in Slot, NEW b \in Browser, Arrives(r, b) PROVE LimitInv'
    <2>1. CASE LoginTotpPost(r, b) BY <2>1, LimitLetsIn
    <2>2. CASE ~ LoginTotpPost(r, b)
      <3>1. /\ UNCHANGED <<limiter, failed, clock>>
            /\ UNCHANGED req \/ \E rec : rec.kind # "totp" /\ Arrive(r, rec)
        BY <1>3, <2>2, OtherArrivals
      <3>2. CASE UNCHANGED req BY <1>2, <3>1, <3>2
      <3>3. ASSUME NEW rec, rec.kind # "totp", Arrive(r, rec) PROVE LimitInv'
        BY <3>1, <3>3, LimitArrive
      <3> QED BY <3>1, <3>2, <3>3
    <2> QED BY <2>1, <2>2
  <1>4. ASSUME NEW b \in Browser, SessionNoLongerAvailable(b) PROVE LimitInv'
    BY <1>2, <1>4 DEF SessionNoLongerAvailable, bounds, history
  <1>5. CASE SetupExternalAuthProviders
    BY <1>2, <1>5 DEF SetupExternalAuthProviders, data, bounds, history
  <1>6. CASE CleanupLoop
    <2>1. /\ limiter' = [u \in User |->
                  IF clock > limiter[u].lockedTill /\ Recent(limiter[u].failures, clock) = <<>>
                  THEN NoEntry ELSE limiter[u]]
          /\ UNCHANGED <<failed, clock, req>>
      BY <1>6 DEF CleanupLoop, bounds, history
    <2>2. limiter' = [u \in User |-> limiter'[u]] BY <2>1
    <2>3. ASSUME NEW u \in User
          PROVE  EntryHolds(limiter'[u], failed[u], clock)
      <3>1. EntryHolds(limiter[u], failed[u], clock) /\ clock \in Nat BY DEF LimitInv
      <3>2. CASE clock > limiter[u].lockedTill /\ Recent(limiter[u].failures, clock) = <<>>
        <4>1. limiter'[u] = NoEntry BY <2>1, <3>2
        <4> QED BY <3>1, <3>2, <4>1, CleanupCounts
      <3>3. CASE ~ (clock > limiter[u].lockedTill
                    /\ Recent(limiter[u].failures, clock) = <<>>)
        <4>1. limiter'[u] = limiter[u] BY <2>1, <3>3
        <4> QED BY <3>1, <4>1
      <3> QED BY <3>2, <3>3
    <2>4. ASSUME NEW u \in User PROVE LetIn(u)' = LetIn(u) BY <2>1 DEF LetIn
    <2> QED BY <2>1, <2>2, <2>3, <2>4 DEF LimitInv
  <1>7. CASE Tick
    <2>1. /\ failed' = [u \in User |-> Recent(failed[u], clock + 1)] /\ clock' = clock + 1
          /\ UNCHANGED <<limiter, req>>
      BY <1>7 DEF Tick, data
    <2>2. failed' = [u \in User |-> failed'[u]] /\ clock \in Nat /\ clock' \in Nat
      BY <2>1 DEF LimitInv
    <2>3. ASSUME NEW u \in User
          PROVE  EntryHolds(limiter[u], failed'[u], clock') /\ Bound(u)'
      <3>1. EntryHolds(limiter[u], failed[u], clock) /\ Bound(u) BY DEF LimitInv
      <3>2. failed'[u] = Recent(failed[u], clock + 1) BY <2>1
      <3>3. EntryHolds(limiter[u], failed'[u], clock') /\ Len(failed'[u]) <= Len(failed[u])
        BY <2>1, <2>2, <3>1, <3>2, TickCounts
      <3>4. LetIn(u)' = LetIn(u) /\ LetIn(u) \subseteq Slot BY <2>1 DEF LetIn
      <3>5. Cardinality(LetIn(u)) \in Nat /\ Cardinality(Slot) \in Nat
        BY <3>4, FS_Subset, FS_CardinalityType, WebLoginAssumption
      <3>6. Len(failed[u]) \in Nat /\ Len(failed'[u]) \in Nat
        BY <3>1, <3>3 DEF EntryHolds, Times
      <3> QED BY <3>1, <3>3, <3>4, <3>5, <3>6, WebLoginAssumption
    <2> QED BY <2>1, <2>2, <2>3 DEF LimitInv
  <1>8. CASE Restart
    <2>1. /\ req' = [r \in Slot |-> Idle] /\ limiter' = [u \in User |-> NoEntry]
          /\ failed' = [u \in User |-> <<>>] /\ clock' = clock
      BY <1>8 DEF Restart
    <2>2. /\ limiter' = [u \in User |-> limiter'[u]] /\ failed' = [u \in User |-> failed'[u]]
          /\ req' = [r \in Slot |-> req'[r]] /\ clock \in Nat
      BY <2>1 DEF LimitInv
    <2>3. ASSUME NEW u \in User
          PROVE  EntryHolds(limiter'[u], failed'[u], clock) /\ Bound(u)'
      <3>1. limiter'[u] = NoEntry /\ failed'[u] = <<>> BY <2>1
      <3>2. Idle.kind # "totp" BY DEF Idle
      <3>3. LetIn(u)' = {} BY <2>1, <3>2 DEF LetIn
      <3>4. Cardinality(LetIn(u)') = 0 BY <3>3, FS_EmptySet
      <3>5. Cardinality(Slot) \in Nat BY FS_CardinalityType, WebLoginAssumption
      <3>6. Len(<<>>) + 0 < MaxAttempts + Cardinality(Slot) BY <3>5, WebLoginAssumption
      <3> QED BY <2>2, <3>1, <3>4, <3>6, NothingCounted
    <2> QED BY <2>1, <2>2, <2>3 DEF LimitInv
  <1>9. ASSUME NEW u \in User, AdminEdits(u) PROVE LimitInv'
    BY <1>2, <1>9 DEF AdminEdits, history
  <1>10. CASE UNCHANGED vars BY <1>2, <1>10 DEF vars, data, bounds, history
  <1> QED BY <1>1, <1>3, <1>4, <1>5, <1>6, <1>7, <1>8, <1>9, <1>10 DEF Next

\* The limiter's entry and the failures of the window agree, and every attempt that
\* was let in before a lockout is accounted for.
THEOREM LimitInvariance == Spec => []LimitInv
  <1> QED BY LimitInit, LimitStep, PTL DEF Spec

\* However many requests overlap, and whenever the entries are purged or the server is
\* restarted, no window holds more failures than the limit and one for each further
\* request that had been let in (totp_ratelimit.go, handleLoginTotpPost).
THEOREM AttemptsAreBounded == Spec => []AttemptsBounded
  <1>1. LimitInv => AttemptsBounded
    <2> SUFFICES ASSUME LimitInv, NEW u \in User
                 PROVE  Len(failed[u]) <= MaxAttempts + Cardinality(Slot) - 1
      BY DEF AttemptsBounded
    <2>1. LetIn(u) \subseteq Slot BY DEF LetIn
    <2>2. Cardinality(LetIn(u)) \in Nat /\ Cardinality(Slot) \in Nat
      BY <2>1, FS_Subset, FS_CardinalityType, WebLoginAssumption
    <2>3. Len(failed[u]) \in Nat BY DEF LimitInv, EntryHolds, Times
    <2>4. Len(failed[u]) + Cardinality(LetIn(u)) < MaxAttempts + Cardinality(Slot)
      BY DEF LimitInv
    <2> QED BY <2>2, <2>3, <2>4, WebLoginAssumption
  <1> QED BY <1>1, LimitInvariance, PTL

---------------------------------------------------------------------------
(* Codes *)

RowField == {"exists", "admin", "src", "persist", "disabled", "reason", "locked", "profile",
             "password", "token", "totp", "keys"}
TotpField == {"on", "secret", "codes", "step"}

IsTotp(totp) == totp = [f \in TotpField |-> totp[f]] /\ totp.step \in Nat

\* a row of the table
Shaped(row) == row = [f \in RowField |-> row[f]] /\ row.exists = TRUE /\ IsTotp(row.totp)

\* the second factor takes none of the accepted codes again
Spent(totp, codes) ==
    \A c \in codes :
        /\ c.kind = "recovery" => c.value \notin totp.codes
        /\ c.kind = "time" /\ c.secret = totp.secret => totp.step # 0 /\ c.value <= totp.step

\* requests that write the row they have read
Writing == {"totp", "confirm", "disable", "regFinish"}

TableHolds ==
    /\ users = [u \in User |-> users[u]]
    /\ accepted = [u \in User |-> accepted[u]] /\ stale = [u \in User |-> stale[u]]
    /\ \A u \in User : users[u] = NoRow \/ Shaped(users[u])

CodesHold ==
    \A u \in User :
        /\ \A c \in accepted[u] : c.kind = "time" => c.secret # 0 /\ c.value \in Nat
        /\ ~ stale[u] /\ users[u] # NoRow => Spent(users[u].totp, accepted[u])

\* what a request brings along
RecordHolds(rec) ==
    /\ rec.kind \in {"login", "waFinish", "totp"} => rec.u \in User
    /\ rec.kind \in Writing /\ rec.u \in User => Shaped(rec.row)

RequestsHold == req = [r \in Slot |-> req[r]] /\ \A r \in Slot : RecordHolds(req[r])

\* users whose first factor a browser has shown are users
HalfHolds == half = [b \in Browser |-> half[b]] /\ \A b \in Browser : half[b] \subseteq User

ClockHolds == clock \in Nat /\ clock >= 2

CodeInv == TableHolds /\ CodesHold /\ RequestsHold /\ HalfHolds /\ ClockHolds

---------------------------------------------------------------------------
(* Rows *)

\* what leaves the second factor alone keeps the row a row
LEMMA OtherFields ==
    ASSUME NEW row, Shaped(row), NEW x,
           NEW f \in {"admin", "src", "disabled", "locked", "profile", "password", "keys"}
    PROVE  Shaped([row EXCEPT ![f] = x]) /\ [row EXCEPT ![f] = x].totp = row.totp
  <1> DEFINE t == [row EXCEPT ![f] = x]
  <1>1. row = [g \in RowField |-> row[g]] /\ row.exists = TRUE BY DEF Shaped
  <1>2. t = [g \in RowField |-> t[g]] /\ t.exists = TRUE /\ t.totp = row.totp
    BY <1>1 DEF RowField
  <1> HIDE DEF t
  <1>3. Shaped(t) BY <1>2 DEF Shaped
  <1> QED BY <1>2, <1>3 DEF t

LEMMA SecondFactorField ==
    ASSUME NEW row, Shaped(row), NEW totp, IsTotp(totp)
    PROVE  Shaped([row EXCEPT !.totp = totp]) /\ [row EXCEPT !.totp = totp].totp = totp
  <1> DEFINE t == [row EXCEPT !.totp = totp]
  <1>1. row = [g \in RowField |-> row[g]] /\ row.exists = TRUE BY DEF Shaped
  <1>2. t = [g \in RowField |-> t[g]] /\ t.exists = TRUE /\ t.totp = totp
    BY <1>1 DEF RowField
  <1> HIDE DEF t
  <1>3. Shaped(t) BY <1>2 DEF Shaped
  <1> QED BY <1>2, <1>3 DEF t

\* a code is used up (totp_service.go, the step and the recovery codes)
LEMMA ConsumedRow ==
    ASSUME NEW row, Shaped(row), NEW code,
           code.kind # "recovery" => code.value \in Nat
    PROVE  /\ Shaped(Consumed(row, code))
           /\ Consumed(row, code).totp.secret = row.totp.secret
           /\ code.kind = "recovery" =>
                /\ Consumed(row, code).totp.codes = row.totp.codes \ {code.value}
                /\ Consumed(row, code).totp.step = row.totp.step
           /\ code.kind # "recovery" =>
                /\ Consumed(row, code).totp.codes = row.totp.codes
                /\ Consumed(row, code).totp.step = code.value
  <1> DEFINE t == row.totp
             codes == t.codes \ {code.value}
  <1>1. row = [g \in RowField |-> row[g]] BY DEF Shaped
  <1>2. t = [f \in TotpField |-> t[f]] /\ t.step \in Nat BY DEF Shaped, IsTotp
  <1>3. CASE code.kind = "recovery"
    <2> DEFINE t2 == [t EXCEPT !.codes = codes]
    <2>1. Consumed(row, code) = [row EXCEPT !.totp = t2] BY <1>1, <1>3 DEF Consumed, RowField
    <2>2. /\ t2 = [f \in TotpField |-> t2[f]] /\ t2.step = t.step /\ t2.secret = t.secret
          /\ t2.codes = codes
      BY <1>2 DEF TotpField
    <2> HIDE DEF t2
    <2>3. IsTotp(t2) BY <1>2, <2>2 DEF IsTotp
    <2> QED BY <1>3, <2>1, <2>2, <2>3, SecondFactorField
  <1>4. CASE code.kind # "recovery"
    <2> DEFINE t2 == [t EXCEPT !.step = code.value]
    <2>1. Consumed(row, code) = [row EXCEPT !.totp = t2] BY <1>1, <1>4 DEF Consumed, RowField
    <2>2. /\ t2 = [f \in TotpField |-> t2[f]] /\ t2.step = code.value
          /\ t2.secret = t.secret /\ t2.codes = t.codes
      BY <1>2 DEF TotpField
    <2> HIDE DEF t2
    <2>3. IsTotp(t2) BY <1>4, <2>2 DEF IsTotp
    <2> QED BY <1>4, <2>1, <2>2, <2>3, SecondFactorField
  <1> QED BY <1>3, <1>4

\* a second factor that is off
LEMMA OffIsTotp == IsTotp(TotpOff) /\ TotpOff.secret = 0 /\ TotpOff.codes = {}
  BY DEF IsTotp, TotpOff, TotpField

LEMMA NewRow ==
    ASSUME NEW source
    PROVE  Shaped(NewcomerRow(source)) /\ NewcomerRow(source).totp = TotpOff
  <1> DEFINE e == EmptyRow(TheProfile)
             a == [e EXCEPT !.admin = FALSE]
             b == [a EXCEPT !.src = {source}]
  <1>1. e = [f \in RowField |-> e[f]] /\ e.exists = TRUE /\ e.totp = TotpOff
    BY DEF EmptyRow, RowField
  <1>2. Shaped(e) BY <1>1, OffIsTotp DEF Shaped
  <1>3. NewcomerRow(source) = b BY DEF NewcomerRow, RegisteredUser, EmptyRow
  <1> HIDE DEF e
  <1>4. Shaped(a) /\ a.totp = TotpOff BY <1>1, <1>2, OtherFields
  <1> HIDE DEF a
  <1>5. Shaped(b) /\ b.totp = TotpOff BY <1>4, OtherFields
  <1> QED BY <1>3, <1>5

\* what a provider knows of a user leaves his second factor alone
LEMMA ExternalRow ==
    ASSUME NEW row, Shaped(row), NEW entry, NEW source
    PROVE  /\ Shaped(ExternalUser(row, entry, source))
           /\ ExternalUser(row, entry, source).totp = row.totp
  <1> DEFINE a == [row EXCEPT !.src = row.src \union {source}]
             b == [a EXCEPT !.profile = entry.profile]
             c == [b EXCEPT !.admin = entry.admin]
  <1>1. ExternalUser(row, entry, source) = IF row.persist THEN a ELSE c
    BY DEF ExternalUser
  <1>2. Shaped(a) /\ a.totp = row.totp BY OtherFields
  <1> HIDE DEF a
  <1>3. Shaped(b) /\ b.totp = row.totp BY <1>2, OtherFields
  <1> HIDE DEF b
  <1>4. Shaped(c) /\ c.totp = row.totp BY <1>3, OtherFields
  <1> HIDE DEF c
  <1> QED BY <1>1, <1>2, <1>4

---------------------------------------------------------------------------
(* The parts of a step *)

\* the row of one user is written, and his codes are accounted for
LEMMA TableStep ==
    ASSUME TableHolds, CodesHold, NEW u, NEW row, NEW acc, NEW old,
           users' = [users EXCEPT ![u] = row], accepted' = [accepted EXCEPT ![u] = acc],
           stale' = [stale EXCEPT ![u] = old],
           u \in User => /\ row = NoRow \/ Shaped(row)
                         /\ \A c \in acc : c.kind = "time" => c.secret # 0 /\ c.value \in Nat
                         /\ ~ old /\ row # NoRow => Spent(row.totp, acc)
    PROVE  TableHolds' /\ CodesHold'
  <1>1. /\ users' = [v \in User |-> users'[v]] /\ accepted' = [v \in User |-> accepted'[v]]
        /\ stale' = [v \in User |-> stale'[v]]
    BY DEF TableHolds
  <1>2. ASSUME NEW v \in User
        PROVE  /\ users'[v] = NoRow \/ Shaped(users'[v])
               /\ \A c \in accepted'[v] : c.kind = "time" => c.secret # 0 /\ c.value \in Nat
               /\ ~ stale'[v] /\ users'[v] # NoRow => Spent(users'[v].totp, accepted'[v])
    <2>1. CASE v = u
      <3>1. users'[v] = row /\ accepted'[v] = acc /\ stale'[v] = old
        BY <2>1 DEF TableHolds
      <3> QED BY <2>1, <3>1
    <2>2. CASE v # u
      <3>1. users'[v] = users[v] /\ accepted'[v] = accepted[v] /\ stale'[v] = stale[v]
        BY <2>2 DEF TableHolds
      <3> QED BY <3>1 DEF TableHolds, CodesHold
    <2> QED BY <2>1, <2>2
  <1> QED BY <1>1, <1>2 DEF TableHolds, CodesHold

\* the row alone is written, and the second factor stays as it was
LEMMA RowStep ==
    ASSUME TableHolds, CodesHold, UNCHANGED <<accepted, stale>>, NEW u, NEW row,
           users' = [users EXCEPT ![u] = row],
           u \in User => \/ row = NoRow
                         \/ /\ Shaped(row)
                            /\ \/ row.totp = TotpOff
                               \/ users[u] # NoRow /\ row.totp = users[u].totp
    PROVE  TableHolds' /\ CodesHold'
  <1> DEFINE acc == accepted[u]
             old == stale[u]
  <1>1. accepted' = [accepted EXCEPT ![u] = acc] /\ stale' = [stale EXCEPT ![u] = old]
    BY DEF TableHolds
  <1>2. ASSUME u \in User
        PROVE  /\ row = NoRow \/ Shaped(row)
               /\ \A c \in acc : c.kind = "time" => c.secret # 0 /\ c.value \in Nat
               /\ ~ old /\ row # NoRow => Spent(row.totp, acc)
    <2>1. \A c \in acc : c.kind = "time" => c.secret # 0 BY <1>2 DEF CodesHold
    <2>2. Spent(TotpOff, acc) BY <2>1, OffIsTotp DEF Spent
    <2> QED BY <1>2, <2>2 DEF CodesHold
  <1> HIDE DEF acc, old
  <1> QED BY <1>1, <1>2, TableStep

\* UpdateUserInternal, with a row made of one that was read earlier
LEMMA UpdateStep ==
    ASSUME TableHolds, CodesHold, NEW u, NEW read, NEW row, NEW acc,
           UpdateUserInternal(u, read, row), accepted' = [accepted EXCEPT ![u] = acc],
           u \in User => /\ Shaped(row)
                         /\ \A c \in acc : c.kind = "time" => c.secret # 0 /\ c.value \in Nat
                         /\ ~ EnrolsAgain(u, row.totp) /\ Spent(read.totp, accepted[u])
                              => Spent(row.totp, acc),
           u \in User => users[u] # NoRow
    PROVE  TableHolds' /\ CodesHold'
  <1> DEFINE new == [row EXCEPT !.password = users[u].password]
             old == stale[u] \/ users[u] # read \/ EnrolsAgain(u, row.totp)
  <1>1. users' = [users EXCEPT ![u] = new] /\ stale' = [stale EXCEPT ![u] = old]
    BY DEF UpdateUserInternal
  <1>2. u \in User => Shaped(new) /\ new.totp = row.totp BY OtherFields
  <1> HIDE DEF new
  <1>3. ASSUME u \in User, ~ old PROVE Spent(new.totp, acc)
    <2>1. ~ stale[u] /\ users[u] = read /\ ~ EnrolsAgain(u, row.totp) BY <1>3
    <2>2. Spent(read.totp, accepted[u]) BY <1>3, <2>1 DEF CodesHold
    <2> QED BY <1>2, <1>3, <2>1, <2>2
  <1> HIDE DEF old
  <1> QED BY <1>1, <1>2, <1>3, TableStep

LEMMA TableSame ==
    ASSUME TableHolds, CodesHold, UNCHANGED <<users, accepted, stale>>
    PROVE  TableHolds' /\ CodesHold'
  BY DEF TableHolds, CodesHold

LEMMA ReqArrives ==
    ASSUME RequestsHold, NEW r \in Slot, NEW rec, Arrive(r, rec), RecordHolds(rec)
    PROVE  RequestsHold'
  <1>1. req' = [req EXCEPT ![r] = rec] BY DEF Arrive
  <1>2. req' = [x \in Slot |-> req'[x]] BY <1>1 DEF RequestsHold
  <1>3. ASSUME NEW x \in Slot PROVE req'[x] = rec \/ req'[x] = req[x]
    BY <1>1 DEF RequestsHold
  <1> QED BY <1>2, <1>3 DEF RequestsHold

LEMMA ReqAnswered == ASSUME RequestsHold, NEW r \in Slot, Answer(r) PROVE RequestsHold'
  <1>1. req' = [req EXCEPT ![r] = Idle] BY DEF Answer
  <1>2. req' = [x \in Slot |-> req'[x]] BY <1>1 DEF RequestsHold
  <1>3. ASSUME NEW x \in Slot PROVE req'[x] = Idle \/ req'[x] = req[x]
    BY <1>1 DEF RequestsHold
  <1>4. Idle.kind = "idle" BY DEF Idle
  <1>5. RecordHolds(Idle) BY <1>4 DEF RecordHolds, Writing
  <1> QED BY <1>2, <1>3, <1>5 DEF RequestsHold

LEMMA HalfStep ==
    ASSUME HalfHolds, NEW b, NEW h, half' = [half EXCEPT ![b] = h],
           b \in Browser => h \subseteq User
    PROVE  HalfHolds'
  BY DEF HalfHolds

---------------------------------------------------------------------------
(* Codes are used up, step by step *)

LEMMA ExistingRow ==
    ASSUME TableHolds, NEW u \in User
    PROVE  /\ users[u].exists <=> users[u] # NoRow
           /\ users[u].exists => Shaped(users[u])
  <1>1. users[u] = NoRow \/ Shaped(users[u]) BY DEF TableHolds
  <1>2. NoRow.exists = FALSE BY DEF NoRow
  <1>3. Shaped(users[u]) => users[u].exists = TRUE BY DEF Shaped
  <1> QED BY <1>1, <1>2, <1>3

\* a request that arrives and writes nothing
LEMMA ArriveOnly ==
    ASSUME CodeInv, NEW r \in Slot, NEW rec, Arrive(r, rec), RecordHolds(rec),
           UNCHANGED <<users, accepted, stale, half, clock>>
    PROVE  CodeInv'
  <1>1. RequestsHold' BY ReqArrives DEF CodeInv
  <1>2. TableHolds' /\ CodesHold' BY TableSame DEF CodeInv
  <1>3. HalfHolds' /\ ClockHolds' BY DEF CodeInv, HalfHolds, ClockHolds
  <1> QED BY <1>1, <1>2, <1>3 DEF CodeInv

\* ... and one that may also write the row of its user
LEMMA ArriveAndWrite ==
    ASSUME CodeInv, NEW r \in Slot, NEW rec, Arrive(r, rec), RecordHolds(rec),
           TableHolds' /\ CodesHold', UNCHANGED <<half, clock>>
    PROVE  CodeInv'
  <1>1. RequestsHold' BY ReqArrives DEF CodeInv
  <1>2. HalfHolds' /\ ClockHolds' BY DEF CodeInv, HalfHolds, ClockHolds
  <1> QED BY <1>1, <1>2 DEF CodeInv

\* the row is written with other passkeys
LEMMA KeysStep ==
    ASSUME TableHolds, CodesHold, NEW u, NEW ctx, NEW keys, UNCHANGED accepted,
           CanUpdate(ctx, u, [users[u] EXCEPT !.keys = keys]),
           UpdateUserInternal(u, users[u], [users[u] EXCEPT !.keys = keys])
    PROVE  TableHolds' /\ CodesHold'
  <1> DEFINE row == [users[u] EXCEPT !.keys = keys]
             acc == accepted[u]
  <1>1. users[u].exists BY DEF CanUpdate
  <1>2. accepted' = [accepted EXCEPT ![u] = acc] BY DEF TableHolds
  <1>3. u \in User => Shaped(row) /\ row.totp = users[u].totp /\ users[u] # NoRow
    BY <1>1, ExistingRow, OtherFields
  <1>4. u \in User => \A c \in acc : c.kind = "time" => c.secret # 0 /\ c.value \in Nat
    BY DEF CodesHold
  <1>5. UpdateUserInternal(u, users[u], row) OBVIOUS
  <1> HIDE DEF row, acc
  <1>6. u \in User => (Spent(users[u].totp, accepted[u]) => Spent(row.totp, acc))
    BY <1>3 DEF acc
  <1> QED BY <1>2, <1>3, <1>4, <1>5, <1>6, UpdateStep

LEMMA CodesArrive ==
    ASSUME CodeInv, Inv, NEW r \in Slot, NEW b \in Browser, Arrives(r, b) PROVE CodeInv'
  <1> DEFINE s == GetData(b)
             Same == UNCHANGED <<users, accepted, stale, half, clock>>
  <1>1. TableHolds /\ CodesHold BY DEF CodeInv
  <1>2. ASSUME LoggedIn(b), s.user \in User PROVE Shaped(users[s.user])
    <2>1. users[s.user].exists BY <1>2 DEF LoggedIn, IsUserValid, GetData
    <2> QED BY <1>1, <1>2, <2>1, ExistingRow
  <1>3. ASSUME NEW u \in User, LoginPost(r, b, u) PROVE CodeInv'
    <2>1. UNCHANGED <<accepted, stale, half, clock>> BY <1>3 DEF LoginPost, history
    <2>2. PICK row : /\ Arrive(r, [kind |-> "login", b |-> b, u |-> u, row |-> row])
                     /\ \/ UNCHANGED users
                        \/ users' = [users EXCEPT ![u] = NewcomerRow("ldap")]
      BY <1>3 DEF LoginPost
    <2> DEFINE rec == [kind |-> "login", b |-> b, u |-> u, row |-> row]
    <2>3. RecordHolds(rec) BY DEF RecordHolds, Writing
    <2>4. TableHolds' /\ CodesHold'
      <3>1. CASE UNCHANGED users BY <1>1, <2>1, <3>1, TableSame
      <3>2. CASE users' = [users EXCEPT ![u] = NewcomerRow("ldap")]
        <4> DEFINE new == NewcomerRow("ldap")
        <4>1. Shaped(new) /\ new.totp = TotpOff BY NewRow
        <4>2. users' = [users EXCEPT ![u] = new] BY <3>2
        <4> HIDE DEF new
        <4> QED BY <1>1, <2>1, <4>1, <4>2, RowStep
      <3> QED BY <2>2, <3>1, <3>2
    <2>5. Arrive(r, rec) BY <2>2
    <2> HIDE DEF rec
    <2> QED BY <2>1, <2>3, <2>4, <2>5, ArriveAndWrite
  <1>4. ASSUME NEW u \in User, WebAuthnLoginFinish(r, b, u) PROVE CodeInv'
    <2> DEFINE rec == [kind |-> "waFinish", b |-> b, u |-> u, s |-> s, row |-> users[u]]
    <2>1. Arrive(r, rec) /\ Same BY <1>4 DEF WebAuthnLoginFinish, data, history
    <2>2. RecordHolds(rec) BY DEF RecordHolds, Writing
    <2> HIDE DEF rec
    <2> QED BY <2>1, <2>2, ArriveOnly
  <1>5. ASSUME NEW u \in User, OauthLoginStep2(r, b, u) PROVE CodeInv'
    <2> DEFINE entry == [profile |-> TheProfile, admin |-> FALSE]
               row == IF ~ users[u].exists THEN NewcomerRow("oauth")
                      ELSE IF UpdatesExternalUser(users[u], entry, "oauth")
                      THEN ExternalUser(users[u], entry, "oauth") ELSE users[u]
               rec == [kind |-> "callback", b |-> b, u |-> u, row |-> row]
    <2>1. /\ users' = [users EXCEPT ![u] = row] /\ Arrive(r, rec)
          /\ UNCHANGED <<accepted, stale, half, clock>>
      BY <1>5 DEF OauthLoginStep2, history
    <2>2. RecordHolds(rec) BY DEF RecordHolds, Writing
    <2>3. /\ Shaped(row)
          /\ \/ row.totp = TotpOff
             \/ users[u] # NoRow /\ row.totp = users[u].totp
      <3>1. CASE ~ users[u].exists
        <4>1. row = NewcomerRow("oauth") BY <3>1
        <4> HIDE DEF row
        <4> QED BY <4>1, NewRow
      <3>2. CASE users[u].exists
        <4>1. Shaped(users[u]) /\ users[u] # NoRow BY <1>1, <3>2, ExistingRow
        <4>2. /\ Shaped(ExternalUser(users[u], entry, "oauth"))
              /\ ExternalUser(users[u], entry, "oauth").totp = users[u].totp
          BY <4>1, ExternalRow
        <4> QED BY <3>2, <4>1, <4>2
      <3> QED BY <3>1, <3>2
    <2> HIDE DEF rec, row
    <2>4. TableHolds' /\ CodesHold' BY <1>1, <2>1, <2>3, RowStep
    <2> QED BY <2>1, <2>2, <2>4, ArriveAndWrite
  <1>6. CASE LogoutPost(r, b)
    <2> DEFINE h == IF Alone(r, b) THEN {} ELSE half[b]
    <2>1. /\ half' = [half EXCEPT ![b] = h]
          /\ UNCHANGED <<users, req, clock, accepted, stale>>
      BY <1>6 DEF LogoutPost
    <2>2. h \subseteq User BY DEF CodeInv, HalfHolds
    <2> HIDE DEF h
    <2>3. HalfHolds' BY <2>1, <2>2, HalfStep DEF CodeInv
    <2>4. TableHolds' /\ CodesHold' BY <1>1, <2>1, TableSame
    <2>5. RequestsHold' /\ ClockHolds' BY <2>1 DEF CodeInv, RequestsHold, ClockHolds
    <2> QED BY <2>3, <2>4, <2>5 DEF CodeInv
  <1>7. CASE LoginTotpPost(r, b)
    <2> DEFINE u == s.pending
    <2>1. PICK code : Arrive(r, [kind |-> "totp", b |-> b, u |-> u, row |-> users[u],
                                 code |-> code])
      BY <1>7 DEF LoginTotpPost
    <2> DEFINE rec == [kind |-> "totp", b |-> b, u |-> u, row |-> users[u], code |-> code]
    <2>2. Same /\ u # Nobody /\ users[u].exists BY <1>7 DEF LoginTotpPost, data, history
    <2>3. u \in User
      <3>1. u \in half[b]
        BY <2>2 DEF Inv, SessionsHonest, Honest, Shown, GetData
      <3> QED BY <3>1 DEF CodeInv, HalfHolds
    <2>4. Shaped(users[u]) BY <1>1, <2>2, <2>3, ExistingRow
    <2>5. Arrive(r, rec) /\ rec.u = u /\ rec.row = users[u] BY <2>1
    <2> HIDE DEF rec, u
    <2>6. RecordHolds(rec) BY <2>3, <2>4, <2>5 DEF RecordHolds
    <2> QED BY <2>2, <2>5, <2>6, ArriveOnly
  <1>8. CASE TotpEnrollStart(r, b)
    <2> DEFINE rec == [kind |-> "enroll", b |-> b, s |-> [s EXCEPT !.secret = secrets + 1]]
    <2>1. Arrive(r, rec) /\ Same BY <1>8 DEF TotpEnrollStart, data, history
    <2>2. RecordHolds(rec) BY DEF RecordHolds, Writing
    <2> HIDE DEF rec
    <2> QED BY <2>1, <2>2, ArriveOnly
  <1>9. CASE TotpEnrollConfirm(r, b)
    <2> DEFINE rec == [kind |-> "confirm", b |-> b, u |-> s.user, s |-> s,
                       row |-> users[s.user]]
    <2>1. Arrive(r, rec) /\ Same /\ LoggedIn(b) BY <1>9 DEF TotpEnrollConfirm, data, history
    <2>2. rec.kind = "confirm" /\ rec.u = s.user /\ rec.row = users[s.user] OBVIOUS
    <2> HIDE DEF rec, s
    <2>3. RecordHolds(rec) BY <1>2, <2>1, <2>2 DEF RecordHolds
    <2> QED BY <2>1, <2>3, ArriveOnly
  <1>10. CASE TotpDisablePost(r, b)
    <2> DEFINE rec == [kind |-> "disable", b |-> b, u |-> s.user, s |-> s,
                       row |-> users[s.user]]
    <2>1. Arrive(r, rec) /\ Same /\ LoggedIn(b) BY <1>10 DEF TotpDisablePost, data, history
    <2>2. rec.kind = "disable" /\ rec.u = s.user /\ rec.row = users[s.user] OBVIOUS
    <2> HIDE DEF rec, s
    <2>3. RecordHolds(rec) BY <1>2, <2>1, <2>2 DEF RecordHolds
    <2> QED BY <2>1, <2>3, ArriveOnly
  <1>11. CASE WebAuthnRegisterFinish(r, b)
    <2> DEFINE rec == [kind |-> "regFinish", b |-> b, u |-> s.user, s |-> s,
                       row |-> users[s.user]]
    <2>1. Arrive(r, rec) /\ Same /\ LoggedIn(b)
      BY <1>11 DEF WebAuthnRegisterFinish, data, history
    <2>2. rec.kind = "regFinish" /\ rec.u = s.user /\ rec.row = users[s.user] OBVIOUS
    <2> HIDE DEF rec, s
    <2>3. RecordHolds(rec) BY <1>2, <2>1, <2>2 DEF RecordHolds
    <2> QED BY <2>1, <2>3, ArriveOnly
  <1>12. CASE WebAuthnRegisterStart(r, b)
    <2> DEFINE keys == users[s.user].keys \union {"handle"}
               rec == [kind |-> "regStart", b |-> b,
                       s |-> [s EXCEPT !.webAuthn = [kind |-> "register", user |-> s.user]]]
    <2>1. Arrive(r, rec) /\ UNCHANGED <<accepted, half, clock>>
      BY <1>12 DEF WebAuthnRegisterStart
    <2>2. RecordHolds(rec) BY DEF RecordHolds, Writing
    <2>3. CASE UNCHANGED <<users, stale>>
      <3> HIDE DEF rec
      <3> QED BY <2>1, <2>2, <2>3, ArriveOnly
    <2>4. CASE /\ CanUpdate(SessionContext(s), s.user, [users[s.user] EXCEPT !.keys = keys])
               /\ UpdateUserInternal(s.user, users[s.user],
                                     [users[s.user] EXCEPT !.keys = keys])
      <3> HIDE DEF rec, s, keys
      <3>1. TableHolds' /\ CodesHold' BY <1>1, <2>1, <2>4, KeysStep
      <3> QED BY <2>1, <2>2, <3>1, ArriveAndWrite
    <2> QED BY <1>12, <2>3, <2>4 DEF WebAuthnRegisterStart
  <1>13. CASE WebAuthnLoginStart(r, b)
    <2> DEFINE rec == [kind |-> "waStart", b |-> b,
                       s |-> [s EXCEPT !.webAuthn = [kind |-> "login", user |-> Nobody]]]
    <2>1. Arrive(r, rec) /\ Same BY <1>13 DEF WebAuthnLoginStart, data, history
    <2>2. RecordHolds(rec) BY DEF RecordHolds, Writing
    <2> HIDE DEF rec
    <2> QED BY <2>1, <2>2, ArriveOnly
  <1>14. CASE WebAuthnCredentialsDelete(r, b)
    <2> DEFINE keys == users[s.user].keys \ {"key"}
    <2>1. /\ CanUpdate(SessionContext(s), s.user, [users[s.user] EXCEPT !.keys = keys])
          /\ UpdateUserInternal(s.user, users[s.user], [users[s.user] EXCEPT !.keys = keys])
          /\ UNCHANGED <<req, clock, half, accepted>>
      BY <1>14 DEF WebAuthnCredentialsDelete
    <2> HIDE DEF s, keys
    <2>2. TableHolds' /\ CodesHold' BY <1>1, <2>1, KeysStep
    <2>3. RequestsHold' /\ HalfHolds' /\ ClockHolds'
      BY <2>1 DEF CodeInv, RequestsHold, HalfHolds, ClockHolds
    <2> QED BY <2>2, <2>3 DEF CodeInv
  <1>15. CASE OauthInitiate(r, b)
    <2> DEFINE rec == [kind |-> "oauthInit", b |-> b, s |-> [s EXCEPT !.state = TRUE]]
    <2>1. Arrive(r, rec) /\ Same BY <1>15 DEF OauthInitiate, data, history
    <2>2. RecordHolds(rec) BY DEF RecordHolds, Writing
    <2> HIDE DEF rec
    <2> QED BY <2>1, <2>2, ArriveOnly
  <1> QED BY <1>3, <1>4, <1>5, <1>6, <1>7, <1>8, <1>9, <1>10, <1>11, <1>12, <1>13, <1>14,
             <1>15 DEF Arrives

\* a request that is answered without a word on rows or codes
LEMMA AnswerOnly ==
    ASSUME CodeInv, NEW r \in Slot, Answer(r), HalfHolds',
           UNCHANGED <<users, accepted, stale, clock>>
    PROVE  CodeInv'
  <1>1. RequestsHold' BY ReqAnswered DEF CodeInv
  <1>2. TableHolds' /\ CodesHold' BY TableSame DEF CodeInv
  <1>3. ClockHolds' BY DEF CodeInv, ClockHolds
  <1> QED BY <1>1, <1>2, <1>3 DEF CodeInv

LEMMA AnswerAndWrite ==
    ASSUME CodeInv, NEW r \in Slot, Answer(r), TableHolds' /\ CodesHold',
           UNCHANGED <<half, clock>>
    PROVE  CodeInv'
  <1>1. RequestsHold' BY ReqAnswered DEF CodeInv
  <1>2. HalfHolds' /\ ClockHolds' BY DEF CodeInv, HalfHolds, ClockHolds
  <1> QED BY <1>1, <1>2 DEF CodeInv

\* what an accepted code was, by the row that the request had read
LEMMA ValidCode ==
    ASSUME NEW row, NEW code, ValidateCode(row, code), ClockHolds
    PROVE  /\ row.totp.secret # 0
           /\ code.kind = "recovery" => code.value \in row.totp.codes
           /\ code.kind # "recovery" =>
                /\ code.kind = "time" /\ code.secret = row.totp.secret
                /\ code.value \in Nat /\ code.value # 0
                /\ row.totp.step # 0 => ~ (code.value <= row.totp.step)
  <1>1. clock \in Nat /\ clock >= 2 BY DEF ClockHolds
  <1>2. ASSUME NEW v \in clock - 1 .. clock + 1 PROVE v \in Nat /\ v # 0 BY <1>1
  <1> QED BY <1>2 DEF ValidateCode, ValidateTotpWithStep

LEMMA CodesAnswer ==
    ASSUME CodeInv, NEW r \in Slot, Answers(r) PROVE CodeInv'
  <1> DEFINE q == req[r]
  <1>1. TableHolds /\ CodesHold /\ HalfHolds /\ RecordHolds(q)
    BY DEF CodeInv, RequestsHold
  <1>2. ASSUME NEW row, FirstFactorPassed(q.b, row, q.u), Answer(r), q.u \in User,
               UNCHANGED <<users, accepted, stale, clock>>
        PROVE  CodeInv'
    <2> DEFINE h == half[q.b] \union {q.u}
    <2>1. half' = [half EXCEPT ![q.b] = h] BY <1>2 DEF FirstFactorPassed
    <2>2. q.b \in Browser => h \subseteq User BY <1>1, <1>2 DEF HalfHolds
    <2> HIDE DEF h
    <2>3. HalfHolds' BY <1>1, <2>1, <2>2, HalfStep
    <2> QED BY <1>2, <2>3, AnswerOnly
  <1>3. ASSUME Answer(r), UNCHANGED <<users, accepted, stale, clock, half>> PROVE CodeInv'
    <2>1. HalfHolds' BY <1>1, <1>3 DEF HalfHolds
    <2> QED BY <1>3, <2>1, AnswerOnly
  <1>4. CASE LoginPostAnswer(r)
    <2>1. q.kind = "login" /\ Answer(r) /\ FirstFactorPassed(q.b, q.row, q.u)
          /\ UNCHANGED <<users, accepted, stale, clock>>
      BY <1>4 DEF LoginPostAnswer, bounds
    <2>2. q.u \in User BY <1>1, <2>1 DEF RecordHolds
    <2> QED BY <1>2, <2>1, <2>2
  <1>5. CASE LoginTotpAnswer(r)
    <2> DEFINE row == Consumed(q.row, q.code)
    <2>1. q.kind = "totp" /\ Answer(r) /\ UNCHANGED <<clock, half>>
      BY <1>5 DEF LoginTotpAnswer, bounds
    <2>2. q.u \in User /\ Shaped(q.row) BY <1>1, <2>1 DEF RecordHolds, Writing
    <2>3. CASE UNCHANGED <<users, accepted, stale>> BY <1>3, <2>1, <2>3
    <2>4. CASE /\ ValidateCode(q.row, q.code) /\ CanUpdate(SystemAdmin, q.u, row)
               /\ UpdateUserInternal(q.u, q.row, row)
               /\ accepted' = [accepted EXCEPT ![q.u] = accepted[q.u] \union {q.code}]
      <3> DEFINE acc == accepted[q.u] \union {q.code}
                 code == q.code
                 u == q.u
                 read == q.row
      <3>1. users[u].exists BY <2>4 DEF CanUpdate
      <3>2. users[u] # NoRow BY <1>1, <2>2, <3>1, ExistingRow
      <3>3. /\ read.totp.secret # 0
            /\ code.kind = "recovery" => code.value \in read.totp.codes
            /\ code.kind # "recovery" =>
                 /\ code.kind = "time" /\ code.secret = read.totp.secret
                 /\ code.value \in Nat /\ code.value # 0
                 /\ read.totp.step # 0 => ~ (code.value <= read.totp.step)
        BY <2>4, ValidCode DEF CodeInv
      <3>4. /\ Shaped(row) /\ row.totp.secret = read.totp.secret
            /\ code.kind = "recovery" =>
                 /\ row.totp.codes = read.totp.codes \ {code.value}
                 /\ row.totp.step = read.totp.step
            /\ code.kind # "recovery" =>
                 /\ row.totp.codes = read.totp.codes /\ row.totp.step = code.value
        BY <2>2, <3>3, ConsumedRow
      <3>5. read.totp.step \in Nat BY <2>2 DEF Shaped, IsTotp
      <3>6. \A c \in accepted[u] : c.kind = "time" => c.secret # 0 /\ c.value \in Nat
        BY <1>1, <2>2 DEF CodesHold
      <3>7. UpdateUserInternal(u, read, row) /\ accepted' = [accepted EXCEPT ![u] = acc]
            /\ u \in User
        BY <2>2, <2>4
      <3>8. \A c \in acc : c \in accepted[u] \/ c = code OBVIOUS
      <3> HIDE DEF row, acc, code, u, read
      <3>9. \A c \in acc : c.kind = "time" => c.secret # 0 /\ c.value \in Nat
        BY <3>3, <3>6, <3>8
      <3>10. ASSUME Spent(read.totp, accepted[u]) PROVE Spent(row.totp, acc)
        <4> SUFFICES ASSUME NEW c \in acc
                     PROVE  /\ c.kind = "recovery" => c.value \notin row.totp.codes
                            /\ c.kind = "time" /\ c.secret = row.totp.secret
                                 => row.totp.step # 0 /\ c.value <= row.totp.step
          BY DEF Spent
        <4>1. CASE c = code BY <3>3, <3>4, <4>1
        <4>2. CASE c \in accepted[u]
          <5>1. /\ c.kind = "recovery" => c.value \notin read.totp.codes
                /\ c.kind = "time" /\ c.secret = read.totp.secret
                     => read.totp.step # 0 /\ c.value <= read.totp.step
            BY <3>10, <4>2 DEF Spent
          <5>2. c.kind = "time" => c.value \in Nat BY <3>6, <4>2
          <5> QED BY <3>3, <3>4, <3>5, <5>1, <5>2
        <4> QED BY <3>8, <4>1, <4>2
      <3>11. TableHolds' /\ CodesHold'
        BY <1>1, <3>2, <3>4, <3>7, <3>9, <3>10, UpdateStep DEF u
      <3> QED BY <2>1, <3>11, AnswerAndWrite
    <2> QED BY <1>5, <2>3, <2>4 DEF LoginTotpAnswer
  <1>6. CASE TotpEnrollStartAnswer(r)
    BY <1>3, <1>6 DEF TotpEnrollStartAnswer, bounds, history
  <1>7. CASE TotpEnrollConfirmAnswer(r)
    <2> DEFINE u == q.u
               read == q.row
               totp == [on |-> TRUE, secret |-> q.s.secret, codes |-> RecoveryCode, step |-> 0]
               row == [read EXCEPT !.totp = totp]
               acc == {c \in accepted[u] : c.kind = "time"}
    <2>1. q.kind = "confirm" /\ Answer(r) /\ UNCHANGED <<clock, half>>
      BY <1>7 DEF TotpEnrollConfirmAnswer, bounds
    <2>2. CASE UNCHANGED <<users, stale, accepted>> BY <1>3, <2>1, <2>2
    <2>3. CASE /\ CanUpdate(SessionContext(q.s), u, row) /\ UpdateUserInternal(u, read, row)
               /\ accepted' = [accepted EXCEPT ![u] = acc]
      <3>1. users[u].exists BY <2>3 DEF CanUpdate
      <3>2. u \in User => users[u] # NoRow /\ Shaped(read)
        BY <1>1, <2>1, <3>1, ExistingRow DEF RecordHolds, Writing
      <3>3. IsTotp(totp) /\ totp.step = 0 BY DEF IsTotp, TotpField
      <3>4. UpdateUserInternal(u, read, row) /\ accepted' = [accepted EXCEPT ![u] = acc]
        BY <2>3
      <3> HIDE DEF totp
      <3>5. u \in User => Shaped(row) /\ row.totp = totp BY <3>2, <3>3, SecondFactorField
      <3> HIDE DEF row, read
      <3>6. \A c \in acc : c \in accepted[u] /\ c.kind = "time" OBVIOUS
      <3>7. u \in User => \A c \in accepted[u] : c.kind = "time" => c.secret # 0 /\ c.value \in Nat
        BY <1>1 DEF CodesHold
      <3> HIDE DEF acc, u
      <3>8. ASSUME u \in User, ~ EnrolsAgain(u, row.totp) PROVE Spent(row.totp, acc)
        <4>1. \A c \in accepted[u] : ~ (c.kind = "time" /\ c.secret = row.totp.secret)
          BY <3>3, <3>5, <3>8 DEF EnrolsAgain
        <4>2. \A c \in acc : c.kind # "recovery" /\ c.secret # row.totp.secret
          BY <3>6, <4>1
        <4> QED BY <4>2 DEF Spent
      <3>9. u \in User => \A c \in acc : c.kind = "time" => c.secret # 0 /\ c.value \in Nat
        BY <3>6, <3>7
      <3>10. TableHolds' /\ CodesHold'
        BY <1>1, <3>2, <3>4, <3>5, <3>8, <3>9, UpdateStep
      <3> QED BY <2>1, <3>10, AnswerAndWrite
    <2> QED BY <1>7, <2>2, <2>3 DEF TotpEnrollConfirmAnswer
  <1>8. CASE TotpDisableAnswer(r)
    <2> DEFINE u == q.u
               read == q.row
               row == [read EXCEPT !.totp = TotpOff]
               acc == accepted[u]
    <2>1. q.kind = "disable" /\ Answer(r) /\ UNCHANGED <<clock, half, accepted>>
      BY <1>8 DEF TotpDisableAnswer, bounds
    <2>2. CASE UNCHANGED <<users, stale>> BY <1>3, <2>1, <2>2
    <2>3. CASE CanUpdate(SessionContext(q.s), u, row) /\ UpdateUserInternal(u, read, row)
      <3>1. users[u].exists BY <2>3 DEF CanUpdate
      <3>2. u \in User => users[u] # NoRow /\ Shaped(read)
        BY <1>1, <2>1, <3>1, ExistingRow DEF RecordHolds, Writing
      <3>3. u \in User => Shaped(row) /\ row.totp = TotpOff
        BY <3>2, OffIsTotp, SecondFactorField
      <3>4. accepted' = [accepted EXCEPT ![u] = acc] BY <1>1, <2>1 DEF TableHolds
      <3>5. u \in User => \A c \in acc : c.kind = "time" => c.secret # 0 /\ c.value \in Nat
        BY <1>1 DEF CodesHold
      <3>6. UpdateUserInternal(u, read, row) BY <2>3
      <3> HIDE DEF row, read, acc, u
      <3>7. u \in User => Spent(row.totp, acc) BY <3>3, <3>5, OffIsTotp DEF Spent
      <3>8. TableHolds' /\ CodesHold'
        BY <1>1, <3>2, <3>3, <3>4, <3>5, <3>6, <3>7, UpdateStep
      <3> QED BY <2>1, <3>8, AnswerAndWrite
    <2> QED BY <1>8, <2>2, <2>3 DEF TotpDisableAnswer
  <1>9. CASE WebAuthnStartAnswer(r)
    BY <1>3, <1>9 DEF WebAuthnStartAnswer, bounds, history
  <1>10. CASE WebAuthnRegisterAnswer(r)
    <2> DEFINE u == q.u
               read == q.row
               keys == read.keys \union {"key"}
               row == [read EXCEPT !.keys = keys]
               acc == accepted[u]
    <2>1. q.kind = "regFinish" /\ Answer(r) /\ UNCHANGED <<clock, half, accepted>>
      BY <1>10 DEF WebAuthnRegisterAnswer, bounds
    <2>2. CASE UNCHANGED <<users, stale>> BY <1>3, <2>1, <2>2
    <2>3. CASE CanUpdate(SessionContext(q.s), u, row) /\ UpdateUserInternal(u, read, row)
      <3>1. users[u].exists BY <2>3 DEF CanUpdate
      <3>2. u \in User => users[u] # NoRow /\ Shaped(read)
        BY <1>1, <2>1, <3>1, ExistingRow DEF RecordHolds, Writing
      <3>3. u \in User => Shaped(row) /\ row.totp = read.totp BY <3>2, OtherFields
      <3>4. accepted' = [accepted EXCEPT ![u] = acc] BY <1>1, <2>1 DEF TableHolds
      <3>5. u \in User => \A c \in acc : c.kind = "time" => c.secret # 0 /\ c.value \in Nat
        BY <1>1 DEF CodesHold
      <3>6. UpdateUserInternal(u, read, row) BY <2>3
      <3> HIDE DEF row, read, acc
      <3>7. Spent(read.totp, accepted[u]) /\ u \in User => Spent(row.totp, acc)
        BY <3>3 DEF acc
      <3> HIDE DEF u
      <3>8. TableHolds' /\ CodesHold'
        BY <1>1, <3>2, <3>3, <3>4, <3>5, <3>6, <3>7, UpdateStep
      <3> QED BY <2>1, <3>8, AnswerAndWrite
    <2> QED BY <1>10, <2>2, <2>3 DEF WebAuthnRegisterAnswer
  <1>11. CASE WebAuthnLoginAnswer(r)
    <2>1. q.kind = "waFinish" /\ Answer(r) /\ UNCHANGED <<users, accepted, stale, clock>>
      BY <1>11 DEF WebAuthnLoginAnswer, bounds
    <2>2. q.u \in User BY <1>1, <2>1 DEF RecordHolds
    <2>3. CASE FirstFactorPassed(q.b, q.row, q.u) BY <1>2, <2>1, <2>2, <2>3
    <2>4. CASE UNCHANGED half BY <1>3, <2>1, <2>4
    <2> QED BY <1>11, <2>3, <2>4 DEF WebAuthnLoginAnswer
  <1>12. CASE OauthInitiateAnswer(r)
    BY <1>3, <1>12 DEF OauthInitiateAnswer, bounds, history
  <1>13. CASE OauthCallbackAnswer(r)
    BY <1>3, <1>13 DEF OauthCallbackAnswer, bounds, history
  <1> QED BY <1>4, <1>5, <1>6, <1>7, <1>8, <1>9, <1>10, <1>11, <1>12, <1>13 DEF Answers

LEMMA CodesInit == Init => CodeInv
  <1> SUFFICES ASSUME Init PROVE CodeInv OBVIOUS
  <1>1. /\ users = [u \in User |-> users[u]] /\ accepted = [u \in User |-> accepted[u]]
        /\ stale = [u \in User |-> stale[u]]
    BY DEF Init
  <1>2. ASSUME NEW row \in Row PROVE Shaped(row)
    <2>1. row = [f \in RowField |-> row[f]] /\ row.exists = TRUE /\ row.totp \in Totp
      BY DEF Row, RowField
    <2>2. IsTotp(row.totp) BY <2>1 DEF Totp, IsTotp, TotpField
    <2> QED BY <2>1, <2>2 DEF Shaped
  <1>3. TableHolds
    <2>1. ASSUME NEW u \in User PROVE users[u] = NoRow \/ Shaped(users[u])
      <3>1. users[u] \in InitialRow \union {NoRow} BY DEF Init
      <3> QED BY <1>2, <3>1, WebLoginAssumption
    <2> QED BY <1>1, <2>1 DEF TableHolds
  <1>4. CodesHold BY DEF Init, CodesHold, Spent
  <1>5. RequestsHold
    <2>1. RecordHolds(Idle) BY DEF RecordHolds, Idle, Writing
    <2>2. req = [r \in Slot |-> Idle] BY DEF Init
    <2> QED BY <2>1, <2>2 DEF RequestsHold
  <1>6. HalfHolds
    <2>1. half = [b \in Browser |-> {session[b].pending} \ {Nobody}] BY DEF Init
    <2>2. ASSUME NEW b \in Browser PROVE {session[b].pending} \ {Nobody} \subseteq User
      <3>1. session[b] \in InitialSession BY DEF Init
      <3>2. session[b].pending = Nobody \/ session[b].pending \in User
        <4>1. CASE session[b] = FreshSession
          <5>1. FreshSession.pending = Nobody BY DEF FreshSession
          <5> QED BY <4>1, <5>1
        <4>2. ASSUME NEW u \in User,
                     session[b] = [FreshSession EXCEPT !.loggedIn = TRUE, !.user = u]
              PROVE  session[b].pending = Nobody
          BY <4>2 DEF FreshSession
        <4>3. ASSUME NEW u \in User, session[b] = [FreshSession EXCEPT !.pending = u]
              PROVE  session[b].pending = u
          BY <4>3 DEF FreshSession
        <4> QED BY <3>1, <4>1, <4>2, <4>3 DEF InitialSession
      <3> QED BY <3>2
    <2> QED BY <2>1, <2>2 DEF HalfHolds
  <1>7. ClockHolds BY DEF Init, ClockHolds
  <1> QED BY <1>3, <1>4, <1>5, <1>6, <1>7 DEF CodeInv

LEMMA CodesStep == Inv /\ CodeInv /\ [Next]_vars => CodeInv'
  <1> SUFFICES ASSUME Inv, CodeInv, [Next]_vars PROVE CodeInv' OBVIOUS
  <1>1. TableHolds /\ CodesHold BY DEF CodeInv
  <1>2. ASSUME UNCHANGED <<users, accepted, stale, req, half>>, ClockHolds' PROVE CodeInv'
    <2>1. TableHolds' /\ CodesHold' BY <1>1, <1>2, TableSame
    <2> QED BY <1>2, <2>1 DEF CodeInv, RequestsHold, HalfHolds
  <1>3. ASSUME UNCHANGED clock PROVE ClockHolds' BY <1>3 DEF CodeInv, ClockHolds
  <1>4. ASSUME NEW r \in Slot, Answers(r) PROVE CodeInv' BY <1>4, CodesAnswer
  <1>5. ASSUME NEW r \in Slot, NEW b \in Browser, Arrives(r, b) PROVE CodeInv'
    BY <1>5, CodesArrive
  <1>6. ASSUME NEW b \in Browser, SessionNoLongerAvailable(b) PROVE CodeInv'
    BY <1>2, <1>3, <1>6 DEF SessionNoLongerAvailable, bounds, history
  <1>7. CASE SetupExternalAuthProviders
    BY <1>2, <1>3, <1>7 DEF SetupExternalAuthProviders, data, bounds, history
  <1>8. CASE CleanupLoop BY <1>2, <1>3, <1>8 DEF CleanupLoop, bounds, history
  <1>9. CASE Tick
    <2>1. clock' = clock + 1 /\ UNCHANGED <<users, accepted, stale, req, half>>
      BY <1>9 DEF Tick, data
    <2>2. ClockHolds' BY <2>1 DEF CodeInv, ClockHolds
    <2> QED BY <1>2, <2>1, <2>2
  <1>10. CASE Restart
    <2>1. /\ req' = [r \in Slot |-> Idle] /\ half' = [b \in Browser |-> {}]
          /\ UNCHANGED <<users, accepted, stale, clock>>
      BY <1>10 DEF Restart
    <2>2. RecordHolds(Idle) BY DEF RecordHolds, Idle, Writing
    <2>3. RequestsHold' BY <2>1, <2>2 DEF RequestsHold
    <2>4. HalfHolds' BY <2>1 DEF HalfHolds
    <2>5. TableHolds' /\ CodesHold' BY <1>1, <2>1, TableSame
    <2> QED BY <1>3, <2>1, <2>3, <2>4, <2>5 DEF CodeInv
  <1>11. ASSUME NEW u \in User, AdminEdits(u) PROVE CodeInv'
    <2>1. users[u].exists /\ UNCHANGED <<req, half, clock, accepted, stale>>
      BY <1>11 DEF AdminEdits, history
    <2>2. Shaped(users[u]) /\ users[u] # NoRow BY <1>1, <2>1, ExistingRow
    <2>3. TableHolds' /\ CodesHold'
      <3> DEFINE a == [users[u] EXCEPT !.disabled = ~ users[u].disabled]
                 l == [users[u] EXCEPT !.locked = ~ users[u].locked]
      <3>1. \/ users' = [users EXCEPT ![u] = a]
            \/ users' = [users EXCEPT ![u] = l]
            \/ users' = [users EXCEPT ![u] = NoRow]
        BY <1>11 DEF AdminEdits
      <3>2. Shaped(a) /\ a.totp = users[u].totp /\ Shaped(l) /\ l.totp = users[u].totp
        BY <2>2, OtherFields
      <3> HIDE DEF a, l
      <3> QED BY <1>1, <2>1, <2>2, <3>1, <3>2, RowStep
    <2> QED BY <1>3, <2>1, <2>3 DEF CodeInv, RequestsHold, HalfHolds
  <1>12. CASE UNCHANGED vars BY <1>2, <1>3, <1>12 DEF vars, data, bounds, history
  <1> QED BY <1>4, <1>5, <1>6, <1>7, <1>8, <1>9, <1>10, <1>11, <1>12 DEF Next

\* Every code that was accepted is spent by the row of its user, unless an overlapped
\* request has written an earlier row back or enrolled an earlier secret again.
THEOREM CodeInvariance == Spec => []CodeInv
  <1> QED BY CodesInit, CodesStep, Invariance, PTL DEF Spec

\* A code of the second factor, of a period or for recovery, is good for one login,
\* however the requests of any number of browsers overlap (auth_totp.go,
\* endpoint_authentication.go, handleLoginTotpPost).
THEOREM CodesAreUsedOnce == Spec => CodesUsedOnce
  <1> DEFINE Once ==
        \A r \in Slot :
            (req[r].kind = "totp" /\ LoginTotpAnswer(r) /\ failed'[req[r].u] = <<>>
               /\ ~ stale'[req[r].u])
                => req[r].code \notin accepted[req[r].u]
  <1>1. CodeInv /\ LimitInv /\ [Next]_vars => [Once]_vars
    <2> SUFFICES ASSUME CodeInv, LimitInv, NEW r \in Slot, req[r].kind = "totp",
                        LoginTotpAnswer(r), failed'[req[r].u] = <<>>, ~ stale'[req[r].u]
                 PROVE  req[r].code \notin accepted[req[r].u]
      OBVIOUS
    <2> DEFINE u == req[r].u
               code == req[r].code
               read == req[r].row
               row == Consumed(read, code)
               old == stale[u] \/ users[u] # read \/ EnrolsAgain(u, row.totp)
    <2>1. TableHolds /\ CodesHold /\ RecordHolds(req[r]) /\ ClockHolds
      BY DEF CodeInv, RequestsHold
    <2>2. u \in User /\ Shaped(read) BY <2>1 DEF RecordHolds, Writing
    <2>3. failed = [v \in User |-> failed[v]] /\ failed[u] \in Seq(Nat) /\ clock \in Nat
      BY <2>2 DEF LimitInv, EntryHolds, Times
    <2>4. failed' # [failed EXCEPT ![u] = Append(failed[u], clock)]
      <3>1. Append(failed[u], clock) # <<>>
        <4>1. Times(failed[u], clock) BY <2>2 DEF LimitInv, EntryHolds
        <4>2. Len(Append(failed[u], clock)) = Len(failed[u]) + 1 BY <2>3, <4>1, AppendTimes
        <4>3. Len(failed[u]) \in Nat BY <2>3
        <4> DEFINE new == Append(failed[u], clock)
        <4>4. Len(new) # 0 BY <4>2, <4>3
        <4> HIDE DEF new
        <4>5. Len(<<>>) = 0 OBVIOUS
        <4>6. new # <<>> BY <4>4, <4>5
        <4> QED BY <4>6 DEF new
      <3> QED BY <2>2, <2>3, <3>1
    <2>5. ValidateCode(read, code) /\ CanUpdate(SystemAdmin, u, row)
          /\ UpdateUserInternal(u, read, row)
      BY <2>4 DEF LoginTotpAnswer
    <2>6. stale' = [stale EXCEPT ![u] = old] BY <2>5 DEF UpdateUserInternal
    <2>7. ~ stale[u] /\ users[u] = read BY <2>1, <2>2, <2>6 DEF TableHolds
    <2>8. users[u] # NoRow BY <2>1, <2>2, <2>5, ExistingRow DEF CanUpdate
    <2>9. Spent(read.totp, accepted[u]) BY <2>1, <2>2, <2>7, <2>8 DEF CodesHold
    <2>10. /\ code.kind = "recovery" => code.value \in read.totp.codes
           /\ code.kind # "recovery" =>
                /\ code.kind = "time" /\ code.secret = read.totp.secret
                /\ read.totp.step # 0 => ~ (code.value <= read.totp.step)
      BY <2>1, <2>5, ValidCode
    <2> HIDE DEF code, u, read
    <2>11. code \notin accepted[u] BY <2>9, <2>10 DEF Spent
    <2> QED BY <2>11 DEF code, u
  <1> QED BY <1>1, CodeInvariance, LimitInvariance, PTL DEF Spec, CodesUsedOnce
===============================================================================
