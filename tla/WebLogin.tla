------------------------------- MODULE WebLogin -------------------------------
(***************************************************************************)
(* Logins of the web frontend: sessions, passwords, passkeys, OAuth, and   *)
(* the second factor with its limit of attempts                            *)
(* (api/v0/handlers/endpoint_authentication.go, totp_ratelimit.go,         *)
(* web_session.go, web_authentication.go; internal/app/auth).              *)
(*                                                                         *)
(* A request loads the session of its browser and reads the row of its     *)
(* user when it arrives, and answers later: what it writes then, to the    *)
(* session or to the row, is made of what it read.  One unit of the clock  *)
(* is one period of the codes of the second factor.                        *)
(***************************************************************************)
EXTENDS UserRow, Sequences

CONSTANTS Browser,       \* all behind one address
          Slot,          \* requests that are answered at the same time
          Known,         \* users that the directory and the OAuth provider know
          Registration,  \* registration_enabled of the providers
          MaxAttempts,   \* failures before the lockout
          Window,        \* length of the window of failures and of the lockout
          InitialRow,    \* rows users may have at the start
          MaxClock, MaxSecret, MaxEvents    \* bounds

ASSUME WebLoginAssumption ==
    /\ Known \subseteq User /\ Registration \in BOOLEAN /\ InitialRow \subseteq Row
    /\ MaxAttempts \in Nat \ {0} /\ Window \in Nat \ {0} /\ IsFiniteSet(Slot)

Nobody == "nobody"
ASSUME NobodyAssumption == Nobody \notin User

NoData == [kind |-> "", user |-> Nobody]
Provider == {"ldap", "oauth"}
RecoveryCode == {1, 2}          \* two of the eight: enough to use one and keep one

\* session data of a browser that has none yet
FreshSession ==
    [loggedIn |-> FALSE, admin |-> FALSE, user |-> Nobody, provider |-> "",
     state |-> FALSE, webAuthn |-> NoData, pending |-> Nobody, secret |-> 0]

\* a browser may have been in use before
InitialSession ==
    {FreshSession} \union {[FreshSession EXCEPT !.loggedIn = TRUE, !.user = u] : u \in User}
                   \union {[FreshSession EXCEPT !.pending = u] : u \in User}

Idle == [kind |-> "idle"]
NoEntry == [failures |-> <<>>, lockedTill |-> 0]

VARIABLES
    users,     \* the table
    session,   \* the data under the cookie that the browser holds
    req,       \* requests, with the session and the row they loaded
    limiter,   \* entries of the rate limiter
    ready,     \* providers that are set up
    queue,     \* providers whose set-up is retried
    clock, secrets, events,
    half,      \* users whose first factor this browser has shown
    granted,   \* users whose every factor this browser has shown
    accepted,  \* codes of the user that were accepted
    stale,     \* the row was overwritten with one that was read earlier,
               \* or its secret is one that was enrolled and used before
    failed     \* times of wrong codes, within the window and since the last success

data == <<users, session, limiter>>
provider == <<ready, queue>>
bounds == <<clock, secrets, events>>
history == <<half, granted, accepted, stale, failed>>
vars == <<data, req, provider, bounds, history>>

Init ==
    /\ users \in [User -> InitialRow \union {NoRow}]
    /\ session \in [Browser -> InitialSession]
    /\ req = [r \in Slot |-> Idle]
    /\ limiter = [u \in User |-> NoEntry]
    /\ ready = {} /\ queue = Provider
    /\ clock = 2 /\ secrets = 1 /\ events = 0
    /\ half = [b \in Browser |-> {session[b].pending} \ {Nobody}]
    /\ granted = [b \in Browser |-> {session[b].user} \ {Nobody}]
    /\ accepted = [u \in User |-> {}] /\ stale = [u \in User |-> FALSE]
    /\ failed = [u \in User |-> <<>>]

---------------------------------------------------------------------------
(* Sessions (web_session.go).  The middleware loads the data at the start  *)
(* of a request and stores it at its end; the last one that ends decides   *)
(* which data the browser refers to.                                       *)

GetData(b) == session[b]
SetData(b, value) == session' = [session EXCEPT ![b] = value]
DestroyData(b) == session' = [session EXCEPT ![b] = FreshSession]

SetAuthenticatedUser(b, row, u, oauthProvider) ==
    SetData(b, [FreshSession EXCEPT !.loggedIn = TRUE, !.admin = row.admin,
                                    !.user = u, !.provider = oauthProvider])

SetPendingTwoFactor(b, u) == SetData(b, [FreshSession EXCEPT !.pending = u])

NeedsTwoFactor(row) == row.totp.on /\ CanUseTotp(row)

IsUserValid(u) == users[u].exists /\ CanLogin(users[u])

\* the bound on requests and other events
Counted == events < MaxEvents /\ events' = events + 1

Arrive(r, rec) == Counted /\ req[r] = Idle /\ req' = [req EXCEPT ![r] = rec]
Answer(r) == req' = [req EXCEPT ![r] = Idle]

\* no other request of the browser is under way
Alone(r, b) == \A x \in Slot \ {r} : req[x] = Idle \/ req[x].b # b

\* the row of a user who has turned the second factor on
AsksForCode(row) == "db" \in row.src /\ row.totp.on

\* mutant: users with a passkey are not asked for a code
FirstFactorPassedSkip(b, row, u) ==
    /\ IF NeedsTwoFactor(row) /\ row.keys = {} THEN SetPendingTwoFactor(b, u)
                            ELSE SetAuthenticatedUser(b, row, u, "")
    /\ half' = [half EXCEPT ![b] = @ \union {u}]
    /\ granted' = [granted EXCEPT ![b] = IF AsksForCode(row) THEN @ ELSE @ \union {u}]

\* the first factor was right: the session is complete or waits for the code
FirstFactorPassed(b, row, u) ==
    /\ IF NeedsTwoFactor(row) THEN SetPendingTwoFactor(b, u)
                            ELSE SetAuthenticatedUser(b, row, u, "")
    /\ half' = [half EXCEPT ![b] = @ \union {u}]
    /\ granted' = [granted EXCEPT ![b] = IF AsksForCode(row) THEN @ ELSE @ \union {u}]

\* LoggedIn: the user of the session is looked up with every request
LoggedIn(b) == session[b].loggedIn /\ IsUserValid(session[b].user)

SessionNoLongerAvailable(b) ==
    /\ session[b].loggedIn /\ ~ IsUserValid(session[b].user)
    /\ DestroyData(b)
    /\ UNCHANGED <<users, limiter, req, provider, bounds, history>>

\* the context of a request with a valid session
SessionContext(s) == [id |-> s.user, admin |-> s.admin]

---------------------------------------------------------------------------
(* UpdateUserInternal, on a row that the request read when it arrived.     *)

CanUpdate(ctx, u, row) ==
    users[u].exists /\ ValidateModifications(ctx, users[u], row, u, FALSE)

\* a secret is enrolled once more: an overlapped request has stored the session
\* of the first enrolment again, and the codes of that time have no step yet
EnrolsAgain(u, totp) ==
    totp.step = 0 /\ \E c \in accepted[u] : c.kind = "time" /\ c.secret = totp.secret

UpdateUserInternal(u, read, row) ==
    /\ users' = [users EXCEPT ![u] = [row EXCEPT !.password = users[u].password]]
    /\ stale' = [stale EXCEPT ![u] = @ \/ users[u] # read \/ EnrolsAgain(u, row.totp)]

---------------------------------------------------------------------------
(* Password logins.                                                        *)

\* passwordAuthentication for a user in the table, with the right password
PasswordAuthentication(row) ==
    /\ CanLogin(row)
    /\ \/ "db" \in row.src /\ row.password # NoPassword
       \/ "ldap" \in row.src /\ "ldap" \in ready

\* ... and for one who is not: he is registered if the directory knows him
RegistersAtLogin(u) ==
    ~ users[u].exists /\ u \in Known /\ Registration /\ "ldap" \in ready

TheProfile == CHOOSE p \in Profile : TRUE
NewcomerRow(source) == RegisteredUser([profile |-> TheProfile, admin |-> FALSE], source)

LoginPost(r, b, u) ==
    /\ ~ GetData(b).loggedIn
    /\ \/ users[u].exists /\ PasswordAuthentication(users[u])
          /\ Arrive(r, [kind |-> "login", b |-> b, u |-> u, row |-> users[u]])
          /\ UNCHANGED users
       \/ RegistersAtLogin(u)
          /\ users' = [users EXCEPT ![u] = NewcomerRow("ldap")]
          /\ Arrive(r, [kind |-> "login", b |-> b, u |-> u, row |-> NewcomerRow("ldap")])
    /\ UNCHANGED <<session, limiter, provider, clock, secrets, history>>

LoginPostAnswer(r) ==
    LET q == req[r]
    IN  /\ q.kind = "login" /\ Answer(r)
        /\ FirstFactorPassed(q.b, q.row, q.u)
        /\ UNCHANGED <<users, limiter, provider, bounds, accepted, stale, failed>>

LogoutPost(r, b) ==
    /\ Counted /\ req[r] = Idle /\ GetData(b).loggedIn
    /\ DestroyData(b)
    /\ half' = [half EXCEPT ![b] = IF Alone(r, b) THEN {} ELSE @]
    /\ granted' = [granted EXCEPT ![b] = IF Alone(r, b) THEN {} ELSE @]
    /\ UNCHANGED <<users, limiter, req, provider, clock, secrets, accepted, stale, failed>>

---------------------------------------------------------------------------
(* The limit of attempts (totp_ratelimit.go); a missing entry is an empty  *)
(* one.                                                                    *)

Allow(u) == clock >= limiter[u].lockedTill

\* failures are recorded in the order of time: those before the window come first
Old(times, now) == {i \in DOMAIN times : times[i] + Window <= now}
Recent(times, now) == SubSeq(times, Cardinality(Old(times, now)) + 1, Len(times))

\* mutant: the lockout starts one failure later
RecordFailureLate(u) ==
    LET failures == Append(Recent(limiter[u].failures, clock), clock)
    IN  limiter' = [limiter EXCEPT ![u] =
            IF Len(failures) > MaxAttempts
            THEN [failures |-> <<>>, lockedTill |-> clock + Window]
            ELSE [@ EXCEPT !.failures = failures]]

RecordFailure(u) ==
    LET failures == Append(Recent(limiter[u].failures, clock), clock)
    IN  limiter' = [limiter EXCEPT ![u] =
            IF Len(failures) >= MaxAttempts
            THEN [failures |-> <<>>, lockedTill |-> clock + Window]
            ELSE [@ EXCEPT !.failures = failures]]

Reset(u) == limiter' = [limiter EXCEPT ![u] = NoEntry]

CleanupLoop ==
    /\ limiter' = [u \in User |->
                     IF clock > limiter[u].lockedTill /\ Recent(limiter[u].failures, clock) = <<>>
                     THEN NoEntry ELSE limiter[u]]
    /\ UNCHANGED <<users, session, req, provider, bounds, history>>

---------------------------------------------------------------------------
(* The second factor (auth_totp.go).  A code is one of the period it was   *)
(* made in, a recovery code, or wrong.                                     *)

TimeCode(secret, step) == [kind |-> "time", secret |-> secret, value |-> step]
Recovery(n) == [kind |-> "recovery", secret |-> 0, value |-> n]
WrongCode == [kind |-> "wrong", secret |-> 0, value |-> 0]

\* codes a browser may send: what the device of the user shows or showed
CodesFor(row) ==
    {TimeCode(row.totp.secret, t) : t \in clock - 1 .. clock + 1}
        \union {Recovery(n) : n \in RecoveryCode} \union {WrongCode}

ValidateTotpWithStep(code, secret) ==
    code.kind = "time" /\ code.secret = secret /\ code.value \in clock - 1 .. clock + 1

\* mutant: the step of the last code is good once more
ValidateCodeAgain(row, code) ==
    /\ row.totp.on /\ row.totp.secret # 0
    /\ IF code.kind = "recovery" THEN code.value \in row.totp.codes
       ELSE /\ ValidateTotpWithStep(code, row.totp.secret)
            /\ ~ (code.value < row.totp.step /\ row.totp.step # 0)

ValidateCode(row, code) ==
    /\ row.totp.on /\ row.totp.secret # 0
    /\ IF code.kind = "recovery" THEN code.value \in row.totp.codes
       ELSE /\ ValidateTotpWithStep(code, row.totp.secret)
            /\ ~ (code.value <= row.totp.step /\ row.totp.step # 0)

\* what validation leaves in the row
Consumed(row, code) ==
    IF code.kind = "recovery" THEN [row EXCEPT !.totp.codes = @ \ {code.value}]
    ELSE [row EXCEPT !.totp.step = code.value]

\* the attempt is counted by its pending user, and judged later
LoginTotpPost(r, b) ==
    LET u == GetData(b).pending
    IN  /\ u # Nobody /\ Allow(u) /\ users[u].exists
        /\ \E code \in CodesFor(users[u]) :
              Arrive(r, [kind |-> "totp", b |-> b, u |-> u, row |-> users[u], code |-> code])
        /\ UNCHANGED <<data, provider, clock, secrets, history>>

LoginTotpAnswer(r) ==
    LET q == req[r]
        row == Consumed(q.row, q.code)
    IN  /\ q.kind = "totp" /\ Answer(r)
        /\ IF ValidateCode(q.row, q.code) /\ CanUpdate(SystemAdmin, q.u, row)
           THEN /\ UpdateUserInternal(q.u, q.row, row)
                /\ Reset(q.u)
                /\ SetAuthenticatedUser(q.b, row, q.u, "")
                /\ granted' = [granted EXCEPT ![q.b] = @ \union {q.u}]
                /\ accepted' = [accepted EXCEPT ![q.u] = @ \union {q.code}]
                /\ failed' = [failed EXCEPT ![q.u] = <<>>]
                /\ UNCHANGED half
           ELSE /\ RecordFailure(q.u)
                /\ failed' = [failed EXCEPT ![q.u] = Append(@, clock)]
                /\ UNCHANGED <<users, session, half, granted, accepted, stale>>
        /\ UNCHANGED <<provider, bounds>>

TotpEnrollStart(r, b) ==
    LET s == GetData(b)
    IN  /\ LoggedIn(b) /\ CanUseTotp(users[s.user]) /\ secrets < MaxSecret
        /\ secrets' = secrets + 1
        /\ Arrive(r, [kind |-> "enroll", b |-> b, s |-> [s EXCEPT !.secret = secrets + 1]])
        /\ UNCHANGED <<data, provider, clock, history>>

TotpEnrollStartAnswer(r) ==
    /\ req[r].kind = "enroll" /\ Answer(r)
    /\ SetData(req[r].b, req[r].s)
    /\ UNCHANGED <<users, limiter, provider, bounds, history>>

TotpEnrollConfirm(r, b) ==
    LET s == GetData(b)
    IN  /\ LoggedIn(b) /\ s.secret # 0 /\ CanUseTotp(users[s.user])
        /\ Arrive(r, [kind |-> "confirm", b |-> b, u |-> s.user, s |-> s,
                      row |-> users[s.user]])
        /\ UNCHANGED <<data, provider, clock, secrets, history>>

\* the codes of an earlier secret are of no use any more
TotpEnrollConfirmAnswer(r) ==
    LET q == req[r]
        row == [q.row EXCEPT !.totp = [on |-> TRUE, secret |-> q.s.secret,
                                       codes |-> RecoveryCode, step |-> 0]]
    IN  /\ q.kind = "confirm" /\ Answer(r)
        /\ IF CanUpdate(SessionContext(q.s), q.u, row)
           THEN /\ UpdateUserInternal(q.u, q.row, row)
                /\ SetData(q.b, [q.s EXCEPT !.secret = 0])
                /\ accepted' = [accepted EXCEPT ![q.u] = {c \in @ : c.kind = "time"}]
           ELSE UNCHANGED <<users, stale, session, accepted>>
        /\ UNCHANGED <<limiter, provider, bounds, half, granted, failed>>

TotpDisablePost(r, b) ==
    LET s == GetData(b)
    IN  /\ LoggedIn(b)
        /\ Arrive(r, [kind |-> "disable", b |-> b, u |-> s.user, s |-> s,
                      row |-> users[s.user]])
        /\ UNCHANGED <<data, provider, clock, secrets, history>>

TotpDisableAnswer(r) ==
    LET q == req[r]
        row == [q.row EXCEPT !.totp = TotpOff]
    IN  /\ q.kind = "disable" /\ Answer(r)
        /\ IF CanUpdate(SessionContext(q.s), q.u, row)
           THEN UpdateUserInternal(q.u, q.row, row)
           ELSE UNCHANGED <<users, stale>>
        /\ UNCHANGED <<session, limiter, provider, bounds, half, granted, accepted, failed>>

---------------------------------------------------------------------------
(* Passkeys (webauthn.go).  "handle" stands for the WebAuthn id of the     *)
(* user, "key" for a passkey.                                              *)

WebAuthnRegisterStart(r, b) ==
    LET s == GetData(b)
        row == [users[s.user] EXCEPT !.keys = @ \union {"handle"}]
    IN  /\ LoggedIn(b)
        /\ IF "handle" \in users[s.user].keys THEN UNCHANGED <<users, stale>>
           ELSE CanUpdate(SessionContext(s), s.user, row)
                /\ UpdateUserInternal(s.user, users[s.user], row)
        /\ Arrive(r, [kind |-> "regStart", b |-> b,
                      s |-> [s EXCEPT !.webAuthn = [kind |-> "register", user |-> s.user]]])
        /\ UNCHANGED <<session, limiter, provider, clock, secrets, half, granted, accepted, failed>>

WebAuthnLoginStart(r, b) ==
    /\ Arrive(r, [kind |-> "waStart", b |-> b,
                  s |-> [GetData(b) EXCEPT !.webAuthn = [kind |-> "login", user |-> Nobody]]])
    /\ UNCHANGED <<data, provider, clock, secrets, history>>

WebAuthnStartAnswer(r) ==
    /\ req[r].kind \in {"regStart", "waStart"} /\ Answer(r)
    /\ SetData(req[r].b, req[r].s)
    /\ UNCHANGED <<users, limiter, provider, bounds, history>>

\* the data of the ceremony is used up whatever the outcome
WebAuthnRegisterFinish(r, b) ==
    LET s == GetData(b)
    IN  /\ LoggedIn(b) /\ s.webAuthn # NoData
        /\ Arrive(r, [kind |-> "regFinish", b |-> b, u |-> s.user, s |-> s,
                      row |-> users[s.user]])
        /\ UNCHANGED <<data, provider, clock, secrets, history>>

WebAuthnRegisterAnswer(r) ==
    LET q == req[r]
        row == [q.row EXCEPT !.keys = @ \union {"key"}]
    IN  /\ q.kind = "regFinish" /\ Answer(r)
        /\ SetData(q.b, [q.s EXCEPT !.webAuthn = NoData])
        /\ IF /\ q.s.webAuthn = [kind |-> "register", user |-> q.u]
              /\ "key" \notin q.row.keys
              /\ CanUpdate(SessionContext(q.s), q.u, row)
           THEN UpdateUserInternal(q.u, q.row, row)
           ELSE UNCHANGED <<users, stale>>
        /\ UNCHANGED <<limiter, provider, bounds, half, granted, accepted, failed>>

WebAuthnLoginFinish(r, b, u) ==
    /\ GetData(b).webAuthn # NoData
    /\ users[u].exists /\ "key" \in users[u].keys
    /\ Arrive(r, [kind |-> "waFinish", b |-> b, u |-> u, s |-> GetData(b), row |-> users[u]])
    /\ UNCHANGED <<data, provider, clock, secrets, history>>

WebAuthnLoginAnswer(r) ==
    LET q == req[r]
    IN  /\ q.kind = "waFinish" /\ Answer(r)
        /\ IF q.s.webAuthn.kind = "login" /\ CanLogin(q.row)
           THEN FirstFactorPassed(q.b, q.row, q.u)
           ELSE SetData(q.b, [q.s EXCEPT !.webAuthn = NoData]) /\ UNCHANGED <<half, granted>>
        /\ UNCHANGED <<users, limiter, provider, bounds, accepted, stale, failed>>

WebAuthnCredentialsDelete(r, b) ==
    LET s == GetData(b)
        row == [users[s.user] EXCEPT !.keys = @ \ {"key"}]
    IN  /\ Counted /\ req[r] = Idle /\ LoggedIn(b) /\ "key" \in users[s.user].keys
        /\ CanUpdate(SessionContext(s), s.user, row)
        /\ UpdateUserInternal(s.user, users[s.user], row)
        /\ UNCHANGED <<session, limiter, req, provider, clock, secrets, half, granted, accepted, failed>>

---------------------------------------------------------------------------
(* OAuth.  A state is fresh for every initiation: the callback carries the *)
(* state of the session or one that is refused.                            *)

OauthInitiate(r, b) ==
    /\ ~ GetData(b).loggedIn /\ "oauth" \in ready
    /\ Arrive(r, [kind |-> "oauthInit", b |-> b, s |-> [GetData(b) EXCEPT !.state = TRUE]])
    /\ UNCHANGED <<data, provider, clock, secrets, history>>

OauthInitiateAnswer(r) ==
    /\ req[r].kind = "oauthInit" /\ Answer(r)
    /\ SetData(req[r].b, req[r].s)
    /\ UNCHANGED <<users, limiter, provider, bounds, history>>

\* exchange, profile of the user, registration or update of his row
OauthLoginStep2(r, b, u) ==
    LET entry == [profile |-> TheProfile, admin |-> FALSE]
        row == IF ~ users[u].exists THEN NewcomerRow("oauth")
               ELSE IF UpdatesExternalUser(users[u], entry, "oauth")
               THEN ExternalUser(users[u], entry, "oauth") ELSE users[u]
    IN  /\ ~ GetData(b).loggedIn /\ GetData(b).state
        /\ u \in Known /\ "oauth" \in ready
        /\ users[u].exists \/ Registration
        /\ users' = [users EXCEPT ![u] = row]
        /\ CanLogin(row)
        /\ Arrive(r, [kind |-> "callback", b |-> b, u |-> u, row |-> row])
        /\ UNCHANGED <<session, limiter, provider, clock, secrets, history>>

OauthCallbackAnswer(r) ==
    LET q == req[r]
    IN  /\ q.kind = "callback" /\ Answer(r)
        /\ SetAuthenticatedUser(q.b, q.row, q.u, "oauth")
        /\ UNCHANGED <<users, limiter, provider, bounds, history>>

---------------------------------------------------------------------------
(* The set-up of the providers, and what happens around the logins.        *)

\* each provider in the queue answers or is tried again later
SetupExternalAuthProviders ==
    /\ \E ok \in SUBSET queue : ok # {} /\ ready' = ready \union ok /\ queue' = queue \ ok
    /\ UNCHANGED <<data, req, bounds, history>>

Tick ==
    /\ clock < MaxClock /\ clock' = clock + 1
    /\ failed' = [u \in User |-> Recent(failed[u], clock + 1)]
    /\ UNCHANGED <<data, req, provider, secrets, events, half, granted, accepted, stale>>

\* an administrator blocks or deletes a user; the second factor is untouched
AdminEdits(u) ==
    /\ Counted /\ users[u].exists
    /\ \/ users' = [users EXCEPT ![u].disabled = ~ @]
       \/ users' = [users EXCEPT ![u].locked = ~ @]
       \/ users' = [users EXCEPT ![u] = NoRow]
    /\ UNCHANGED <<session, limiter, req, provider, clock, secrets, history>>

\* sessions and the limiter live in memory only
Restart ==
    /\ Counted
    /\ session' = [b \in Browser |-> FreshSession]
    /\ req' = [r \in Slot |-> Idle]
    /\ limiter' = [u \in User |-> NoEntry]
    /\ ready' = {} /\ queue' = Provider
    /\ half' = [b \in Browser |-> {}] /\ granted' = [b \in Browser |-> {}]
    /\ failed' = [u \in User |-> <<>>]
    /\ UNCHANGED <<users, clock, secrets, accepted, stale>>

---------------------------------------------------------------------------

Arrives(r, b) ==
    \/ \E u \in User : LoginPost(r, b, u) \/ WebAuthnLoginFinish(r, b, u) \/ OauthLoginStep2(r, b, u)
    \/ LogoutPost(r, b) \/ LoginTotpPost(r, b)
    \/ TotpEnrollStart(r, b) \/ TotpEnrollConfirm(r, b) \/ TotpDisablePost(r, b)
    \/ WebAuthnRegisterStart(r, b) \/ WebAuthnRegisterFinish(r, b)
    \/ WebAuthnLoginStart(r, b) \/ WebAuthnCredentialsDelete(r, b)
    \/ OauthInitiate(r, b)

Answers(r) ==
    \/ LoginPostAnswer(r) \/ LoginTotpAnswer(r)
    \/ TotpEnrollStartAnswer(r) \/ TotpEnrollConfirmAnswer(r) \/ TotpDisableAnswer(r)
    \/ WebAuthnStartAnswer(r) \/ WebAuthnRegisterAnswer(r) \/ WebAuthnLoginAnswer(r)
    \/ OauthInitiateAnswer(r) \/ OauthCallbackAnswer(r)

Next ==
    \/ \E r \in Slot : Answers(r) \/ \E b \in Browser : Arrives(r, b)
    \/ \E b \in Browser : SessionNoLongerAvailable(b)
    \/ SetupExternalAuthProviders \/ CleanupLoop
    \/ Tick \/ Restart
    \/ \E u \in User : AdminEdits(u)

Spec == Init /\ [][Next]_vars

---------------------------------------------------------------------------
(* Properties *)

\* Whoever is logged in without a provider has shown every factor that his row
\* asked for when it was checked, in this browser and since its last logout
\* (unless that overlapped with another request); and whoever is asked for a
\* code has shown the first factor.  Requests of one browser may overlap, so
\* sessions may be stored out of order.
SecondFactorKept ==
    \A b \in Browser :
        /\ session[b].loggedIn /\ session[b].provider = "" => session[b].user \in granted[b]
        /\ session[b].pending # Nobody => session[b].pending \in half[b]

\* A code is good for one login: a second one is accepted only if a request
\* wrote back a row that had been read before the first, or if the secret was
\* enrolled again from a session that a request had stored out of order.
CodesUsedOnce ==
    [][\A r \in Slot :
          (req[r].kind = "totp" /\ LoginTotpAnswer(r) /\ failed'[req[r].u] = <<>> /\ ~ stale'[req[r].u])
              => req[r].code \notin accepted[req[r].u]]_vars

\* Within any window there are at most MaxAttempts failures, and one more for
\* each further request that was let in before the lockout: the counter is
\* emptied when the lockout starts and entries are purged in between.
AttemptsBounded ==
    \A u \in User : Len(failed[u]) <= MaxAttempts + Cardinality(Slot) - 1
=============================================================================
