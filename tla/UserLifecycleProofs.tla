-------------------------- MODULE UserLifecycleProofs --------------------------
(***************************************************************************)
(* Proofs about users and their peers, for any number of users, requests,  *)
(* peers and events and all settings, in three parts: the writers of the   *)
(* users table (UserAccounts), the writers of a user's peers (UserPeers),  *)
(* and both together (UserLifecycle): what the user manager does is what   *)
(* UserPeers assumes of it, so that the peers follow the row of their      *)
(* owner.                                                                  *)
(***************************************************************************)
EXTENDS UserLifecycle, TLAPS

---------------------------------------------------------------------------
(* PART ONE: the writers of the users table.                               *)

Requester == Slot \union {Sync}
Answer == {Listed(e) : e \in Entry} \union {Absent}
UpdateKind == {"put", "bulk", "token", "password", "totpOn", "totpOff", "external", "sync"}

\* a request and the rows it carries, from its read on
Rereading == [pos : {"reread"}, kind : {"totpOn", "totpOff", "external"}, u : User,
              ctx : {SystemAdmin} \union {UserContext(u) : u \in User}, new : Row]
SyncRereading == [pos : {"reread"}, kind : {"sync"}, u : User, old : Row]
Updating == [pos : {"save", "publish"}, kind : UpdateKind, u : User, old : Row, new : Row]
Inserting == [pos : {"save", "publish"}, kind : {"create"}, u : User, new : Row]
Marking == [pos : {"save", "publish"}, kind : {"delete", "missing"}, u : User]
Busying == Rereading \union SyncRereading \union Updating \union Inserting \union Marking

Pass == [pos : {"updating"}, todo : SUBSET User, entries : [User -> Answer]]
        \union [pos : {"disabling"}, todo : SUBSET User, entries : [User -> Answer],
                rows : [User -> Row \union {NoRow}]]

Typed ==
    /\ users \in [User -> Row \union {NoRow}]
    /\ directory \in [User -> Answer]
    /\ req \in [Requester -> {NoRequest} \union Busying]
    /\ sync \in {BetweenPasses} \union Pass
    /\ told \in [User -> {"on", "off"}]
    /\ raced \in [User -> BOOLEAN]
    /\ \A r \in Requester : req[r].pos = "reread" => (r = Sync <=> req[r].kind = "sync")
    /\ req[Sync].pos = "reread" => sync.pos = "updating" /\ sync.entries[req[Sync].u].listed

UnderWay(r, u) == req[r].pos # "idle" /\ req[r].u = u

Single(u) ==
    /\ \A r, s \in Requester : UnderWay(r, u) /\ UnderWay(s, u) => r = s
    /\ sync.pos = "disabling" /\ u \in sync.todo =>
          sync.rows[u] = users[u] /\ \A r \in Requester : ~ UnderWay(r, u)

Settled(u) == Exists(u) => (told[u] = "off" <=> users[u].disabled)

Hashed(account) == account.password # NoPassword => account.password.hashed /\ HasDatabaseSource(account)

Prepared(q) ==
    /\ Exists(q.u)
    /\ IF q.kind = "sync" THEN q.old = users[q.u] ELSE users[q.u].src \subseteq q.new.src

Sound(q) ==
    q.kind # "delete" => Hashed(Saved(q)) /\ (Told(q) = "off" <=> Saved(q).disabled)

\* ... because the row is still what the request took it for
Expected(q) ==
    /\ q.kind \in UpdateKind => Exists(q.u) /\ q.old.disabled = users[q.u].disabled
    /\ q.kind = "create" => ~ Exists(q.u)
    /\ q.kind = "missing" => Exists(q.u) /\ ~ users[q.u].disabled
    /\ q.kind = "delete" => Exists(q.u)

Due(q) == Exists(q.u) => (Told(q) = "off" <=> users[q.u].disabled)

Faithful(q) ==
    /\ q.pos = "reread" => Prepared(q)
    /\ q.pos = "save" => Sound(q) /\ Expected(q)
    /\ q.pos = "publish" => Due(q)

UserInv(u) ==
    /\ Single(u)
    /\ Exists(u) => Hashed(users[u])
    /\ \A r \in Requester : UnderWay(r, u) => Faithful(req[r])
    /\ (\A r \in Requester : UnderWay(r, u) => req[r].pos # "publish") => Settled(u)

AccountInv == Typed /\ \A u \in User : ~ raced[u] => UserInv(u)

---------------------------------------------------------------------------
(* Rows: what every operator on rows keeps. *)

LEMMA PlainIsPassword ==
    /\ NoPassword \in [text : Password \union {""}, hashed : BOOLEAN]
    /\ \A t \in Password \union {""} : Plain(t) \in [text : Password \union {""}, hashed : BOOLEAN]
  BY DEF NoPassword, Plain

LEMMA EmptyRowIsRow == ASSUME NEW p \in Profile PROVE EmptyRow(p) \in Row
  <1>1. TotpOff \in Totp BY DEF TotpOff, Totp
  <1> QED BY <1>1, PlainIsPassword DEF Row, EmptyRow, Reason

\* a row that is there exists, and NoRow does not
LEMMA Existence ==
    ASSUME users \in [User -> Row \union {NoRow}], NEW u \in User
    PROVE  /\ Exists(u) \in BOOLEAN
           /\ Exists(u) => users[u] \in Row
           /\ ~ Exists(u) => users[u] = NoRow
  <1>1. CASE users[u] \in Row
    <2>1. users[u].exists = TRUE BY <1>1 DEF Row
    <2> QED BY <1>1, <2>1 DEF Exists
  <1>2. CASE users[u] = NoRow
    <2>1. users[u].exists = FALSE BY <1>2 DEF NoRow
    <2> QED BY <1>2, <2>1 DEF Exists
  <1> QED BY <1>1, <1>2

LEMMA CopiesAreRows ==
    ASSUME NEW account \in Row, NEW db \in Row, NEW with \in BOOLEAN
    PROVE  /\ CopyCalculatedAttributes(account, db, with) \in Row
           /\ CopyCalculatedAttributes(account, db, with).password = account.password
           /\ CopyCalculatedAttributes(account, db, with).disabled = account.disabled
           /\ CopyCalculatedAttributes(account, db, with).src = IF with THEN db.src ELSE account.src
           /\ CopyAdminAttributes(account, db) \in Row
  <1>1. CopyAdminAttributes(account, db) \in Row
    <2>1. (IF ApiAdminOnly THEN db.token ELSE account.token) \in BOOLEAN
      BY UserRowAssumption DEF Row
    <2> DEFINE r1 == [account EXCEPT !.admin = db.admin, !.src = db.src, !.persist = db.persist]
               r2 == [r1 EXCEPT !.disabled = db.disabled, !.reason = db.reason, !.locked = db.locked]
               token == IF ApiAdminOnly THEN db.token ELSE account.token
    <2>2. r1 \in Row /\ r1.token = account.token BY DEF Row
    <2> HIDE DEF r1
    <2>3. r2 \in Row /\ r2.token = account.token BY <2>2 DEF Row
    <2> HIDE DEF r2, token
    <2>4. [r2 EXCEPT !.profile = db.profile, !.token = token] \in Row BY <2>1, <2>3 DEF Row, token
    <2>5. CopyAdminAttributes(account, db) = [r2 EXCEPT !.profile = db.profile, !.token = token]
      BY <2>2, <2>3 DEF CopyAdminAttributes, r1, r2, token
    <2> QED BY <2>4, <2>5
  <1>2. CASE with
    <2>1. CopyCalculatedAttributes(account, db, with) = [account EXCEPT !.src = db.src, !.keys = db.keys]
      BY <1>2 DEF CopyCalculatedAttributes
    <2> QED BY <1>1, <1>2, <2>1 DEF Row
  <1>3. CASE ~ with
    BY <1>1, <1>3 DEF CopyCalculatedAttributes
  <1> QED BY <1>2, <1>3

LEMMA HashedRow ==
    ASSUME NEW account \in Row
    PROVE  /\ HashPassword(account) \in Row
           /\ HashPassword(account).src = account.src
           /\ HashPassword(account).disabled = account.disabled
           /\ HashPassword(account).password # NoPassword <=> account.password # NoPassword
           /\ account.password # NoPassword => HashPassword(account).password.hashed
  <1>1. CASE account.password = NoPassword BY <1>1 DEF HashPassword
  <1>2. CASE account.password # NoPassword
    <2>1. HashPassword(account) = [account EXCEPT !.password.hashed = TRUE] BY <1>2 DEF HashPassword
    <2>2. /\ HashPassword(account) \in Row /\ HashPassword(account).src = account.src
          /\ HashPassword(account).disabled = account.disabled
          /\ HashPassword(account).password.hashed = TRUE
      BY <2>1 DEF Row
    <2>3. NoPassword.hashed = FALSE BY DEF NoPassword, Plain
    <2>4. HashPassword(account).password # NoPassword BY <2>2, <2>3
    <2> QED BY <1>2, <2>2, <2>4
  <1> QED BY <1>1, <1>2

\* what a writer makes of the row it read and the row it wants
Wanted(old, new) ==
    IF new.password = NoPassword THEN [new EXCEPT !.password = old.password]
    ELSE HashPassword(new)

LEMMA WantedRow ==
    ASSUME NEW old \in Row, NEW new \in Row
    PROVE  /\ Wanted(old, new) \in Row
           /\ Wanted(old, new).disabled = new.disabled
           /\ Wanted(old, new).src = new.src
           /\ new.password = NoPassword => Wanted(old, new).password = old.password
           /\ new.password # NoPassword => Wanted(old, new).password.hashed
  <1>1. [new EXCEPT !.password = old.password] \in Row BY DEF Row
  <1>2. CASE new.password = NoPassword BY <1>1, <1>2 DEF Wanted, Row
  <1>3. CASE new.password # NoPassword BY <1>3, HashedRow DEF Wanted
  <1> QED BY <1>2, <1>3

LEMMA FormsAreRows ==
    ASSUME NEW form \in Form, NEW token \in BOOLEAN
    PROVE  NewDomainUser(form) \in Row /\ NewDomainUserV1(form, token) \in Row
  <1> DEFINE empty == EmptyRow(form.profile)
             admin == IF form.disabled /\ form.reason = "" THEN "admin" ELSE form.reason
             api == IF form.disabled /\ form.reason = "" THEN "api" ELSE form.reason
  <1>1. empty \in Row BY EmptyRowIsRow DEF Form
  <1>2. form.password \in [text : Password \union {""}, hashed : BOOLEAN]
    BY PlainIsPassword DEF Form
  <1>3. admin \in Reason /\ api \in Reason BY DEF Form, Reason
  <1>4. {form.admin, form.persist, form.disabled, form.locked} \subseteq BOOLEAN BY DEF Form
  <1> DEFINE r1 == [empty EXCEPT !.admin = form.admin, !.persist = form.persist,
                                 !.disabled = form.disabled]
             s1 == [empty EXCEPT !.admin = form.admin, !.disabled = form.disabled]
             s2 == [s1 EXCEPT !.locked = form.locked, !.password = form.password]
  <1>5. NewDomainUser(form) =
          [r1 EXCEPT !.locked = form.locked, !.password = form.password, !.reason = admin]
    BY DEF NewDomainUser
  <1>6. NewDomainUserV1(form, token) = [s2 EXCEPT !.token = token, !.reason = api]
    BY DEF NewDomainUserV1
  <1> HIDE DEF empty, admin, api
  <1>7. r1 \in Row /\ s1 \in Row BY <1>1, <1>4 DEF Row
  <1> HIDE DEF r1, s1
  <1>8. s2 \in Row BY <1>2, <1>4, <1>7 DEF Row
  <1> HIDE DEF s2
  <1>9. NewDomainUser(form) \in Row BY <1>2, <1>3, <1>4, <1>5, <1>7 DEF Row
  <1>10. NewDomainUserV1(form, token) \in Row BY <1>3, <1>6, <1>8 DEF Row
  <1> QED BY <1>9, <1>10

LEMMA EditsAreForms == ASSUME NEW account \in Row, NEW form \in Edits(account) PROVE form \in Form
  <1>1. FormOf(account) \in Form BY DEF FormOf, Form, Row, NoPassword
  <1>2. ASSUME NEW t \in Password PROVE [FormOf(account) EXCEPT !.password = Plain(t)] \in Form
    BY <1>1 DEF Form
  <1>3. ASSUME NEW f \in {[FormOf(account) EXCEPT !.admin = ~ @], [FormOf(account) EXCEPT !.persist = ~ @],
                          [FormOf(account) EXCEPT !.disabled = ~ @], [FormOf(account) EXCEPT !.locked = ~ @]}
                  \union {[FormOf(account) EXCEPT !.profile = p] : p \in Profile}
        PROVE  f \in Form
    BY <1>1, <1>3 DEF Form
  <1> QED BY <1>1, <1>2, <1>3 DEF Edits

LEMMA EntriesAreRows ==
    ASSUME NEW e \in Entry
    PROVE  /\ ConvertRawLdapUser(e) \in Row /\ RegisteredUser(e, "oauth") \in Row
           /\ ConvertRawLdapUser(e).password = NoPassword
           /\ RegisteredUser(e, "oauth").password = NoPassword
           /\ \A account \in Row :
                 /\ ExternalUser(account, e, "oauth") \in Row
                 /\ account.src \subseteq ExternalUser(account, e, "oauth").src
                 /\ LdapUser(e, account) \in Row
  <1>1. e.profile \in Profile /\ e.admin \in BOOLEAN BY DEF Entry
  <1>2. EmptyRow(e.profile) \in Row /\ EmptyRow(e.profile).password = NoPassword
    BY <1>1, EmptyRowIsRow DEF EmptyRow
  <1>3. ConvertRawLdapUser(e) \in Row /\ ConvertRawLdapUser(e).password = NoPassword
    BY <1>1, <1>2 DEF ConvertRawLdapUser, Row, Source
  <1>4. RegisteredUser(e, "oauth") \in Row /\ RegisteredUser(e, "oauth").password = NoPassword
    BY <1>1, <1>2 DEF RegisteredUser, Row, Source
  <1>5. ASSUME NEW account \in Row
        PROVE  /\ ExternalUser(account, e, "oauth") \in Row
               /\ account.src \subseteq ExternalUser(account, e, "oauth").src
               /\ LdapUser(e, account) \in Row
    <2>1. account.src \union {"oauth"} \in SUBSET Source BY DEF Row, Source
    <2>2. ExternalUser(account, e, "oauth") \in Row BY <1>1, <2>1 DEF ExternalUser, Row
    <2>3. account.src \subseteq ExternalUser(account, e, "oauth").src BY DEF ExternalUser, Row
    <2>4. LdapUser(e, account) \in Row BY <1>3 DEF LdapUser, Row
    <2> QED BY <2>2, <2>3, <2>4
  <1> QED BY <1>3, <1>4, <1>5

---------------------------------------------------------------------------
(* Requests and the users they write. *)

LEMMA SyncIsRequester == Sync \in Requester /\ Sync \notin Slot
  BY UserAccountsAssumption DEF Requester

LEMMA RequestShape ==
    ASSUME NEW q \in Busying
    PROVE  /\ q.u \in User /\ q.pos \in {"reread", "save", "publish"}
           /\ q # NoRequest
           /\ q.pos = "reread" /\ q.kind = "sync" => q \in SyncRereading
           /\ q.pos = "reread" /\ q.kind # "sync" => q \in Rereading
           /\ q.pos # "reread" /\ q.kind \in {"delete", "missing"} => q \in Marking
           /\ q.pos # "reread" /\ q.kind = "create" => q \in Inserting
           /\ q.pos # "reread" /\ q.kind \notin {"delete", "missing", "create"} => q \in Updating
  <1>1. CASE q \in Rereading BY <1>1 DEF Rereading, NoRequest
  <1>2. CASE q \in SyncRereading BY <1>2 DEF SyncRereading, NoRequest
  <1>3. CASE q \in Updating BY <1>3 DEF Updating, UpdateKind, NoRequest
  <1>4. CASE q \in Inserting BY <1>4 DEF Inserting, NoRequest
  <1>5. CASE q \in Marking BY <1>5 DEF Marking, NoRequest
  <1> QED BY <1>1, <1>2, <1>3, <1>4, <1>5 DEF Busying

LEMMA IdleOrBusy ==
    ASSUME Typed, NEW r \in Requester
    PROVE  /\ req[r].pos = "idle" <=> req[r] = NoRequest
           /\ req[r].pos # "idle" <=> req[r] \in Busying
  <1>1. req[r] = NoRequest \/ req[r] \in Busying BY DEF Typed
  <1>2. NoRequest.pos = "idle" BY DEF NoRequest
  <1> QED BY <1>1, <1>2, RequestShape

LEMMA Writers ==
    ASSUME NEW u
    PROVE  BeingWritten(u) <=>
             \/ \E r \in Requester : UnderWay(r, u)
             \/ sync.pos = "disabling" /\ u \in sync.todo
  BY DEF BeingWritten, UnderWay, Requester

\* what a request will do depends on the row and the last event of its user
LEMMA SameUserSameWrite ==
    ASSUME NEW q, Faithful(q), UNCHANGED <<users[q.u], told[q.u]>>
    PROVE  Faithful(q)'
  <1>1. (Exists(q.u))' = Exists(q.u) BY DEF Exists
  <1>2. Told(q)' = Told(q) BY DEF Told
  <1>3. Saved(q)' = Saved(q) BY <1>1 DEF Saved, GetOrCreateUser
  <1>4. Prepared(q)' = Prepared(q) BY <1>1 DEF Prepared
  <1>5. Sound(q)' = Sound(q) BY <1>2, <1>3 DEF Sound
  <1>6. Due(q)' = Due(q) BY <1>1, <1>2 DEF Due
  <1>7. Expected(q)' = Expected(q) BY <1>1 DEF Expected
  <1> QED BY <1>4, <1>5, <1>6, <1>7 DEF Faithful

\* nothing about u changes
LEMMA UserSame ==
    ASSUME Typed, NEW u \in User, UserInv(u),
           UNCHANGED <<users[u], told[u]>>,
           \A r \in Requester : UnderWay(r, u) \/ UnderWay(r, u)' => req'[r] = req[r],
           sync'.pos = "disabling" /\ u \in sync'.todo =>
               \/ sync.pos = "disabling" /\ u \in sync.todo /\ sync'.rows = sync.rows
               \/ ~ BeingWritten(u) /\ sync'.rows[u] = users[u]
    PROVE  UserInv(u)'
  <1>1. \A r \in Requester : UnderWay(r, u)' <=> UnderWay(r, u) BY DEF UnderWay
  <1>2. Single(u)' BY <1>1, Writers DEF UserInv, Single
  <1>3. (Exists(u) => Hashed(users[u]))' BY DEF UserInv, Exists, Hashed
  <1>4. ASSUME NEW r \in Requester, UnderWay(r, u)' PROVE Faithful(req[r])'
    <2>1. req'[r] = req[r] /\ UnderWay(r, u) /\ req[r].u = u BY <1>1, <1>4 DEF UnderWay
    <2>2. PICK q : q = req[r] OBVIOUS
    <2>3. Faithful(q) /\ q.u = u BY <2>1, <2>2 DEF UserInv
    <2>4. Faithful(q)' BY <2>3, SameUserSameWrite
    <2> QED BY <2>1, <2>2, <2>4
  <1>5. ((\A r \in Requester : UnderWay(r, u) => req[r].pos # "publish") => Settled(u))'
    BY <1>1 DEF UserInv, Settled, Exists
  <1> QED BY <1>2, <1>3, <1>4, <1>5 DEF UserInv

\* the only request for u takes a step
LEMMA UserMoves ==
    ASSUME Typed, NEW u \in User, NEW r \in Requester, NEW rec,
           req' = [req EXCEPT ![r] = rec],
           \A s \in Requester \ {r} : ~ UnderWay(s, u),
           sync'.pos = "disabling" => u \notin sync'.todo,
           rec = NoRequest \/ rec.u = u,
           Exists(u)' => Hashed(users[u])',
           rec # NoRequest => Faithful(rec)',
           rec.pos # "publish" => Settled(u)'
    PROVE  UserInv(u)'
  <1>1. req'[r] = rec /\ \A s \in Requester \ {r} : req'[s] = req[s] BY DEF Typed
  <1>2. \A s \in Requester : UnderWay(s, u)' => s = r BY <1>1 DEF UnderWay
  <1>3. NoRequest.pos = "idle" BY DEF NoRequest
  <1>4. Single(u)' BY <1>2 DEF Single
  <1>5. ASSUME NEW s \in Requester, UnderWay(s, u)' PROVE Faithful(req[s])'
    <2>1. s = r /\ rec # NoRequest BY <1>1, <1>2, <1>3, <1>5 DEF UnderWay
    <2> QED BY <1>1, <2>1
  <1>6. ((\A s \in Requester : UnderWay(s, u) => req[s].pos # "publish") => Settled(u))'
    <2> SUFFICES ASSUME (\A s \in Requester : UnderWay(s, u) => req[s].pos # "publish")'
                 PROVE  Settled(u)'
      OBVIOUS
    <2>1. CASE rec = NoRequest BY <1>3, <2>1
    <2>2. CASE rec # NoRequest /\ rec.pos = "publish"
      <3>1. UnderWay(r, u)' BY <1>1, <2>2 DEF UnderWay
      <3> QED BY <1>1, <2>2, <3>1
    <2> QED BY <2>1, <2>2
  <1> QED BY <1>4, <1>5, <1>6 DEF UserInv

\* requests begin, take a step or end; the others and their users stay as they are
Passes == {BetweenPasses} \union Pass

LEMMA EnterKeeps ==
    ASSUME AccountInv, NEW r \in Requester, NEW rec \in Busying, req[r] = NoRequest,
           req' = [req EXCEPT ![r] = rec], rec.pos # "publish",
           rec.pos = "reread" => (r = Sync <=> rec.kind = "sync"),
           rec.pos = "reread" /\ r = Sync => sync'.pos = "updating" /\ sync'.entries[rec.u].listed,
           UNCHANGED <<users, told, directory>>,
           raced' \in [User -> BOOLEAN], \A u \in User : raced[u] => raced'[u],
           sync' \in Passes, r # Sync => sync' = sync,
           \A u \in User : sync'.pos = "disabling" /\ u \in sync'.todo
                              => sync.pos = "disabling" /\ u \in sync.todo /\ sync'.rows = sync.rows,
           ~ raced'[rec.u] => /\ \A s \in Requester : ~ UnderWay(s, rec.u)
                              /\ sync'.pos = "disabling" => rec.u \notin sync'.todo
                              /\ Faithful(rec)
    PROVE  AccountInv'
  <1>1. Typed BY DEF AccountInv
  <1>2. rec.u \in User /\ rec.pos # "idle" BY RequestShape
  <1>3. req'[r] = rec /\ \A s \in Requester \ {r} : req'[s] = req[s] BY <1>1 DEF Typed
  <1>4. NoRequest.pos = "idle" BY DEF NoRequest
  <1>5. Typed'
    <2>1. req' \in [Requester -> {NoRequest} \union Busying] BY <1>1 DEF Typed
    <2>2. \A s \in Requester : req'[s].pos = "reread" => (s = Sync <=> req'[s].kind = "sync")
      BY <1>1, <1>3 DEF Typed
    <2>3. req'[Sync].pos = "reread" => sync'.pos = "updating" /\ sync'.entries[req'[Sync].u].listed
      BY <1>1, <1>3, SyncIsRequester DEF Typed
    <2> QED BY <1>1, <2>1, <2>2, <2>3 DEF Typed, Passes
  <1>6. ASSUME NEW u \in User, ~ raced'[u] PROVE UserInv(u)'
    <2>1. ~ raced[u] /\ UserInv(u) BY <1>6 DEF AccountInv
    <2>2. CASE u = rec.u
      <3>1. \A s \in Requester : ~ UnderWay(s, u) BY <1>6, <2>2
      <3>2. Settled(u)' BY <2>1, <3>1 DEF UserInv, Settled, Exists
      <3>3. Exists(u)' => Hashed(users[u])' BY <2>1 DEF UserInv, Exists, Hashed
      <3>4. Faithful(rec)' BY <1>6, <2>2, SameUserSameWrite
      <3> QED BY <1>1, <1>6, <2>2, <3>1, <3>2, <3>3, <3>4, UserMoves
    <2>3. CASE u # rec.u
      <3>1. \A s \in Requester : UnderWay(s, u) \/ UnderWay(s, u)' => req'[s] = req[s]
        BY <1>3, <1>4, <2>3 DEF UnderWay
      <3> QED BY <1>1, <2>1, <3>1, UserSame
    <2> QED BY <2>2, <2>3
  <1> QED BY <1>5, <1>6 DEF AccountInv

LEMMA MoveKeeps ==
    ASSUME AccountInv, NEW r \in Requester, req[r] # NoRequest,
           NEW rec \in {NoRequest} \union Busying, req' = [req EXCEPT ![r] = rec],
           rec = NoRequest \/ (rec.u = req[r].u /\ rec.pos # "reread"),
           UNCHANGED <<directory, raced>>,
           sync' \in Passes, r # Sync => sync' = sync, sync'.pos = "disabling" => sync' = sync,
           users' \in [User -> Row \union {NoRow}], told' \in [User -> {"on", "off"}],
           \A u \in User \ {req[r].u} : UNCHANGED <<users[u], told[u]>>,
           ~ raced[req[r].u] => LET u == req[r].u IN
               /\ users'[u].exists => Hashed(users'[u])
               /\ rec # NoRequest => Faithful(rec)'
               /\ rec.pos # "publish" =>
                    (users'[u].exists => (told'[u] = "off" <=> users'[u].disabled))
    PROVE  AccountInv'
  <1> DEFINE u == req[r].u
  <1>1. Typed BY DEF AccountInv
  <1>2. req[r] \in Busying /\ u \in User /\ req[r].pos # "idle" BY <1>1, IdleOrBusy, RequestShape
  <1>3. req'[r] = rec /\ \A s \in Requester \ {r} : req'[s] = req[s] BY <1>1 DEF Typed
  <1>4. NoRequest.pos = "idle" BY DEF NoRequest
  <1>5. UnderWay(r, u) BY <1>2 DEF UnderWay
  <1>6. Typed'
    <2>1. req' \in [Requester -> {NoRequest} \union Busying] BY <1>1 DEF Typed
    <2>2. \A s \in Requester : req'[s].pos = "reread" => (s = Sync <=> req'[s].kind = "sync")
      BY <1>1, <1>3, <1>4 DEF Typed
    <2>3. req'[Sync].pos = "reread" => sync'.pos = "updating" /\ sync'.entries[req'[Sync].u].listed
      BY <1>1, <1>3, <1>4, SyncIsRequester DEF Typed
    <2> QED BY <1>1, <2>1, <2>2, <2>3 DEF Typed, Passes
  <1>7. ASSUME NEW v \in User, ~ raced'[v] PROVE UserInv(v)'
    <2>1. ~ raced[v] /\ UserInv(v) BY <1>7 DEF AccountInv
    <2>2. CASE v = u
      <3>1. \A s \in Requester \ {r} : ~ UnderWay(s, u)
        BY <1>5, <2>1, <2>2 DEF UserInv, Single
      <3>2. sync'.pos = "disabling" => u \notin sync'.todo
        BY <1>5, <2>1, <2>2 DEF UserInv, Single
      <3>3. rec # NoRequest => Faithful(rec)' BY <2>1, <2>2
      <3>4. rec = NoRequest \/ rec.u = v BY <2>2
      <3>5. /\ Exists(v)' => Hashed(users[v])'
            /\ rec.pos # "publish" => Settled(v)'
        BY <2>1, <2>2 DEF Settled, Exists, Hashed
      <3>6. /\ \A s \in Requester \ {r} : ~ UnderWay(s, v)
            /\ sync'.pos = "disabling" => v \notin sync'.todo
        BY <2>2, <3>1, <3>2
      <3> HIDE DEF u
      <3> QED BY <1>1, <3>3, <3>4, <3>5, <3>6, UserMoves
    <2>3. CASE v # u
      <3>1. \A s \in Requester : UnderWay(s, v) \/ UnderWay(s, v)' => req'[s] = req[s]
        BY <1>3, <1>4, <2>3 DEF UnderWay
      <3> QED BY <1>1, <2>1, <2>3, <3>1, UserSame
    <2> QED BY <2>2, <2>3
  <1> QED BY <1>6, <1>7 DEF AccountInv

LEMMA QuietKeeps ==
    ASSUME AccountInv, UNCHANGED <<users, told, req>>,
           directory' \in [User -> Answer], sync' \in Passes,
           req[Sync].pos = "reread" => UNCHANGED sync,
           raced' \in [User -> BOOLEAN], \A u \in User : raced[u] => raced'[u],
           \A u \in User :
               ~ raced'[u] /\ sync'.pos = "disabling" /\ u \in sync'.todo =>
                   \/ sync.pos = "disabling" /\ u \in sync.todo /\ sync'.rows = sync.rows
                   \/ ~ BeingWritten(u) /\ sync'.rows[u] = users[u]
    PROVE  AccountInv'
  <1>1. Typed' BY DEF AccountInv, Typed, Passes
  <1>2. ASSUME NEW u \in User, ~ raced'[u] PROVE UserInv(u)'
    <2>1. Typed /\ UserInv(u) BY <1>2 DEF AccountInv
    <2> QED BY <1>2, <2>1, UserSame
  <1> QED BY <1>1, <1>2 DEF AccountInv

LEMMA StopsKeep == ASSUME AccountInv, Stops PROVE AccountInv'
  <1>1. Typed BY DEF AccountInv
  <1>2. \A r \in Requester : req'[r] = NoRequest BY DEF Stops, Requester
  <1>3. NoRequest.pos = "idle" /\ sync' = BetweenPasses /\ sync'.pos = "waiting"
    BY DEF Stops, NoRequest, BetweenPasses
  <1>4. Typed'
    <2>1. req' \in [Requester -> {NoRequest} \union Busying] BY DEF Stops, Requester
    <2>2. raced' \in [User -> BOOLEAN] BY <1>1 DEF Stops, Typed, BeingWritten
    <2> QED BY <1>1, <1>2, <1>3, <2>1, <2>2, SyncIsRequester DEF Typed, Stops
  <1>5. ASSUME NEW u \in User, ~ raced'[u] PROVE UserInv(u)'
    <2>1. ~ raced[u] /\ ~ BeingWritten(u) BY <1>5 DEF Stops
    <2>2. UserInv(u) BY <2>1 DEF AccountInv
    <2>3. \A r \in Requester : ~ UnderWay(r, u) BY <2>1, Writers
    <2>4. \A r \in Requester : ~ UnderWay(r, u)' BY <1>2, <1>3 DEF UnderWay
    <2> QED BY <1>1, <1>3, <2>2, <2>3, <2>4, UserSame DEF Stops
  <1> QED BY <1>4, <1>5 DEF AccountInv

---------------------------------------------------------------------------
(* What the requests carry. *)

LEMMA BooleanValue == \A x, S : \E b \in BOOLEAN : b = (x \in S)
  <1> TAKE x, S
  <1>1. CASE x \in S
    <2>1. TRUE = (x \in S) BY <1>1
    <2> QED BY <2>1
  <1>2. CASE x \notin S
    <2>1. FALSE = (x \in S) BY <1>2
    <2> QED BY <2>1
  <1> QED BY <1>1, <1>2

LEMMA WritingIsUpdate ==
    ASSUME NEW u \in User, NEW kind \in UpdateKind, NEW old \in Row, NEW new \in Row,
           NEW rec, rec = Writing(kind, u, old, new)
    PROVE  /\ rec \in Updating /\ rec.pos = "save" /\ rec.u = u /\ rec.kind = kind
           /\ rec.old = old /\ rec.new = Wanted(old, new)
  <1> DEFINE account == Wanted(old, new)
  <1>1. account \in Row BY WantedRow
  <1>2. rec = [pos |-> "save", kind |-> kind, u |-> u, old |-> old, new |-> account]
    BY DEF Writing, Wanted
  <1> HIDE DEF account
  <1>3. /\ rec \in Updating /\ rec.pos = "save" /\ rec.u = u /\ rec.kind = kind
        /\ rec.old = old /\ rec.new = account
    BY <1>1, <1>2 DEF Updating
  <1> QED BY <1>3 DEF account

\* an update of a user nobody else writes is going to write what it promises
LEMMA UpdateHolds ==
    ASSUME Typed, NEW rec \in Updating, rec.pos = "save", NEW new \in Row,
           rec.new = Wanted(rec.old, new), Exists(rec.u), Settled(rec.u), Hashed(rec.old),
           rec.old.disabled = users[rec.u].disabled, rec.old.src = users[rec.u].src,
           new.password # NoPassword => "db" \in rec.old.src,
           rec.kind \in Keeping \/ rec.old.src \subseteq new.src
    PROVE  Faithful(rec)
  <1> DEFINE old == rec.old
             u == rec.u
             account == Wanted(old, new)
  <1>0. u \in User /\ old \in Row /\ rec.kind \in UpdateKind
    BY DEF Updating
  <1>1. users[u] \in Row BY <1>0, Existence DEF Typed
  <1>2. rec.kind # "create" /\ rec.kind # "delete" /\ rec.kind # "missing"
    BY <1>0 DEF UpdateKind
  <1>3. Saved(rec) = CopyCalculatedAttributes(account, users[u], rec.kind \in Keeping)
    BY <1>2 DEF Saved, GetOrCreateUser
  <1>4. account \in Row /\ account.disabled = new.disabled /\ account.src = new.src BY <1>0, WantedRow
  <1>5. /\ Saved(rec).password = account.password
        /\ Saved(rec).disabled = account.disabled
        /\ Saved(rec).src = IF rec.kind \in Keeping THEN users[u].src ELSE account.src
    <2> HIDE DEF account, u
    <2>1. PICK keep \in BOOLEAN : keep = (rec.kind \in Keeping) BY BooleanValue
    <2>2. /\ CopyCalculatedAttributes(account, users[u], keep).password = account.password
          /\ CopyCalculatedAttributes(account, users[u], keep).disabled = account.disabled
          /\ CopyCalculatedAttributes(account, users[u], keep).src
               = IF keep THEN users[u].src ELSE account.src
      BY <1>1, <1>4, CopiesAreRows
    <2> QED BY <1>3, <2>1, <2>2
  <1>6. Hashed(Saved(rec))
    <2>1. ASSUME account.password # NoPassword PROVE account.password.hashed /\ "db" \in old.src
      <3>1. CASE new.password = NoPassword
        BY <1>0, <2>1, <3>1, WantedRow DEF Hashed, HasDatabaseSource
      <3>2. CASE new.password # NoPassword BY <1>0, <3>2, WantedRow
      <3> QED BY <3>1, <3>2
    <2>2. old.src \subseteq Saved(rec).src BY <1>4, <1>5
    <2> HIDE DEF account, old
    <2> QED BY <1>5, <2>1, <2>2 DEF Hashed, HasDatabaseSource
  <1>7. Told(rec) = IF old.disabled = account.disabled THEN told[u]
                    ELSE IF account.disabled THEN "off" ELSE "on"
    BY <1>2 DEF Told
  <1>8. old.disabled \in BOOLEAN /\ new.disabled \in BOOLEAN BY <1>0 DEF Row
  <1>9. told[u] = "off" <=> old.disabled BY DEF Settled
  <1>10. Told(rec) = "off" <=> Saved(rec).disabled
    <2> HIDE DEF account, old, u
    <2> QED BY <1>4, <1>5, <1>7, <1>8, <1>9
  <1>11. Expected(rec) BY <1>2 DEF Expected
  <1> QED BY <1>6, <1>10, <1>11 DEF Faithful, Sound

LEMMA CreatingHolds ==
    ASSUME Typed, NEW u \in User, ~ Exists(u), NEW new \in Row,
           new.password # NoPassword => "db" \in new.src,
           NEW rec, rec = Creating(u, new)
    PROVE  rec \in Inserting /\ rec.pos = "save" /\ rec.u = u /\ Faithful(rec)
  <1> DEFINE account == HashPassword(new)
  <1>1. rec = [pos |-> "save", kind |-> "create", u |-> u, new |-> account] BY DEF Creating
  <1>2. /\ account \in Row /\ account.src = new.src /\ account.disabled \in BOOLEAN
        /\ account.password # NoPassword => account.password.hashed /\ new.password # NoPassword
    BY HashedRow DEF Row
  <1> HIDE DEF account
  <1>3. rec \in Inserting BY <1>1, <1>2 DEF Inserting
  <1>4. Saved(rec) = account BY <1>1 DEF Saved, CopyCalculatedAttributes, Keeping
  <1>5. Hashed(account) BY <1>2 DEF Hashed, HasDatabaseSource
  <1>6. Told(rec) = IF account.disabled THEN "off" ELSE "on" BY <1>1 DEF Told
  <1>7. Sound(rec) BY <1>2, <1>4, <1>5, <1>6 DEF Sound
  <1>8. Expected(rec) BY <1>1 DEF Expected, UpdateKind
  <1> QED BY <1>1, <1>3, <1>7, <1>8 DEF Faithful

LEMMA ValidPassword ==
    ASSUME NEW ctx, NEW old, NEW new, NEW u, NEW same, ValidateModifications(ctx, old, new, u, same),
           new.password # NoPassword
    PROVE  "db" \in old.src
  BY DEF ValidateModifications, CanChangePassword

LEMMA SavedIsRow ==
    ASSUME Typed, NEW q \in Busying, q.pos # "reread", q.kind # "delete"
    PROVE  Saved(q) \in Row
  <1>1. GetOrCreateUser(q.u) \in Row
    <2>1. EmptyRow(CHOOSE p \in Profile : TRUE) \in Row BY UserAccountsAssumption, EmptyRowIsRow
    <2> QED BY <2>1, Existence, RequestShape DEF Typed, GetOrCreateUser
  <1>2. CASE q.kind = "missing"
    BY <1>1, <1>2 DEF Saved, Row, Reason
  <1>3. CASE q.kind # "missing"
    <2>1. q.new \in Row BY <1>3, RequestShape DEF Inserting, Updating
    <2>2. PICK with \in BOOLEAN : with = (q.kind \in Keeping) BY BooleanValue
    <2>3. Saved(q) = CopyCalculatedAttributes(q.new, GetOrCreateUser(q.u), with)
      BY <1>3, <2>2 DEF Saved
    <2> QED BY <1>1, <2>1, <2>3, CopiesAreRows
  <1> QED BY <1>2, <1>3

LEMMA ToldIsEvent ==
    ASSUME Typed, NEW q \in Busying PROVE Told(q) \in {"on", "off"}
  BY RequestShape DEF Typed, Told

\* the row and the last event of a user for whom nothing is published agree
LEMMA NothingPublished ==
    ASSUME AccountInv, NEW r \in Requester, req[r] # NoRequest, req[r].pos # "publish",
           ~ raced[req[r].u]
    PROVE  Settled(req[r].u) /\ UserInv(req[r].u) /\ Faithful(req[r])
  <1>1. Typed /\ req[r] \in Busying /\ req[r].u \in User BY IdleOrBusy, RequestShape DEF AccountInv, Typed
  <1>2. UnderWay(r, req[r].u) BY <1>1, IdleOrBusy DEF UnderWay
  <1>3. UserInv(req[r].u) BY <1>1 DEF AccountInv
  <1>4. \A s \in Requester : UnderWay(s, req[r].u) => req[s].pos # "publish"
    BY <1>2, <1>3 DEF UserInv, Single
  <1> QED BY <1>2, <1>3, <1>4 DEF UserInv

---------------------------------------------------------------------------
(* The requests of the REST API and the logins. *)

\* a request that has read the row joins the writers of its user
LEMMA BeginKeeps ==
    ASSUME AccountInv, NEW r \in Slot, req[r].pos = "idle", NEW rec \in Busying,
           rec.pos # "publish", rec.pos = "reread" => rec.kind # "sync",
           Begin(r, rec),
           ~ raced[rec.u] /\ ~ BeingWritten(rec.u) => Faithful(rec)
    PROVE  AccountInv'
  <1>1. Typed /\ rec.u \in User BY RequestShape DEF AccountInv
  <1>2. r \in Requester /\ r # Sync /\ req[r] = NoRequest
    BY <1>1, SyncIsRequester, IdleOrBusy DEF Requester
  <1>3. /\ req' = [req EXCEPT ![r] = rec]
        /\ raced' = [raced EXCEPT ![rec.u] = @ \/ BeingWritten(rec.u)]
        /\ UNCHANGED <<users, directory, sync, told>>
    BY DEF Begin, Enter
  <1>4. BeingWritten(rec.u) \in BOOLEAN BY DEF BeingWritten
  <1>5. /\ raced' \in [User -> BOOLEAN]
        /\ \A u \in User : raced[u] => raced'[u]
        /\ ~ raced'[rec.u] => ~ raced[rec.u] /\ ~ BeingWritten(rec.u)
    BY <1>1, <1>3, <1>4 DEF Typed
  <1>6. ~ BeingWritten(rec.u) => /\ \A s \in Requester : ~ UnderWay(s, rec.u)
                                 /\ sync.pos = "disabling" => rec.u \notin sync.todo
    BY Writers
  <1>7. sync' \in Passes BY <1>1, <1>3 DEF Typed, Passes
  <1> QED BY <1>2, <1>3, <1>5, <1>6, <1>7, EnterKeeps

\* ... one that is about to write: what is known of a user nobody writes
LEMMA NobodyWrites ==
    ASSUME AccountInv, NEW u \in User, ~ raced[u], ~ BeingWritten(u)
    PROVE  Settled(u) /\ (Exists(u) => Hashed(users[u]))
  <1>1. UserInv(u) BY DEF AccountInv
  <1>2. \A s \in Requester : ~ UnderWay(s, u) BY Writers
  <1> QED BY <1>1, <1>2 DEF UserInv

LEMMA UpdateUserKeeps ==
    ASSUME AccountInv, NEW r \in Slot, req[r].pos = "idle", NEW u \in User,
           NEW kind \in Keeping, NEW ctx, NEW new, Exists(u) => new \in Row,
           UpdateUser(r, kind, ctx, u, new)
    PROVE  AccountInv'
  <1> DEFINE account == CopyCalculatedAttributes(new, users[u], TRUE)
             rec == Writing(kind, u, users[u], account)
  <1>1. /\ Exists(u) /\ Begin(r, rec)
        /\ ValidateModifications(ctx, users[u], account, u, FALSE)
    BY DEF UpdateUser
  <1>2. Typed BY DEF AccountInv
  <1>3. users[u] \in Row BY <1>1, <1>2, Existence DEF Typed
  <1>4. account \in Row BY <1>1, <1>3, CopiesAreRows
  <1>5. account.password # NoPassword => "db" \in users[u].src BY <1>1, ValidPassword
  <1> HIDE DEF account
  <1>6. PICK q : q = rec OBVIOUS
  <1>7. /\ q \in Updating /\ q.pos = "save" /\ q.u = u
        /\ Settled(u) /\ Hashed(users[u]) => Faithful(q)
    <2>1. /\ q \in Updating /\ q.pos = "save" /\ q.u = u /\ q.old = users[u]
          /\ q.new = Wanted(users[u], account) /\ q.kind = kind
      <3>1. kind \in UpdateKind BY DEF UpdateKind, Keeping
      <3> QED BY <1>3, <1>4, <1>6, <3>1, WritingIsUpdate
    <2> QED BY <1>1, <1>2, <1>4, <1>5, <2>1, UpdateHolds
  <1> HIDE DEF rec
  <1>8. q \in Busying BY <1>7 DEF Busying
  <1>9. ~ raced[q.u] /\ ~ BeingWritten(q.u) => Faithful(q)
    BY <1>1, <1>7, NobodyWrites
  <1> QED BY <1>1, <1>6, <1>7, <1>8, <1>9, BeginKeeps

LEMMA CreateUserKeeps ==
    ASSUME AccountInv, NEW r \in Slot, req[r].pos = "idle", NEW u \in User, NEW ctx,
           NEW new \in Row, new.password # NoPassword => new.src = {},
           CreateUser(r, ctx, u, new)
    PROVE  AccountInv'
  <1> DEFINE account == IF new.src = {} THEN [new EXCEPT !.src = {"db"}] ELSE new
             rec == Creating(u, account)
  <1>1. Begin(r, rec) /\ ~ Exists(u) BY DEF CreateUser
  <1>2. Typed BY DEF AccountInv
  <1>3. account \in Row BY DEF Row, Source
  <1>4. account.password # NoPassword => "db" \in account.src BY DEF Row
  <1> HIDE DEF account
  <1>5. PICK q : q = rec OBVIOUS
  <1>6. q \in Inserting /\ q.pos = "save" /\ q.u = u /\ Faithful(q)
    BY <1>1, <1>2, <1>3, <1>4, <1>5, CreatingHolds
  <1> HIDE DEF rec
  <1>7. q \in Busying BY <1>6 DEF Busying
  <1> QED BY <1>1, <1>5, <1>6, <1>7, BeginKeeps

\* a request that reads the row a second time before it writes
LEMMA ReadForInternalKeeps ==
    ASSUME AccountInv, NEW r \in Slot, req[r].pos = "idle", NEW u \in User, Exists(u),
           NEW kind \in {"totpOn", "totpOff", "external"},
           NEW ctx \in {SystemAdmin} \union {UserContext(v) : v \in User},
           NEW new \in Row, users[u].src \subseteq new.src,
           ReadForInternal(r, kind, ctx, u, new)
    PROVE  AccountInv'
  <1> DEFINE rec == [pos |-> "reread", kind |-> kind, u |-> u, ctx |-> ctx, new |-> new]
  <1>1. Begin(r, rec) BY DEF ReadForInternal
  <1>2. rec \in Rereading /\ rec.u = u /\ rec.pos = "reread" /\ rec.kind # "sync" /\ rec.new = new
    BY DEF Rereading
  <1>3. PICK q : q = rec OBVIOUS
  <1> HIDE DEF rec
  <1>4. q \in Busying BY <1>2, <1>3 DEF Busying
  <1>5. Faithful(q) BY <1>2, <1>3 DEF Faithful, Prepared
  <1> QED BY <1>1, <1>2, <1>3, <1>4, <1>5, BeginKeeps

LEMMA HandleDeleteKeeps ==
    ASSUME AccountInv, NEW r \in Slot, NEW u \in User, HandleDelete(r, u)
    PROVE  AccountInv'
  <1> DEFINE rec == [pos |-> "save", kind |-> "delete", u |-> u]
  <1>1. req[r].pos = "idle" /\ Exists(u) /\ Begin(r, rec) BY DEF HandleDelete, Arrive
  <1>2. rec \in Marking /\ rec.kind = "delete" /\ rec.pos = "save" BY DEF Marking
  <1>3. rec.u = u OBVIOUS
  <1>4. PICK q : q = rec OBVIOUS
  <1> HIDE DEF rec
  <1>5. q \in Busying BY <1>2, <1>4 DEF Busying
  <1>6. q.kind = "delete" /\ q.u = u /\ q.pos = "save" BY <1>2, <1>3, <1>4
  <1>7. Sound(q) BY <1>6 DEF Sound
  <1>8. Expected(q) BY <1>1, <1>6 DEF Expected, UpdateKind
  <1>9. Faithful(q) BY <1>6, <1>7, <1>8 DEF Faithful
  <1> QED BY <1>1, <1>4, <1>5, <1>6, <1>9, BeginKeeps

LEMMA ChangeApiTokenKeeps ==
    ASSUME AccountInv, NEW r \in Slot, NEW u \in User, NEW token \in BOOLEAN,
           ChangeApiToken(r, u, token)
    PROVE  AccountInv'
  <1> DEFINE account == [users[u] EXCEPT !.token = token]
             rec == Writing("token", u, account, account)
  <1>1. req[r].pos = "idle" /\ Exists(u) /\ Begin(r, rec) BY DEF ChangeApiToken, Arrive
  <1>2. Typed BY DEF AccountInv
  <1>3. users[u] \in Row BY <1>1, <1>2, Existence DEF Typed
  <1>4. /\ account \in Row /\ account.src = users[u].src /\ account.disabled = users[u].disabled
        /\ account.password = users[u].password
    BY <1>3 DEF Row
  <1> HIDE DEF account
  <1>5. Hashed(users[u]) => Hashed(account) /\ (account.password # NoPassword => "db" \in account.src)
    BY <1>4 DEF Hashed, HasDatabaseSource
  <1>6. "token" \in UpdateKind /\ "token" \in Keeping BY DEF UpdateKind, Keeping
  <1>7. PICK q : q = rec OBVIOUS
  <1>8. /\ q \in Updating /\ q.pos = "save" /\ q.u = u
        /\ Settled(u) /\ Hashed(users[u]) => Faithful(q)
    <2>1. /\ q \in Updating /\ q.pos = "save" /\ q.u = u /\ q.old = account
          /\ q.new = Wanted(account, account) /\ q.kind = "token"
      BY <1>4, <1>6, <1>7, WritingIsUpdate
    <2> QED BY <1>1, <1>2, <1>4, <1>5, <1>6, <2>1, UpdateHolds
  <1> HIDE DEF rec
  <1>9. q \in Busying BY <1>8 DEF Busying
  <1>10. ~ raced[q.u] /\ ~ BeingWritten(q.u) => Faithful(q)
    BY <1>1, <1>8, NobodyWrites
  <1> QED BY <1>1, <1>7, <1>8, <1>9, <1>10, BeginKeeps

\* every handler
LEMMA RequestKeeps ==
    ASSUME AccountInv, NEW r \in Slot, NEW u \in User, Request(r, u)
    PROVE  AccountInv'
  <1> USE DEF Arrive
  <1>1. Typed BY DEF AccountInv
  <1>2. Exists(u) => users[u] \in Row BY <1>1, Existence DEF Typed
  <1>3. {"put", "bulk", "password"} \subseteq Keeping BY DEF Keeping
  <1>4. CASE HandleUpdatePut(r, u)
    <2>1. PICK ctx \in Caller(u), form \in Edits(users[u]) :
             /\ Arrive(r) /\ Exists(u)
             /\ UpdateUser(r, "put", ctx, u, PutService(ctx, NewDomainUser(form), users[u]))
      BY <1>4 DEF HandleUpdatePut
    <2>2. NewDomainUser(form) \in Row BY <1>2, <2>1, EditsAreForms, FormsAreRows
    <2>3. PutService(ctx, NewDomainUser(form), users[u]) \in Row
      BY <1>2, <2>1, <2>2, CopiesAreRows DEF PutService
    <2> QED BY <1>3, <2>1, <2>3, UpdateUserKeeps
  <1>5. CASE HandleUpdatePutV1(r, u)
    <2>1. PICK form \in Edits(users[u]), token \in BOOLEAN :
             /\ Arrive(r) /\ Exists(u)
             /\ UpdateUser(r, "put", AdminContext("admin"), u, NewDomainUserV1(form, token))
      BY <1>5 DEF HandleUpdatePutV1
    <2>2. NewDomainUserV1(form, token) \in Row BY <1>2, <2>1, EditsAreForms, FormsAreRows
    <2> QED BY <1>3, <2>1, <2>2, UpdateUserKeeps
  <1>6. CASE HandleCreatePost(r, u)
    <2>1. PICK p \in Profile, t \in Password :
             Arrive(r) /\ CreateUser(r, AdminContext("admin"), u,
                            NewDomainUser([FormOf(EmptyRow(p)) EXCEPT !.password = Plain(t)]))
      BY <1>6 DEF HandleCreatePost
    <2> DEFINE form == [FormOf(EmptyRow(p)) EXCEPT !.password = Plain(t)]
    <2>2. form \in Form
      <3>1. form \in Edits(EmptyRow(p)) BY DEF Edits
      <3> QED BY <3>1, EmptyRowIsRow, EditsAreForms
    <2>3. NewDomainUser(form) \in Row BY <2>2, FormsAreRows
    <2>4. NewDomainUser(form).src = {}
      BY DEF NewDomainUser, EmptyRow
    <2> QED BY <2>1, <2>3, <2>4, CreateUserKeeps
  <1>7. CASE HandleDelete(r, u) BY <1>7, HandleDeleteKeeps
  <1>8. ASSUME NEW account, Exists(u) => account \in Row, BulkUpdate(r, u, account) PROVE AccountInv'
    BY <1>3, <1>8, UpdateUserKeeps DEF BulkUpdate
  <1>9. CASE HandleBulkEnable(r, u) \/ HandleBulkDisable(r, u)
             \/ HandleBulkLock(r, u) \/ HandleBulkUnlock(r, u)
    <2>1. Exists(u) => /\ [users[u] EXCEPT !.disabled = FALSE] \in Row
                       /\ [users[u] EXCEPT !.disabled = TRUE, !.reason = "admin"] \in Row
                       /\ [users[u] EXCEPT !.locked = TRUE] \in Row
                       /\ [users[u] EXCEPT !.locked = FALSE] \in Row
      BY <1>2 DEF Row, Reason
    <2> QED BY <1>8, <1>9, <2>1
          DEF HandleBulkEnable, HandleBulkDisable, HandleBulkLock, HandleBulkUnlock
  <1>10. CASE HandleApiEnablePost(r, u) \/ HandleApiDisablePost(r, u)
    BY <1>10, ChangeApiTokenKeeps DEF HandleApiEnablePost, HandleApiDisablePost
  <1>11. CASE HandleChangePasswordPost(r, u)
    <2>1. PICK ctx \in Caller(u), t1 \in Password, t2 \in Password :
             Arrive(r) /\ ChangePassword(r, ctx, u, t1, t2)
      BY <1>11 DEF HandleChangePasswordPost
    <2>2. /\ Exists(u)
          /\ UpdateUser(r, "password", ctx, u, [users[u] EXCEPT !.password = Plain(t2)])
      BY <2>1 DEF ChangePassword
    <2>3. Plain(t2) \in [text : Password \union {""}, hashed : BOOLEAN] BY PlainIsPassword
    <2>4. [users[u] EXCEPT !.password = Plain(t2)] \in Row BY <1>2, <2>2, <2>3 DEF Row
    <2> QED BY <1>3, <2>1, <2>2, <2>4, UpdateUserKeeps
  <1>12. ASSUME NEW on \in BOOLEAN, OwnerTotp(r, u, on) PROVE AccountInv'
    <2> DEFINE totp == IF on THEN [TotpOff EXCEPT !.on = TRUE, !.secret = 1] ELSE TotpOff
    <2>1. totp \in Totp BY DEF Totp, TotpOff
    <2>2. /\ Arrive(r) /\ Exists(u)
          /\ ReadForInternal(r, IF on THEN "totpOn" ELSE "totpOff", UserContext(u), u,
                             [users[u] EXCEPT !.totp = totp])
      BY <1>12 DEF OwnerTotp
    <2> HIDE DEF totp
    <2>3. [users[u] EXCEPT !.totp = totp] \in Row
          /\ users[u].src \subseteq [users[u] EXCEPT !.totp = totp].src
      BY <1>2, <2>1, <2>2 DEF Row
    <2>4. PICK kind \in {"totpOn", "totpOff"} : kind = IF on THEN "totpOn" ELSE "totpOff" OBVIOUS
    <2> QED BY <2>2, <2>3, <2>4, ReadForInternalKeeps
  <1>13. CASE ProcessUserInfo(r, u)
    <2>1. PICK entry \in Entry :
             /\ Arrive(r)
             /\ IF Exists(u)
                THEN ReadForInternal(r, "external", SystemAdmin, u,
                                     ExternalUser(users[u], entry, "oauth"))
                ELSE CreateUser(r, SystemAdmin, u, RegisteredUser(entry, "oauth"))
      BY <1>13 DEF ProcessUserInfo
    <2>2. CASE Exists(u)
      BY <1>2, <2>1, <2>2, EntriesAreRows, ReadForInternalKeeps
    <2>3. CASE ~ Exists(u)
      BY <2>1, <2>3, EntriesAreRows, CreateUserKeeps
    <2> QED BY <2>2, <2>3
  <1> QED BY <1>4, <1>5, <1>6, <1>7, <1>9, <1>10, <1>11, <1>12, <1>13 DEF Request

---------------------------------------------------------------------------
(* The second read, the transaction and the events. *)

LEMMA UpdateUserInternalKeeps ==
    ASSUME AccountInv, NEW r \in Requester, UpdateUserInternal(r)
    PROVE  AccountInv'
  <1> DEFINE q == req[r]
  <1>1. /\ r # Sync /\ q.pos = "reread"
        /\ UNCHANGED <<users, directory, sync, told, raced>>
    BY DEF UpdateUserInternal
  <1>2. Typed BY DEF AccountInv
  <1>3. q # NoRequest /\ q \in Busying BY <1>1, <1>2, IdleOrBusy DEF NoRequest
  <1>4. q.kind # "sync" BY <1>1, <1>2 DEF Typed
  <1>5. q \in Rereading BY <1>1, <1>3, <1>4, RequestShape
  <1>6. q.u \in User /\ q.new \in Row /\ q.kind \in UpdateKind /\ q.kind \notin Keeping
    BY <1>5 DEF Rereading, UpdateKind, Keeping
  <1>7. PICK u \in User : u = q.u BY <1>6
  <1>8. sync' \in Passes BY <1>1, <1>2 DEF Typed, Passes
  <1>9. ~ raced[u] => Settled(u) /\ Faithful(q) /\ UserInv(u)
    BY <1>1, <1>3, <1>7, NothingPublished
  <1>10. ~ raced[u] /\ users'[u].exists => Hashed(users'[u])
    BY <1>1, <1>9 DEF UserInv, Exists
  <1>11. ~ raced[u] /\ users'[u].exists => (told'[u] = "off" <=> users'[u].disabled)
    BY <1>1, <1>9 DEF Settled, Exists
  <1>12. CASE req' = [req EXCEPT ![r] = NoRequest]
    <2>1. NoRequest \in {NoRequest} \union Busying OBVIOUS
    <2> QED BY <1>1, <1>2, <1>3, <1>7, <1>8, <1>10, <1>11, <1>12, <2>1, MoveKeeps DEF Typed
  <1>13. CASE /\ Exists(u) /\ ValidateModifications(q.ctx, users[u], q.new, u, FALSE)
              /\ req' = [req EXCEPT ![r] = Writing(q.kind, u, users[u], q.new)]
    <2>1. PICK rec : rec = Writing(q.kind, u, users[u], q.new) OBVIOUS
    <2>2. users[u] \in Row BY <1>2, <1>13, Existence DEF Typed
    <2>3. /\ rec \in Updating /\ rec.pos = "save" /\ rec.u = u /\ rec.kind = q.kind
          /\ rec.old = users[u] /\ rec.new = Wanted(users[u], q.new)
      <3> HIDE DEF q
      <3> QED BY <1>6, <2>1, <2>2, WritingIsUpdate
    <2>4. q.new.password # NoPassword => "db" \in users[u].src BY <1>13, ValidPassword
    <2>5. ASSUME ~ raced[u] PROVE Faithful(rec)
      <3>1. users[u].src \subseteq q.new.src
        BY <1>1, <1>4, <1>7, <1>9, <2>5 DEF Faithful, Prepared
      <3>2. Hashed(users[u]) BY <1>9, <1>13, <2>5 DEF UserInv
      <3> HIDE DEF q
      <3> QED BY <1>2, <1>6, <1>9, <1>13, <2>3, <2>4, <2>5, <3>1, <3>2, UpdateHolds
    <2>6. ~ raced[u] => Faithful(rec)'
      BY <1>1, <2>5, SameUserSameWrite
    <2>7. rec \in Busying /\ rec.pos # "reread" BY <2>3 DEF Busying
    <2> QED BY <1>1, <1>2, <1>3, <1>7, <1>8, <1>10, <1>11, <1>13, <2>1, <2>3, <2>6, <2>7,
               MoveKeeps DEF Typed
  <1> QED BY <1>7, <1>12, <1>13 DEF UpdateUserInternal

\* the row is written, or deleted
LEMMA RowWritten ==
    ASSUME AccountInv, NEW r \in Requester, req[r].pos = "save",
           NEW account, account = NoRow \/ account \in Row,
           users' = [users EXCEPT ![req[r].u] = account],
           account # NoRow /\ ~ raced[req[r].u] => Hashed(account) /\ (Told(req[r]) = "off" <=> account.disabled),
           req' = [req EXCEPT ![r].pos = "publish"],
           UNCHANGED <<directory, sync, told, raced>>
    PROVE  AccountInv'
  <1> DEFINE q == req[r]
  <1>1. Typed BY DEF AccountInv
  <1>2. q # NoRequest /\ q \in Busying BY <1>1, IdleOrBusy DEF NoRequest
  <1>3. PICK u \in User : u = q.u BY <1>2, RequestShape
  <1>4. PICK rec : rec = [q EXCEPT !.pos = "publish"] OBVIOUS
  <1>5. /\ rec \in Busying /\ rec.pos = "publish" /\ rec.u = u /\ rec.kind = q.kind
        /\ rec.kind \notin {"delete", "missing"} => rec.new = q.new
        /\ rec.kind \notin {"delete", "missing", "create"} => rec.old = q.old
    <2>1. CASE q \in Marking BY <1>3, <1>4, <2>1 DEF Busying, Marking
    <2>2. CASE q \in Inserting BY <1>3, <1>4, <2>2 DEF Busying, Inserting
    <2>3. CASE q \in Updating BY <1>3, <1>4, <2>3 DEF Busying, Updating
    <2> QED BY <1>2, <2>1, <2>2, <2>3, RequestShape
  <1>6. req' = [req EXCEPT ![r] = rec] BY <1>4
  <1>7. users' \in [User -> Row \union {NoRow}] BY <1>1 DEF Typed
  <1>8. users'[u] = account BY <1>1, <1>3 DEF Typed
  <1>9. Told(rec)' = Told(q) BY <1>3, <1>5 DEF Told
  <1>10. NoRow.exists = FALSE BY DEF NoRow
  <1>11. ~ raced[u] /\ users'[u].exists => Hashed(users'[u]) BY <1>3, <1>8, <1>10
  <1>12. ~ raced[u] => Faithful(rec)'
    BY <1>3, <1>5, <1>8, <1>9, <1>10 DEF Faithful, Due, Exists
  <1>13. sync' \in Passes BY <1>1 DEF Typed, Passes
  <1>14. \A v \in User \ {q.u} : UNCHANGED <<users[v], told[v]>> BY <1>1 DEF Typed
  <1>15. told' \in [User -> {"on", "off"}] BY <1>1 DEF Typed
  <1>16. rec \in {NoRequest} \union Busying /\ rec.u = q.u /\ rec.pos # "reread" /\ rec.pos = "publish"
    BY <1>3, <1>5
  <1>17. ~ raced[q.u] => /\ users'[q.u].exists => Hashed(users'[q.u])
                         /\ Faithful(rec)'
    BY <1>3, <1>11, <1>12
  <1> QED BY <1>2, <1>6, <1>7, <1>13, <1>14, <1>15, <1>16, <1>17, MoveKeeps

LEMMA SaveUserKeeps == ASSUME AccountInv, NEW r \in Requester, SaveUser(r) PROVE AccountInv'
  <1>1. /\ req[r].pos = "save" /\ req[r].kind # "delete"
        /\ users' = [users EXCEPT ![req[r].u] = Saved(req[r])]
        /\ req' = [req EXCEPT ![r].pos = "publish"]
        /\ UNCHANGED <<directory, sync, told, raced>>
    BY DEF SaveUser, UpsertUser
  <1>2. Typed BY DEF AccountInv
  <1>3. req[r] # NoRequest /\ req[r] \in Busying BY <1>1, <1>2, IdleOrBusy DEF NoRequest
  <1>4. PICK account : account = Saved(req[r]) OBVIOUS
  <1>5. account \in Row BY <1>1, <1>2, <1>3, <1>4, SavedIsRow
  <1>6. ASSUME ~ raced[req[r].u]
        PROVE  Hashed(account) /\ (Told(req[r]) = "off" <=> account.disabled)
    <2>1. Faithful(req[r]) BY <1>1, <1>3, <1>6, NothingPublished
    <2> QED BY <1>1, <1>4, <2>1 DEF Faithful, Sound
  <1> QED BY <1>1, <1>4, <1>5, <1>6, RowWritten

LEMMA DeleteUserKeeps == ASSUME AccountInv, NEW r \in Requester, DeleteUser(r) PROVE AccountInv'
  <1>1. /\ req[r].pos = "save" /\ users' = [users EXCEPT ![req[r].u] = NoRow]
        /\ req' = [req EXCEPT ![r].pos = "publish"]
        /\ UNCHANGED <<directory, sync, told, raced>>
    BY DEF DeleteUser
  <1> QED BY <1>1, RowWritten

\* a request ends without a write; with it, possibly, a pass
LEMMA GiveUpKeeps ==
    ASSUME AccountInv, NEW r \in Requester, req[r] # NoRequest, req[r].pos # "publish",
           req' = [req EXCEPT ![r] = NoRequest],
           UNCHANGED <<users, directory, told, raced>>,
           sync' = sync \/ (r = Sync /\ sync' = BetweenPasses)
    PROVE  AccountInv'
  <1>1. Typed BY DEF AccountInv
  <1>2. req[r] \in Busying BY <1>1 DEF Typed
  <1>3. PICK u \in User : u = req[r].u BY <1>2, RequestShape
  <1>4. BetweenPasses.pos = "waiting" /\ NoRequest \in {NoRequest} \union Busying
    BY DEF BetweenPasses
  <1>5. sync' \in Passes /\ (sync'.pos = "disabling" => sync' = sync)
    BY <1>1, <1>4 DEF Typed, Passes
  <1>6. ~ raced[u] => Settled(u) /\ UserInv(u) BY <1>3, NothingPublished
  <1>7. ~ raced[u] => /\ users'[u].exists => Hashed(users'[u])
                      /\ users'[u].exists => (told'[u] = "off" <=> users'[u].disabled)
    BY <1>6 DEF UserInv, Settled, Exists
  <1> QED BY <1>1, <1>3, <1>4, <1>5, <1>7, MoveKeeps DEF Typed

LEMMA SaveFailsKeeps == ASSUME AccountInv, NEW r \in Requester, SaveFails(r) PROVE AccountInv'
  <1>1. /\ req[r].pos = "save" /\ req' = [req EXCEPT ![r] = NoRequest]
        /\ sync' = IF r = Sync THEN BetweenPasses ELSE sync
        /\ UNCHANGED <<users, directory, told, raced>>
    BY DEF SaveFails
  <1>2. req[r] # NoRequest BY <1>1 DEF NoRequest
  <1> QED BY <1>1, <1>2, GiveUpKeeps

LEMMA PublishKeeps ==
    ASSUME AccountInv, NEW r \in Requester, PublishUserEvents(r) PROVE AccountInv'
  <1> DEFINE q == req[r]
  <1>1. /\ q.pos = "publish" /\ told' = [told EXCEPT ![q.u] = Told(q)]
        /\ req' = [req EXCEPT ![r] = NoRequest]
        /\ UNCHANGED <<users, directory, sync, raced>>
    BY DEF PublishUserEvents
  <1>2. Typed BY DEF AccountInv
  <1>3. q # NoRequest /\ q \in Busying BY <1>1, <1>2, IdleOrBusy DEF NoRequest
  <1>4. PICK u \in User : u = q.u BY <1>3, RequestShape
  <1>5. told' \in [User -> {"on", "off"}] BY <1>1, <1>2, <1>3, ToldIsEvent DEF Typed
  <1>6. told'[u] = Told(q) BY <1>1, <1>2, <1>4 DEF Typed
  <1>7. \A v \in User \ {q.u} : UNCHANGED <<users[v], told[v]>> BY <1>1, <1>2 DEF Typed
  <1>8. ASSUME ~ raced[u]
        PROVE  /\ users'[u].exists => Hashed(users'[u])
               /\ users'[u].exists => (told'[u] = "off" <=> users'[u].disabled)
    <2>1. UserInv(u) BY <1>8 DEF AccountInv
    <2>2. UnderWay(r, u) BY <1>1, <1>4 DEF UnderWay
    <2>3. Due(q) BY <1>1, <2>1, <2>2 DEF UserInv, Faithful
    <2> QED BY <1>1, <1>4, <1>6, <2>1, <2>3 DEF UserInv, Due, Exists
  <1>9. sync' \in Passes BY <1>1, <1>2 DEF Typed, Passes
  <1>10. NoRequest \in {NoRequest} \union Busying /\ users' \in [User -> Row \union {NoRow}]
    BY <1>1, <1>2 DEF Typed
  <1> QED BY <1>1, <1>3, <1>4, <1>5, <1>7, <1>8, <1>9, <1>10, MoveKeeps

LEMMA ProceedKeeps == ASSUME AccountInv, NEW r \in Requester, Proceed(r) PROVE AccountInv'
  BY UpdateUserInternalKeeps, SaveUserKeeps, DeleteUserKeeps, PublishKeeps DEF Proceed

---------------------------------------------------------------------------
(* The synchronisation, and the directory. *)

LEMMA ListedEntry ==
    ASSUME NEW a \in Answer, a.listed PROVE a.entry \in Entry
  BY DEF Answer, Listed, Absent

\* what a pass is while it is under way
LEMMA PassFields ==
    ASSUME Typed, sync.pos # "waiting"
    PROVE  /\ sync.pos \in {"updating", "disabling"} /\ sync \in Pass
           /\ sync.todo \in SUBSET User /\ sync.entries \in [User -> Answer]
           /\ \A todo \in SUBSET User :
                 /\ [sync EXCEPT !.todo = todo] \in Pass
                 /\ [sync EXCEPT !.todo = todo].pos = sync.pos
                 /\ [sync EXCEPT !.todo = todo].entries = sync.entries
                 /\ [sync EXCEPT !.todo = todo].todo = todo
                 /\ [sync EXCEPT !.todo = todo].rows = sync.rows
  <1>1. sync \in Pass BY DEF Typed, BetweenPasses
  <1> DEFINE A == [pos : {"updating"}, todo : SUBSET User, entries : [User -> Answer]]
             B == [pos : {"disabling"}, todo : SUBSET User, entries : [User -> Answer],
                   rows : [User -> Row \union {NoRow}]]
  <1>2. CASE sync \in A
    <2>1. /\ sync.pos = "updating" /\ sync.todo \in SUBSET User /\ sync.entries \in [User -> Answer]
      BY <1>2
    <2>2. ASSUME NEW todo \in SUBSET User
          PROVE  /\ [sync EXCEPT !.todo = todo] \in A
                 /\ [sync EXCEPT !.todo = todo].pos = sync.pos
                 /\ [sync EXCEPT !.todo = todo].entries = sync.entries
                 /\ [sync EXCEPT !.todo = todo].todo = todo
                 /\ [sync EXCEPT !.todo = todo].rows = sync.rows
      BY <1>2
    <2> QED BY <1>1, <2>1, <2>2 DEF Pass
  <1>3. CASE sync \in B
    <2>1. /\ sync.pos = "disabling" /\ sync.todo \in SUBSET User /\ sync.entries \in [User -> Answer]
      BY <1>3
    <2>2. ASSUME NEW todo \in SUBSET User
          PROVE  /\ [sync EXCEPT !.todo = todo] \in B
                 /\ [sync EXCEPT !.todo = todo].pos = sync.pos
                 /\ [sync EXCEPT !.todo = todo].entries = sync.entries
                 /\ [sync EXCEPT !.todo = todo].todo = todo
                 /\ [sync EXCEPT !.todo = todo].rows = sync.rows
      BY <1>3
    <2> QED BY <1>1, <2>1, <2>2 DEF Pass
  <1> QED BY <1>1, <1>2, <1>3 DEF Pass

LEMMA SynchronizeKeeps == ASSUME AccountInv, SynchronizeLdapUsers PROVE AccountInv'
  <1>1. Typed BY DEF AccountInv
  <1>2. /\ sync.pos = "waiting" /\ UNCHANGED <<users, directory, req, told, raced>>
        /\ sync' = [pos |-> "updating", todo |-> User, entries |-> directory] \/ sync' = sync
    BY DEF SynchronizeLdapUsers
  <1>3. CASE sync' = [pos |-> "updating", todo |-> User, entries |-> directory]
    <2>1. sync' \in Passes /\ sync'.pos = "updating" BY <1>1, <1>3 DEF Typed, Passes, Pass
    <2>2. req[Sync].pos # "reread" BY <1>1, <1>2 DEF Typed
    <2> QED BY <1>1, <1>2, <2>1, <2>2, QuietKeeps DEF Typed
  <1>4. CASE sync' = sync
    <2>1. sync' \in Passes /\ sync'.pos # "disabling" BY <1>1, <1>2, <1>4 DEF Typed, Passes
    <2> QED BY <1>1, <1>2, <1>4, <2>1, QuietKeeps DEF Typed
  <1> QED BY <1>2, <1>3, <1>4

LEMMA UpdateLdapUsersKeeps ==
    ASSUME AccountInv, NEW u \in User, UpdateLdapUsers(u) PROVE AccountInv'
  <1>1. Typed BY DEF AccountInv
  <1>2. /\ sync.pos = "updating" /\ req[Sync].pos = "idle"
        /\ sync' = [sync EXCEPT !.todo = @ \ {u}]
        /\ UNCHANGED <<users, directory, told>>
    BY DEF UpdateLdapUsers
  <1>3. req[Sync] = NoRequest BY <1>1, <1>2, IdleOrBusy, SyncIsRequester
  <1>4. /\ sync' \in Passes /\ sync'.pos = "updating" /\ sync'.entries = sync.entries
        /\ sync.entries \in [User -> Answer]
    <2>1. sync.todo \ {u} \in SUBSET User BY <1>1, <1>2, PassFields
    <2> QED BY <1>1, <1>2, <2>1, PassFields DEF Passes
  <1>5. CASE SyncSkips(u)
    <2>1. UNCHANGED <<req, raced>> BY <1>5 DEF UpdateLdapUsers
    <2> QED BY <1>1, <1>2, <1>4, <2>1, QuietKeeps DEF Typed
  <1>6. ASSUME NEW rec \in Busying, rec.u = u, rec.pos # "publish", Enter(Sync, rec),
               rec.pos = "reread" => rec.kind = "sync" /\ sync.entries[u].listed,
               ~ BeingWritten(u) => Faithful(rec)
        PROVE  AccountInv'
    <2>1. /\ req' = [req EXCEPT ![Sync] = rec]
          /\ raced' = [raced EXCEPT ![u] = @ \/ BeingWritten(u)]
      BY <1>6 DEF Enter
    <2>2. BeingWritten(u) \in BOOLEAN BY DEF BeingWritten
    <2>3. /\ raced' \in [User -> BOOLEAN] /\ \A v \in User : raced[v] => raced'[v]
          /\ ~ raced'[u] => ~ BeingWritten(u)
      BY <1>1, <2>1, <2>2 DEF Typed
    <2>4. ~ BeingWritten(u) => \A s \in Requester : ~ UnderWay(s, u) BY Writers
    <2> QED BY <1>2, <1>3, <1>4, <1>6, <2>1, <2>3, <2>4, SyncIsRequester, EnterKeeps
  <1>7. CASE ~ SyncSkips(u) /\ Exists(u)
    <2>1. PICK rec : rec = [pos |-> "reread", kind |-> "sync", u |-> u, old |-> users[u]] OBVIOUS
    <2>2. users[u] \in Row BY <1>1, <1>7, Existence DEF Typed
    <2>3. rec \in SyncRereading BY <2>1, <2>2 DEF SyncRereading
    <2>4. Enter(Sync, rec) BY <1>7, <2>1 DEF UpdateLdapUsers
    <2>5. sync.entries[u].listed BY <1>7 DEF SyncSkips
    <2>6. Faithful(rec) BY <1>7, <2>1 DEF Faithful, Prepared
    <2>7. rec \in Busying BY <2>3 DEF Busying
    <2> QED BY <1>6, <2>1, <2>4, <2>5, <2>6, <2>7
  <1>8. CASE ~ SyncSkips(u) /\ ~ Exists(u)
    <2> DEFINE new == ConvertRawLdapUser(sync.entries[u].entry)
    <2>1. PICK rec : rec = Creating(u, new) OBVIOUS
    <2>2. sync.entries[u].entry \in Entry BY <1>4, <1>8, ListedEntry DEF SyncSkips
    <2>3. new \in Row /\ new.password = NoPassword BY <2>2, EntriesAreRows
    <2>4. Enter(Sync, rec) BY <1>8, <2>1 DEF UpdateLdapUsers
    <2> HIDE DEF new
    <2>5. rec \in Inserting /\ rec.pos = "save" /\ rec.u = u /\ Faithful(rec)
      BY <1>1, <1>8, <2>1, <2>3, CreatingHolds
    <2>6. rec \in Busying BY <2>5 DEF Busying
    <2> QED BY <1>6, <2>4, <2>5, <2>6
  <1> QED BY <1>5, <1>7, <1>8

LEMMA MergedRow ==
    ASSUME NEW account \in Row, NEW l \in Row
    PROVE  LET new == [MergeAuthSources(account, l.src) EXCEPT
                         !.profile = l.profile, !.admin = l.admin,
                         !.disabled = l.disabled, !.reason = l.reason]
           IN  new \in Row /\ account.src \subseteq new.src
  <1> DEFINE m == MergeAuthSources(account, l.src)
             new == [m EXCEPT !.profile = l.profile, !.admin = l.admin,
                              !.disabled = l.disabled, !.reason = l.reason]
             n1 == [m EXCEPT !.profile = l.profile, !.admin = l.admin]
  <1>1. account.src \union l.src \in SUBSET Source BY DEF Row
  <1>2. m \in Row /\ m.src = account.src \union l.src BY <1>1 DEF MergeAuthSources, Row
  <1> HIDE DEF m
  <1>3. n1 \in Row /\ n1.src = m.src BY <1>2 DEF Row
  <1>4. new = [n1 EXCEPT !.disabled = l.disabled, !.reason = l.reason] OBVIOUS
  <1> HIDE DEF n1
  <1>5. new \in Row /\ new.src = n1.src BY <1>3, <1>4 DEF Row
  <1> QED BY <1>2, <1>3, <1>5 DEF m

LEMMA UpdateSyncedKeeps == ASSUME AccountInv, UpdateSynced PROVE AccountInv'
  <1> DEFINE q == req[Sync]
             ldapUser == LdapUser(sync.entries[q.u].entry, q.old)
             new == [MergeAuthSources(users[q.u], ldapUser.src) EXCEPT
                       !.profile = ldapUser.profile, !.admin = ldapUser.admin,
                       !.disabled = ldapUser.disabled, !.reason = ldapUser.reason]
  <1>1. /\ q.pos = "reread" /\ Exists(q.u)
        /\ IF ValidateModifications(SystemAdmin, q.old, new, q.u, FALSE)
           THEN req' = [req EXCEPT ![Sync] = Writing("sync", q.u, q.old, new)] /\ UNCHANGED sync
           ELSE req' = [req EXCEPT ![Sync] = NoRequest] /\ sync' = BetweenPasses
        /\ UNCHANGED <<users, directory, told, raced>>
    BY DEF UpdateSynced
  <1>2. Typed BY DEF AccountInv
  <1>3. q # NoRequest /\ q \in Busying BY <1>1, <1>2, IdleOrBusy, SyncIsRequester DEF NoRequest
  <1>4. q.kind = "sync" /\ sync.pos = "updating" /\ sync.entries[q.u].listed
    BY <1>1, <1>2, SyncIsRequester DEF Typed
  <1>5. q.u \in User /\ q.old \in Row BY <1>1, <1>3, <1>4, RequestShape DEF SyncRereading
  <1>6. ldapUser \in Row
    <2>1. sync.entries[q.u].entry \in Entry BY <1>2, <1>4, <1>5, PassFields, ListedEntry
    <2> QED BY <1>5, <2>1, EntriesAreRows
  <1>7. users[q.u] \in Row BY <1>1, <1>2, <1>5, Existence DEF Typed
  <1>8. new \in Row /\ users[q.u].src \subseteq new.src
    <2> HIDE DEF ldapUser, q
    <2> QED BY <1>6, <1>7, MergedRow
  <1> HIDE DEF new, ldapUser
  <1>9. CASE ~ ValidateModifications(SystemAdmin, q.old, new, q.u, FALSE)
    BY <1>1, <1>3, <1>9, SyncIsRequester, GiveUpKeeps
  <1>10. CASE ValidateModifications(SystemAdmin, q.old, new, q.u, FALSE)
    <2>1. PICK rec : rec = Writing("sync", q.u, q.old, new) OBVIOUS
    <2>2. PICK u \in User : u = q.u BY <1>5
    <2>3. /\ rec \in Updating /\ rec.pos = "save" /\ rec.u = u
          /\ rec.old = q.old /\ rec.new = Wanted(q.old, new)
      <3>1. "sync" \in UpdateKind BY DEF UpdateKind
      <3> HIDE DEF q
      <3> QED BY <1>5, <1>8, <2>1, <2>2, <3>1, WritingIsUpdate
    <2>4. new.password # NoPassword => "db" \in q.old.src BY <1>10, ValidPassword
    <2>5. ~ raced[u] => Settled(u) /\ UserInv(u) /\ q.old = users[u]
      BY <1>1, <1>3, <1>4, <2>2, SyncIsRequester, NothingPublished DEF Faithful, Prepared
    <2>6. ~ raced[u] => Faithful(rec)
      <3> HIDE DEF q
      <3>1. ~ raced[u] => Hashed(q.old) BY <1>1, <2>2, <2>5 DEF UserInv
      <3> QED BY <1>1, <1>2, <1>8, <2>2, <2>3, <2>4, <2>5, <3>1, UpdateHolds
    <2>7. ~ raced[u] => Faithful(rec)' BY <1>1, <2>2, <2>3, <2>6, SameUserSameWrite
    <2>8. ~ raced[u] => /\ users'[u].exists => Hashed(users'[u])
                        /\ users'[u].exists => (told'[u] = "off" <=> users'[u].disabled)
      BY <1>1, <2>5 DEF UserInv, Settled, Exists
    <2>9. rec \in {NoRequest} \union Busying /\ rec.pos # "reread" BY <2>3 DEF Busying
    <2>10. /\ req' = [req EXCEPT ![Sync] = rec] /\ sync' = sync /\ sync' \in Passes
           /\ users' \in [User -> Row \union {NoRow}] /\ told' \in [User -> {"on", "off"}]
      BY <1>1, <1>2, <1>10, <2>1 DEF Typed, Passes
    <2> QED BY <1>1, <1>3, <2>2, <2>3, <2>7, <2>8, <2>9, <2>10, SyncIsRequester, MoveKeeps
  <1> QED BY <1>9, <1>10

LEMMA ListMissingKeeps == ASSUME AccountInv, ListMissing PROVE AccountInv'
  <1>1. Typed BY DEF AccountInv
  <1>2. /\ sync.pos = "updating" /\ req[Sync].pos = "idle"
        /\ sync' = IF DisableMissing
                   THEN [pos |-> "disabling", todo |-> User, entries |-> sync.entries, rows |-> users]
                   ELSE BetweenPasses
        /\ raced' = [u \in User |-> raced[u] \/ (DisableMissing /\ BeingWritten(u))]
        /\ UNCHANGED <<users, directory, req, told>>
    BY DEF ListMissing
  <1>3. \A u \in User : BeingWritten(u) \in BOOLEAN BY DEF BeingWritten
  <1>4. raced' \in [User -> BOOLEAN] BY <1>1, <1>2, <1>3, UserAccountsAssumption DEF Typed
  <1>5. \A u \in User : /\ raced[u] => raced'[u]
                        /\ ~ raced'[u] /\ DisableMissing => ~ BeingWritten(u)
    BY <1>2
  <1>6. sync' \in Passes /\ (sync'.pos = "disabling" => DisableMissing /\ sync'.rows = users)
    <2>1. sync.entries \in [User -> Answer] BY <1>1, <1>2, PassFields
    <2>2. BetweenPasses.pos = "waiting" BY DEF BetweenPasses
    <2>3. [pos |-> "disabling", todo |-> User, entries |-> sync.entries, rows |-> users] \in Pass
      BY <1>1, <2>1 DEF Typed, Pass
    <2> QED BY <1>2, <2>2, <2>3 DEF Passes
  <1> QED BY <1>1, <1>2, <1>4, <1>5, <1>6, QuietKeeps DEF Typed

LEMMA DisableMissingKeeps ==
    ASSUME AccountInv, NEW u \in User, DisableMissingLdapUsers(u) PROVE AccountInv'
  <1>1. Typed BY DEF AccountInv
  <1>2. /\ sync.pos = "disabling" /\ req[Sync].pos = "idle" /\ u \in sync.todo
        /\ sync' = [sync EXCEPT !.todo = @ \ {u}]
        /\ req' = IF MissingSkips(u) THEN req
                  ELSE [req EXCEPT ![Sync] = [pos |-> "save", kind |-> "missing", u |-> u]]
        /\ UNCHANGED <<users, directory, told, raced>>
    BY DEF DisableMissingLdapUsers
  <1>3. req[Sync] = NoRequest BY <1>1, <1>2, IdleOrBusy, SyncIsRequester
  <1>4. /\ sync' \in Passes /\ sync'.pos = "disabling"
        /\ sync'.todo = sync.todo \ {u} /\ sync'.rows = sync.rows
    <2>1. sync.todo \ {u} \in SUBSET User BY <1>1, <1>2, PassFields
    <2> QED BY <1>1, <1>2, <2>1, PassFields DEF Passes
  <1>5. CASE MissingSkips(u)
    BY <1>1, <1>2, <1>4, <1>5, QuietKeeps DEF Typed
  <1>6. CASE ~ MissingSkips(u)
    <2>1. PICK rec : rec = [pos |-> "save", kind |-> "missing", u |-> u] OBVIOUS
    <2>2. rec \in Marking BY <2>1 DEF Marking
    <2>3. ASSUME ~ raced[u]
          PROVE  (\A s \in Requester : ~ UnderWay(s, u)) /\ Faithful(rec)
      <3>1. UserInv(u) BY <2>3 DEF AccountInv
      <3>2. (\A s \in Requester : ~ UnderWay(s, u)) /\ sync.rows[u] = users[u]
        BY <1>2, <3>1 DEF UserInv, Single
      <3> DEFINE old == GetOrCreateUser(u)
      <3>3. Exists(u) => Hashed(users[u]) BY <3>1 DEF UserInv
      <3>4. ~ Exists(u) => old.password = NoPassword BY DEF GetOrCreateUser, EmptyRow
      <3>5. old \in Row
        <4>1. EmptyRow(CHOOSE p \in Profile : TRUE) \in Row BY UserAccountsAssumption, EmptyRowIsRow
        <4> QED BY <1>1, <4>1, Existence DEF Typed, GetOrCreateUser
      <3>6. Hashed(old) BY <3>3, <3>4 DEF Hashed, GetOrCreateUser
      <3>7. Saved(rec) = [old EXCEPT !.disabled = TRUE, !.reason = "ldapMissing"]
        BY <2>1 DEF Saved
      <3> HIDE DEF old
      <3>8. /\ Saved(rec).password = old.password /\ Saved(rec).src = old.src
            /\ Saved(rec).disabled
        BY <3>5, <3>7 DEF Row
      <3>9. Hashed(Saved(rec)) BY <3>6, <3>8 DEF Hashed, HasDatabaseSource
      <3>10. Told(rec) = "off" BY <2>1 DEF Told
      <3>11. Expected(rec)
        BY <1>6, <2>1, <3>2 DEF Expected, MissingSkips, Exists, UpdateKind
      <3> QED BY <2>1, <3>2, <3>8, <3>9, <3>10, <3>11 DEF Faithful, Sound
    <2>4. rec \in Busying /\ rec.u = u /\ rec.pos = "save" BY <2>1, <2>2 DEF Busying
    <2>5. req' = [req EXCEPT ![Sync] = rec] BY <1>2, <1>6, <2>1
    <2> QED BY <1>1, <1>2, <1>3, <1>4, <2>3, <2>4, <2>5, SyncIsRequester, EnterKeeps DEF Typed
  <1> QED BY <1>5, <1>6

LEMMA SyncStepKeeps == ASSUME AccountInv, SyncStep PROVE AccountInv'
  <1>1. CASE SyncPassEnds
    <2>1. UNCHANGED <<users, directory, req, told, raced>> /\ req[Sync].pos = "idle"
          /\ sync' = BetweenPasses
      BY <1>1 DEF SyncPassEnds
    <2>2. sync' \in Passes /\ sync'.pos = "waiting" BY <2>1 DEF Passes, BetweenPasses
    <2> QED BY <2>1, <2>2, QuietKeeps DEF AccountInv, Typed
  <1>2. CASE SyncPanics BY <1>2, StopsKeep DEF SyncPanics
  <1> QED BY <1>1, <1>2, SynchronizeKeeps, UpdateLdapUsersKeeps, UpdateSyncedKeeps,
             ListMissingKeeps, DisableMissingKeeps DEF SyncStep

LEMMA DirectoryKeeps ==
    ASSUME AccountInv, NEW u \in User, DirectoryChanges(u) PROVE AccountInv'
  <1>1. Typed BY DEF AccountInv
  <1>2. directory' \in [User -> Answer] /\ UNCHANGED <<users, req, sync, told, raced>>
    BY <1>1 DEF DirectoryChanges, Typed, Answer
  <1> QED BY <1>1, <1>2, QuietKeeps DEF Typed, Passes

---------------------------------------------------------------------------
(* The invariant. *)

LEMMA AccountsBegin == AccountsInit => AccountInv
  <1> SUFFICES ASSUME AccountsInit PROVE AccountInv OBVIOUS
  <1>1. \A r \in Requester : req[r] = NoRequest BY DEF AccountsInit, Requester
  <1>2. NoRequest.pos = "idle" /\ BetweenPasses.pos = "waiting" BY DEF NoRequest, BetweenPasses
  <1>3. \A r \in Requester, u \in User : ~ UnderWay(r, u) BY <1>1, <1>2 DEF UnderWay
  <1>4. users \in [User -> Row \union {NoRow}] BY UserAccountsAssumption DEF AccountsInit
  <1>5. Typed
    <2>1. req \in [Requester -> {NoRequest} \union Busying]
      BY DEF AccountsInit, Requester
    <2>2. told \in [User -> {"on", "off"}] /\ raced \in [User -> BOOLEAN] BY DEF AccountsInit
    <2>3. directory \in [User -> Answer] /\ sync = BetweenPasses BY DEF AccountsInit, Answer
    <2> QED BY <1>1, <1>2, <1>4, <2>1, <2>2, <2>3, SyncIsRequester DEF Typed
  <1>6. ASSUME NEW u \in User PROVE UserInv(u)
    <2>1. Exists(u) => users[u] \in InitialRow
      <3>1. users[u] \in InitialRow \union {NoRow} BY DEF AccountsInit
      <3>2. NoRow.exists = FALSE BY DEF NoRow
      <3> QED BY <3>1, <3>2 DEF Exists
    <2>2. Exists(u) => Hashed(users[u]) BY <2>1, UserAccountsAssumption DEF Hashed
    <2>3. told[u] = IF users[u].exists /\ users[u].disabled THEN "off" ELSE "on"
      BY DEF AccountsInit
    <2>4. Settled(u) BY <2>3 DEF Settled, Exists
    <2>5. sync = BetweenPasses BY DEF AccountsInit
    <2> QED BY <1>2, <1>3, <2>2, <2>4, <2>5 DEF UserInv, Single
  <1> QED BY <1>5, <1>6 DEF AccountInv

LEMMA AccountsStep == AccountInv /\ [AccountsNext]_accounts => AccountInv'
  <1> SUFFICES ASSUME AccountInv, [AccountsNext]_accounts PROVE AccountInv' OBVIOUS
  <1>1. CASE UNCHANGED accounts
    <2>1. UNCHANGED <<users, directory, req, sync, told, raced>> BY <1>1 DEF accounts
    <2> QED BY <2>1, QuietKeeps DEF AccountInv, Typed, Passes
  <1> QED BY <1>1, RequestKeeps, ProceedKeeps, SaveFailsKeeps, SyncStepKeeps, DirectoryKeeps
          DEF AccountsNext, Requester

\* The invariant that carries the theorems about accounts: the types; and for a
\* user whose writers have not overlapped, that there is at most one of them, and
\* that what it is going to write and to publish fits the row as it is now.
THEOREM AccountsInvariance == Accounts => []AccountInv
  BY AccountsBegin, AccountsStep, PTL DEF Accounts

\* The last event the peer manager was sent says what the row says, for any
\* number of users and requests and any directory, whenever no writer of the user
\* is under way and none has overlapped (user_manager.go 470-477, ldap_sync.go 246).
THEOREM EventsFollowRow == Accounts => []EventsMatchRow
  <1>1. AccountInv => EventsMatchRow
    <2> SUFFICES ASSUME AccountInv, NEW u \in User, Exists(u), ~ raced[u], ~ BeingWritten(u)
                 PROVE  told[u] = "off" <=> users[u].disabled
      BY DEF EventsMatchRow
    <2> QED BY NobodyWrites DEF Settled
  <1> QED BY <1>1, AccountsInvariance, PTL

\* A stored password is hashed and its user has the database as a source, through
\* every edit, login and pass of the synchronisation, unless writers have
\* overlapped (user_manager.go 390-470 and 500-531).
THEOREM PasswordsAreKept == Accounts => []PasswordNeedsDatabaseSource
  <1>1. AccountInv => PasswordNeedsDatabaseSource
    <2> SUFFICES ASSUME AccountInv, NEW u \in User, Exists(u), ~ raced[u],
                        users[u].password # NoPassword
                 PROVE  users[u].password.hashed /\ HasDatabaseSource(users[u])
      BY DEF PasswordNeedsDatabaseSource
    <2> QED BY DEF AccountInv, UserInv, Hashed
  <1> QED BY <1>1, AccountsInvariance, PTL

-----------------------------------------------------------------------------
(* PART TWO: the writers of the peers of a user.                           *)

USE NoneAssumption, SettingAssumption, BoundAssumption

-----------------------------------------------------------------------------
(* The inductive invariant.                                                *)

Waiting(t) == queue[t] + (IF pub = t THEN 1 ELSE 0)

\* Every event comes from a change of the user: what bounds the queues.
QueueBound == \A t \in Topic : Waiting(t) <= changes

\* A writer that is past its look at the peer knows what it is going to do.
WorkOK ==
    \A w \in Worker :
        /\ work[w].at = "save" => work[w].cur \in Peer /\ work[w].todo[work[w].cur] \in PeerRow
        /\ work[w].at = "delrow" => work[w].cur \in Peer /\ work[w].todo[work[w].cur] = Gone

\* A peer whose row is about to be deleted is off the device.
HalfDeletedOff ==
    \A w \in Worker : work[w].at = "delrow" => work[w].cur \notin devPeers \ loose

\* Only peers that are off on account of their user are about to be enabled by
\* anybody but an editor, as long as nobody wrote them meanwhile.
EnablesUserReason ==
    \A w \in Worker \ Editor, p \in Peer :
        LET r == work[w].todo[p] IN
        r # None /\ r.off = "no" =>
            p \in loose \/ (row[p] # None /\ row[p].off = "user")

IInv ==
    /\ TypeOK /\ QueueBound /\ WorkOK
    /\ DevicePeersEnabled /\ HalfDeletedOff /\ EnablesUserReason

\* The type of a plan, and of the task of a writer.
Todo == [Peer -> PeerRow \cup {None, Gone}]
Task == [at : {"idle", "loop", "save", "delrow"}, cur : Peer \cup {None}, todo : Todo]
-----------------------------------------------------------------------------
(* Lemmas about plans and tasks.                                           *)

\* The writers that are no handlers.
LEMMA EditorIsWorker ==
  /\ Editor \subseteq Worker /\ Editor \subseteq {"admin", "owner"}
  /\ "expiry" \in Worker \ Editor /\ Topic \subseteq Worker \ Editor
BY DEF Editor, Worker, Topic

LEMMA IdleIsTask == Nothing \in Todo /\ Idle \in Task
BY DEF Nothing, Todo, Idle, Task

LEMMA PlansAreTyped ==
  ASSUME row \in [Peer -> PeerRow \cup {None}]
  PROVE  ExpiryPlan \in Todo /\ \A t \in Topic : Plan(t) \in Todo
<1> USE DEF Todo, PeerRow, OffReason, On, Linked
<1>1. ExpiryPlan \in Todo BY DEF ExpiryPlan
<1>2. DisabledPlan \in Todo BY DEF DisabledPlan
<1>3. EnabledPlan \in Todo BY DEF EnabledPlan
<1>4. DeletedPlan \in Todo BY DEF DeletedPlan
<1> QED BY <1>1, <1>2, <1>3, <1>4 DEF Plan, Topic

\* What a handler or the timer decides to enable is off for its user.
LEMMA PlansEnableUserReason ==
  ASSUME row \in [Peer -> PeerRow \cup {None}], NEW p \in Peer,
         NEW todo \in {ExpiryPlan} \cup {Plan(t) : t \in Topic},
         todo[p] # None, todo[p].off = "no"
  PROVE  row[p] # None /\ row[p].off = "user"
<1> USE DEF PeerRow, OffReason, On, Linked
<1>1. CASE todo = ExpiryPlan BY <1>1 DEF ExpiryPlan
<1>2. CASE todo = DisabledPlan BY <1>2 DEF DisabledPlan
<1>3. CASE todo = EnabledPlan BY <1>3 DEF EnabledPlan
<1>4. CASE todo = DeletedPlan BY <1>4 DEF DeletedPlan, Gone
<1> QED BY <1>1, <1>2, <1>3, <1>4 DEF Plan, Topic

LEMMA LeftIsTask ==
  ASSUME NEW todo \in Todo
  PROVE  Left(todo) \in Task /\ Left(todo).todo = todo /\ Left(todo).at \in {"idle", "loop"}
BY IdleIsTask DEF Left, Task, Idle

\* What starting, advancing and finishing a piece of work does to the writers.
LEMMA StartEffect ==
  ASSUME work \in [Worker -> Task], NEW w \in Worker, NEW todo \in Todo, Start(w, todo)
  PROVE  /\ work' \in [Worker -> Task]
         /\ \A v \in Worker \ {w} : work'[v] = work[v]
         /\ work'[w].at \in {"idle", "loop"} /\ work'[w].todo = todo
<1>1. Left(todo) \in Task /\ Left(todo).todo = todo /\ Left(todo).at \in {"idle", "loop"}
  BY LeftIsTask
<1> QED BY <1>1 DEF Start

LEMMA FinishEffect ==
  ASSUME work \in [Worker -> Task], NEW w \in Worker, NEW p \in Peer, Finish(w, p)
  PROVE  /\ work' \in [Worker -> Task]
         /\ \A v \in Worker \ {w} : work'[v] = work[v]
         /\ work'[w].at \in {"idle", "loop"}
         /\ work'[w].todo = [work[w].todo EXCEPT ![p] = None]
<1> DEFINE left == [work[w].todo EXCEPT ![p] = None]
<1>1. left \in Todo BY DEF Task, Todo
<1>2. Left(left) \in Task /\ Left(left).todo = left /\ Left(left).at \in {"idle", "loop"}
  BY <1>1, LeftIsTask
<1>3. work' = [work EXCEPT ![w] = Left(left)] BY DEF Finish
<1> QED BY <1>2, <1>3

LEMMA StepEffect ==
  ASSUME work \in [Worker -> Task], NEW w \in Worker, NEW p \in Peer,
         NEW l \in {"save", "delrow"}, Step(w, l, p)
  PROVE  /\ work' \in [Worker -> Task]
         /\ \A v \in Worker \ {w} : work'[v] = work[v]
         /\ work'[w].at = l /\ work'[w].cur = p /\ work'[w].todo = work[w].todo
BY DEF Step, Task

-----------------------------------------------------------------------------
(* The invariant.                                                          *)

LEMMA TypeOKTasks == TypeOK <=> TypeOK /\ work \in [Worker -> Task]
BY DEF TypeOK, Task, Todo

LEMMA InitIInv == Init => IInv
<1> SUFFICES ASSUME Init PROVE IInv OBVIOUS
<1>0. row \in [Peer -> PeerRow \cup {None}] /\ devPeers = Restored
  <2>1. \A off \in InitialOff : Fresh(off) \in PeerRow
    BY InitialAssumption DEF Fresh, PeerRow, OffReason
  <2> QED BY <2>1 DEF Init
<1>1. TypeOK BY <1>0, IdleIsTask DEF Init, TypeOK, Restored, Task, Todo
<1>2. \A w \in Worker : work[w].at = "idle" /\ work[w].todo = Nothing BY DEF Init, Idle
<1>3. QueueBound BY DEF Init, QueueBound, Waiting
<1>4. WorkOK /\ HalfDeletedOff BY <1>2 DEF WorkOK, HalfDeletedOff
<1>5. EnablesUserReason BY <1>2 DEF EnablesUserReason, Nothing
<1>6. DevicePeersEnabled BY <1>0 DEF DevicePeersEnabled, Restored
<1> QED BY <1>1, <1>3, <1>4, <1>5, <1>6 DEF IInv

\* Steps of the environment touch neither rows nor writers.
LEMMA EnvironmentKeeps ==
  ASSUME IInv, \/ \E new \in {"enabled", "disabled", "deleted"} : ChangeUser(new)
               \/ Publish
               \/ \E p \in Peer : Expire(p)
               \/ UNCHANGED vars
  PROVE  IInv'
<1> USE DEF IInv
<1>1. UNCHANGED <<row, devPeers, work, loose>> BY DEF ChangeUser, Publish, Expire, vars
<1>2. TypeOK' /\ QueueBound'
  <2> USE DEF TypeOK, QueueBound, Waiting, Topic
  <2>1. ASSUME NEW new \in {"enabled", "disabled", "deleted"}, ChangeUser(new)
        PROVE  TypeOK' /\ QueueBound'
    BY <2>1 DEF ChangeUser, Event
  <2>2. CASE Publish BY <2>2 DEF Publish
  <2>3. ASSUME NEW p \in Peer, Expire(p) PROVE TypeOK' /\ QueueBound'
    BY <2>3 DEF Expire
  <2>4. CASE UNCHANGED vars BY <2>4 DEF vars
  <2> QED BY <2>1, <2>2, <2>3, <2>4
<1> QED
  BY <1>1, <1>2 DEF WorkOK, DevicePeersEnabled, On, HalfDeletedOff, EnablesUserReason

\* A writer starts on a plan; peers may become loose.
LEMMA StartKeeps ==
  ASSUME IInv, NEW w \in Worker, NEW todo \in Todo, Start(w, todo),
         UNCHANGED <<row, devPeers>>, loose \subseteq loose',
         w \notin Editor => \A p \in Peer : todo[p] # None /\ todo[p].off = "no"
                              => row[p] # None /\ row[p].off = "user"
  PROVE  /\ work' \in [Worker -> Task]
         /\ WorkOK' /\ DevicePeersEnabled' /\ HalfDeletedOff' /\ EnablesUserReason'
<1> USE DEF IInv
<1>1. work \in [Worker -> Task] BY TypeOKTasks
<1>2. /\ work' \in [Worker -> Task]
      /\ \A v \in Worker \ {w} : work'[v] = work[v]
      /\ work'[w].at \in {"idle", "loop"} /\ work'[w].todo = todo
  BY <1>1, StartEffect
<1>3. WorkOK' BY <1>2 DEF WorkOK
<1>4. DevicePeersEnabled' BY DEF DevicePeersEnabled, On
<1>5. HalfDeletedOff' BY <1>2 DEF HalfDeletedOff
<1>6. EnablesUserReason' BY <1>2 DEF EnablesUserReason
<1> QED BY <1>2, <1>3, <1>4, <1>5, <1>6

\* Reading a list, or failing to, also leaves the types and the queues right.
LEMMA ReadKeeps ==
  ASSUME IInv, \/ \E t \in Topic : Handle(t)
               \/ CheckExpired
               \/ \E w \in Editor, p \in Peer, off \in {"no", "admin"} : UpdatePeer(w, p, off)
               \/ \E w \in Editor, p \in Peer : DeletePeer(w, p)
  PROVE  IInv'
<1> USE DEF IInv
<1>a. work \in [Worker -> Task] /\ row \in [Peer -> PeerRow \cup {None}]
  BY TypeOKTasks DEF TypeOK
<1>b. ASSUME UNCHANGED <<row, devPeers, work>>, loose \subseteq loose'
      PROVE  WorkOK' /\ DevicePeersEnabled' /\ HalfDeletedOff' /\ EnablesUserReason'
  BY <1>b DEF WorkOK, DevicePeersEnabled, On, HalfDeletedOff, EnablesUserReason
<1>1. ASSUME NEW t \in Topic, Handle(t) PROVE IInv'
  <2>1. QueueBound' /\ queue' \in [Topic -> 0..MaxChange]
    BY <1>1 DEF Handle, envVars, QueueBound, Waiting, TypeOK
  <2>2. UNCHANGED <<row, devPeers>> /\ loose \subseteq loose' /\ loose' \subseteq Peer
    BY <1>1 DEF Handle, Fault, TypeOK
  <2>3. work' \in [Worker -> Task]
        /\ WorkOK' /\ DevicePeersEnabled' /\ HalfDeletedOff' /\ EnablesUserReason'
    <3>1. CASE Start(t, Plan(t))
      <4>1. Plan(t) \in Todo BY <1>a, PlansAreTyped
      <4>2. \A p \in Peer : Plan(t)[p] # None /\ Plan(t)[p].off = "no"
               => row[p] # None /\ row[p].off = "user"
        BY <1>a, PlansEnableUserReason
      <4>3. t \in Worker BY EditorIsWorker
      <4> QED BY <2>2, <3>1, <4>1, <4>2, <4>3, StartKeeps
    <3>2. CASE UNCHANGED work BY <1>a, <1>b, <2>2, <3>2
    <3> QED BY <1>1, <3>1, <3>2 DEF Handle
  <2>4. TypeOK'
    BY <1>1, <2>1, <2>2, <2>3 DEF Handle, envVars, Fault, TypeOK, Task, Todo
  <2> QED BY <2>1, <2>3, <2>4
<1>2. CASE CheckExpired
  <2>2. UNCHANGED <<row, devPeers, queue, pub, changes>> /\ loose \subseteq loose' /\ loose' \subseteq Peer
    BY <1>2 DEF CheckExpired, Fault, TypeOK, envVars
  <2>3. work' \in [Worker -> Task]
        /\ WorkOK' /\ DevicePeersEnabled' /\ HalfDeletedOff' /\ EnablesUserReason'
    <3>1. CASE Start("expiry", ExpiryPlan)
      <4>1. ExpiryPlan \in Todo BY <1>a, PlansAreTyped
      <4>2. \A p \in Peer : ExpiryPlan[p] # None /\ ExpiryPlan[p].off = "no"
               => row[p] # None /\ row[p].off = "user"
        BY <1>a, PlansEnableUserReason
      <4>3. "expiry" \in Worker BY EditorIsWorker
      <4> QED BY <2>2, <3>1, <4>1, <4>2, <4>3, StartKeeps
    <3>2. CASE UNCHANGED work BY <1>a, <1>b, <2>2, <3>2
    <3> QED BY <1>2, <3>1, <3>2 DEF CheckExpired
  <2>4. TypeOK' BY <1>2, <2>2, <2>3 DEF CheckExpired, envVars, Fault, TypeOK, Task, Todo
  <2>5. QueueBound' BY <2>2 DEF QueueBound, Waiting
  <2> QED BY <2>3, <2>4, <2>5
<1>3. ASSUME NEW w \in Editor, NEW p \in Peer, NEW r \in PeerRow \cup {Gone}, Edit(w, p, r)
      PROVE  IInv'
  <2>1. [Nothing EXCEPT ![p] = r] \in Todo BY DEF Nothing, Todo
  <2>2. UNCHANGED <<row, devPeers, loose, queue, pub, changes>>
    BY <1>3 DEF Edit, envVars
  <2>3. work' \in [Worker -> Task]
        /\ WorkOK' /\ DevicePeersEnabled' /\ HalfDeletedOff' /\ EnablesUserReason'
    BY <1>3, <2>1, <2>2, EditorIsWorker, StartKeeps DEF Edit
  <2>4. TypeOK' BY <1>3, <2>3 DEF Edit, envVars, TypeOK, Task, Todo
  <2>5. QueueBound' BY <2>2 DEF QueueBound, Waiting
  <2> QED BY <2>3, <2>4, <2>5
<1>4. ASSUME NEW w \in Editor, NEW p \in Peer, NEW off \in {"no", "admin"}, UpdatePeer(w, p, off)
      PROVE  IInv'
  <2>1. [row[p] EXCEPT !.off = off] \in PeerRow
    BY <1>4, <1>a DEF UpdatePeer, Finds, PeerRow, OffReason
  <2> QED BY <1>3, <1>4, <2>1 DEF UpdatePeer
<1> QED BY <1>1, <1>2, <1>3, <1>4 DEF DeletePeer

\* The look before a write changes neither device nor rows.
LEMMA CheckExistsKeeps ==
  ASSUME IInv, NEW w \in Worker, NEW p \in Peer, CheckExists(w, p)
  PROVE  IInv'
<1> USE DEF IInv
<1>a. work \in [Worker -> Task] BY TypeOKTasks
<1>1. UNCHANGED <<row, devPeers, queue, pub, changes>> /\ loose \subseteq loose' /\ loose' \subseteq Peer
  BY DEF CheckExists, Fault, TypeOK, envVars
<1>2. work[w].todo[p] \in PeerRow /\ work[w].todo[p] # None
  BY <1>a DEF CheckExists, Pending, Task, Todo
<1>3. /\ work' \in [Worker -> Task]
      /\ WorkOK' /\ DevicePeersEnabled' /\ HalfDeletedOff' /\ EnablesUserReason'
  <2>1. CASE Step(w, "save", p)
    <3>1. /\ work' \in [Worker -> Task]
          /\ \A v \in Worker \ {w} : work'[v] = work[v]
          /\ work'[w].at = "save" /\ work'[w].cur = p /\ work'[w].todo = work[w].todo
      BY <1>a, <2>1, StepEffect
    <3>2. WorkOK' BY <1>2, <3>1 DEF WorkOK
    <3>3. DevicePeersEnabled' BY <1>1 DEF DevicePeersEnabled, On
    <3>4. HalfDeletedOff' BY <1>1, <3>1 DEF HalfDeletedOff
    <3>5. EnablesUserReason' BY <1>1, <3>1 DEF EnablesUserReason
    <3> QED BY <3>1, <3>2, <3>3, <3>4, <3>5
  <2>2. CASE Finish(w, p)
    <3>1. /\ work' \in [Worker -> Task]
          /\ \A v \in Worker \ {w} : work'[v] = work[v]
          /\ work'[w].at \in {"idle", "loop"}
          /\ work'[w].todo = [work[w].todo EXCEPT ![p] = None]
      BY <1>a, <2>2, FinishEffect
    <3>2. WorkOK' BY <3>1 DEF WorkOK
    <3>3. DevicePeersEnabled' BY <1>1 DEF DevicePeersEnabled, On
    <3>4. HalfDeletedOff' BY <1>1, <3>1 DEF HalfDeletedOff
    <3>5. EnablesUserReason' BY <1>1, <1>a, <3>1 DEF EnablesUserReason, Task, Todo
    <3> QED BY <3>1, <3>2, <3>3, <3>4, <3>5
  <2> QED BY <2>1, <2>2 DEF CheckExists
<1>4. TypeOK' BY <1>1, <1>3 DEF CheckExists, envVars, Fault, TypeOK, Task, Todo
<1>5. QueueBound' BY <1>1 DEF QueueBound, Waiting
<1> QED BY <1>3, <1>4, <1>5

\* A write of p by w makes p loose if anybody else was going to write it.
LEMMA OverlapEffect ==
  ASSUME NEW w \in Worker, NEW p \in Peer, loose \subseteq Peer, Overlap(w, p)
  PROVE  /\ loose \subseteq loose' /\ loose' \subseteq Peer
         /\ \A v \in Worker \ {w} : work[v].todo[p] # None => p \in loose'
<1>1. ASSUME NEW v \in Worker \ {w}, work[v].todo[p] # None PROVE p \in loose'
  BY <1>1 DEF Overlap, Pending
<1> QED BY <1>1 DEF Overlap

\* What a writer knows of other peers, and others of theirs, is kept by a write of
\* p that makes p loose when somebody else is concerned.
LEMMA WriteKeeps ==
  ASSUME IInv, NEW w \in Worker, NEW p \in Peer,
         loose \subseteq loose', loose' \subseteq Peer,
         \A q \in Peer \ {p} : row'[q] = row[q],
         devPeers' \ {p} \subseteq devPeers,
         \/ row'[p] = row[p] /\ (p \in devPeers' => p \in devPeers)
         \/ p \in loose'
         \/ \A v \in Worker \ {w} : work[v].todo[p] = None,
         \A v \in Worker \ {w} : work'[v] = work[v],
         work' \in [Worker -> Task],
         work'[w].at \in {"idle", "loop"},
         work'[w].todo = [work[w].todo EXCEPT ![p] = None]
  PROVE  WorkOK' /\ HalfDeletedOff' /\ EnablesUserReason'
<1> USE DEF IInv
<1>a. work \in [Worker -> Task] BY TypeOKTasks
<1>1. WorkOK' BY DEF WorkOK
<1>2. HalfDeletedOff'
  <2> SUFFICES ASSUME NEW v \in Worker \ {w}, work[v].at = "delrow",
                      work[v].cur \in devPeers' \ loose'
               PROVE  FALSE
    BY DEF HalfDeletedOff
  <2>1. work[v].cur \in Peer /\ work[v].todo[work[v].cur] = Gone
        /\ work[v].cur \notin devPeers \ loose
    BY DEF WorkOK, HalfDeletedOff
  <2> QED BY <2>1
<1>3. EnablesUserReason'
  <2> SUFFICES ASSUME NEW v \in Worker \ Editor, NEW q \in Peer,
                      work'[v].todo[q] # None, work'[v].todo[q].off = "no"
               PROVE  q \in loose' \/ (row'[q] # None /\ row'[q].off = "user")
    BY DEF EnablesUserReason
  <2>1. CASE v = w
    <3>1. q # p BY <2>1, <1>a DEF Task, Todo
    <3>2. work'[v].todo[q] = work[v].todo[q] BY <2>1, <3>1, <1>a DEF Task, Todo
    <3> QED BY <3>1, <3>2 DEF EnablesUserReason
  <2>2. CASE v # w BY <2>2 DEF EnablesUserReason
  <2> QED BY <2>1, <2>2
<1> QED BY <1>1, <1>2, <1>3

LEMMA SaveKeeps ==
  ASSUME IInv, NEW w \in Worker, Save(w)
  PROVE  IInv'
<1> USE DEF IInv
<1> DEFINE p == work[w].cur
           r == work[w].todo[p]
<1>a. work \in [Worker -> Task] /\ p \in Peer /\ r \in PeerRow /\ row \in [Peer -> PeerRow \cup {None}]
  BY TypeOKTasks DEF WorkOK, Save, TypeOK
<1>1. /\ work' \in [Worker -> Task]
      /\ \A v \in Worker \ {w} : work'[v] = work[v]
      /\ work'[w].at \in {"idle", "loop"}
      /\ work'[w].todo = [work[w].todo EXCEPT ![p] = None]
  BY <1>a, FinishEffect DEF Save
<1>2. CASE PutPeer(p, r) /\ row' = [row EXCEPT ![p] = r] /\ Overlap(w, p) /\ UNCHANGED faults
  <2>1. /\ loose \subseteq loose' /\ loose' \subseteq Peer
        /\ \A v \in Worker \ {w} : work[v].todo[p] # None => p \in loose'
    BY <1>2, <1>a, OverlapEffect DEF TypeOK
  <2>2. row' \in [Peer -> PeerRow \cup {None}] /\ \A q \in Peer \ {p} : row'[q] = row[q]
    BY <1>2, <1>a
  <2>3. devPeers' \subseteq Peer /\ devPeers' \ {p} \subseteq devPeers
    BY <1>2, <1>a DEF PutPeer, TypeOK
  <2>4. WorkOK' /\ HalfDeletedOff' /\ EnablesUserReason'
    BY <1>1, <1>a, <2>1, <2>2, <2>3, WriteKeeps
  <2>5. DevicePeersEnabled'
    <3> SUFFICES ASSUME ~Awg, NEW q \in devPeers' \ loose' PROVE On(q)'
      BY DEF DevicePeersEnabled
    <3>1. CASE q = p
      <4>1. r.off = "no" BY <1>2, <3>1 DEF PutPeer
      <4>2. row'[p] = r /\ r # None BY <1>2, <1>a
      <4> QED BY <3>1, <4>1, <4>2 DEF On
    <3>2. CASE q # p
      BY <2>1, <2>2, <2>3, <3>2 DEF DevicePeersEnabled, On, TypeOK
    <3> QED BY <3>1, <3>2
  <2>6. TypeOK'
    BY <1>1, <1>2, <2>1, <2>2, <2>3 DEF Save, envVars, TypeOK, Task, Todo
  <2> QED BY <2>4, <2>5, <2>6 DEF QueueBound, Waiting, Save, envVars
<1>3. CASE (UNCHANGED devPeers \/ PutPeer(p, r)) /\ Fault({p}) /\ UNCHANGED row
  <2>1. loose \subseteq loose' /\ loose' \subseteq Peer /\ p \in loose'
    BY <1>3, <1>a DEF Fault, TypeOK
  <2>3. devPeers' \subseteq Peer /\ devPeers' \ {p} \subseteq devPeers
    BY <1>3, <1>a DEF PutPeer, TypeOK
  <2>4. WorkOK' /\ HalfDeletedOff' /\ EnablesUserReason'
    BY <1>1, <1>3, <1>a, <2>1, <2>3, WriteKeeps
  <2>5. DevicePeersEnabled' BY <1>3, <2>1, <2>3 DEF DevicePeersEnabled, On
  <2>6. TypeOK'
    BY <1>1, <1>3, <2>1, <2>3 DEF Save, Fault, envVars, TypeOK, Task, Todo
  <2> QED BY <2>4, <2>5, <2>6 DEF QueueBound, Waiting, Save, envVars
<1> QED BY <1>2, <1>3 DEF Save

LEMMA DeleteDeviceKeeps ==
  ASSUME IInv, NEW w \in Worker, NEW p \in Peer, DeleteDevice(w, p)
  PROVE  IInv'
<1> USE DEF IInv
<1>a. work \in [Worker -> Task] /\ work[w].todo[p] = Gone /\ devPeers \subseteq Peer
  BY TypeOKTasks DEF DeleteDevice, TypeOK
<1>b. UNCHANGED <<row, queue, pub, changes>> BY DEF DeleteDevice, envVars
<1>1. /\ loose \subseteq loose' /\ loose' \subseteq Peer
      /\ devPeers' \subseteq devPeers
  BY OverlapEffect DEF DeleteDevice, Fault, TypeOK
<1>2. DevicePeersEnabled' BY <1>b, <1>1 DEF DevicePeersEnabled, On
<1>3. work' \in [Worker -> Task] /\ WorkOK' /\ HalfDeletedOff' /\ EnablesUserReason'
  <2>1. CASE devPeers' = devPeers \ {p} /\ Step(w, "delrow", p)
    <3>1. /\ work' \in [Worker -> Task]
          /\ \A v \in Worker \ {w} : work'[v] = work[v]
          /\ work'[w].at = "delrow" /\ work'[w].cur = p /\ work'[w].todo = work[w].todo
      BY <1>a, <2>1, StepEffect
    <3>2. WorkOK' BY <1>a, <3>1 DEF WorkOK
    <3>3. HalfDeletedOff' BY <1>1, <2>1, <3>1 DEF HalfDeletedOff
    <3>4. EnablesUserReason' BY <1>1, <1>b, <3>1 DEF EnablesUserReason
    <3> QED BY <3>1, <3>2, <3>3, <3>4
  <2>2. CASE Finish(w, p)
    <3>1. /\ work' \in [Worker -> Task]
          /\ \A v \in Worker \ {w} : work'[v] = work[v]
          /\ work'[w].at \in {"idle", "loop"}
          /\ work'[w].todo = [work[w].todo EXCEPT ![p] = None]
      BY <1>a, <2>2, FinishEffect
    <3> QED BY <1>1, <1>b, <3>1, WriteKeeps
  <2> QED BY <2>1, <2>2 DEF DeleteDevice
<1>4. TypeOK' BY <1>a, <1>b, <1>1, <1>3 DEF DeleteDevice, envVars, Fault, TypeOK, Task, Todo
<1>5. QueueBound' BY <1>b DEF QueueBound, Waiting
<1> QED BY <1>2, <1>3, <1>4, <1>5

LEMMA DeleteRowKeeps ==
  ASSUME IInv, NEW w \in Worker, DeleteRow(w)
  PROVE  IInv'
<1> USE DEF IInv
<1> DEFINE p == work[w].cur
<1>a. /\ work \in [Worker -> Task] /\ p \in Peer /\ row \in [Peer -> PeerRow \cup {None}]
      /\ p \notin devPeers \ loose
  BY TypeOKTasks DEF WorkOK, HalfDeletedOff, DeleteRow, TypeOK
<1>b. UNCHANGED <<devPeers, queue, pub, changes>> BY DEF DeleteRow, envVars
<1>1. /\ work' \in [Worker -> Task]
      /\ \A v \in Worker \ {w} : work'[v] = work[v]
      /\ work'[w].at \in {"idle", "loop"}
      /\ work'[w].todo = [work[w].todo EXCEPT ![p] = None]
  BY <1>a, FinishEffect DEF DeleteRow
<1>2. /\ loose \subseteq loose' /\ loose' \subseteq Peer
      /\ \/ UNCHANGED row
         \/ \A v \in Worker \ {w} : work[v].todo[p] # None => p \in loose'
  BY <1>a, OverlapEffect DEF DeleteRow, Fault, TypeOK
<1>3. row' \in [Peer -> PeerRow \cup {None}] /\ \A q \in Peer \ {p} : row'[q] = row[q]
  BY <1>a DEF DeleteRow
<1>4. WorkOK' /\ HalfDeletedOff' /\ EnablesUserReason'
  <2>1. CASE UNCHANGED row BY <1>a, <1>b, <1>1, <1>2, <2>1, WriteKeeps
  <2>2. CASE \A v \in Worker \ {w} : work[v].todo[p] # None => p \in loose'
    BY <1>a, <1>b, <1>1, <1>2, <1>3, <2>2, WriteKeeps
  <2> QED BY <1>2, <2>1, <2>2
<1>5. DevicePeersEnabled' BY <1>a, <1>b, <1>2, <1>3 DEF DevicePeersEnabled, On, TypeOK
<1>6. TypeOK'
  BY <1>b, <1>1, <1>2, <1>3 DEF DeleteRow, envVars, Fault, TypeOK, Task, Todo
<1>7. QueueBound' BY <1>b DEF QueueBound, Waiting
<1> QED BY <1>1, <1>4, <1>5, <1>6, <1>7

LEMMA RestartKeeps == ASSUME IInv, Restart PROVE IInv'
<1> USE DEF IInv
<1>1. work' = [w \in Worker |-> Idle] /\ work' \in [Worker -> Task]
  BY IdleIsTask DEF Restart
<1>2. \A w \in Worker : work'[w].at = "idle" /\ work'[w].todo = Nothing
  BY <1>1 DEF Idle
<1>3. WorkOK' /\ HalfDeletedOff' BY <1>2 DEF WorkOK, HalfDeletedOff
<1>4. EnablesUserReason' BY <1>2 DEF EnablesUserReason, Nothing
<1>5. DevicePeersEnabled' BY DEF Restart, DevicePeersEnabled, Restored, On
<1>6. devPeers' \subseteq Peer /\ loose' \subseteq Peer
  BY DEF Restart, Restored, Pending, TypeOK
<1>7. TypeOK' BY <1>1, <1>6 DEF Restart, TypeOK, Task, Todo
<1>8. QueueBound' BY DEF Restart, QueueBound, Waiting, TypeOK
<1> QED BY <1>3, <1>4, <1>5, <1>7, <1>8

LEMMA StepIInv == IInv /\ [Next]_vars => IInv'
<1> SUFFICES ASSUME IInv, [Next]_vars PROVE IInv' OBVIOUS
<1>1. ASSUME NEW w \in Worker, Progress(w) PROVE IInv'
  BY <1>1, CheckExistsKeeps, DeleteDeviceKeeps, SaveKeeps, DeleteRowKeeps DEF Progress
<1> QED BY <1>1, EnvironmentKeeps, ReadKeeps, RestartKeeps DEF Next

\* The invariant that carries the theorems below: types, the bound of the queues,
\* and what each writer knows of the peers it has still to write.
THEOREM Invariant == Safe => []IInv
  BY InitIInv, StepIInv, PTL DEF Safe

\* Type correctness of UserPeers; the queues are bounded by the user's changes.
THEOREM TypeCorrect == Safe => []TypeOK
<1>1. IInv => TypeOK BY DEF IInv
<1> QED BY <1>1, Invariant, PTL

\* A kernel device serves enabled peers only, except after an overlap of two
\* writers or a failed step.
THEOREM KernelServesEnabledPeers == Safe => []DevicePeersEnabled
<1>1. IInv => DevicePeersEnabled BY DEF IInv
<1> QED BY <1>1, Invariant, PTL

-----------------------------------------------------------------------------
(* What is disabled with the reason of an admin.                           *)

LEMMA SwitchedOnBySave ==
  ASSUME IInv, [Next]_vars, NEW p \in Peer, row'[p] # row[p], row'[p] # None
  PROVE  \E w \in Worker : Save(w) /\ work[w].cur = p /\ row'[p] = work[w].todo[p]
                           /\ Overlap(w, p)
<1>1. ASSUME NEW w \in Worker, Save(w)
      PROVE  work[w].cur = p /\ row'[p] = work[w].todo[p] /\ Overlap(w, p)
  BY <1>1 DEF Save, IInv, TypeOK
<1>2. ASSUME NEW w \in Worker, NEW q \in Peer, CheckExists(w, q) \/ DeleteDevice(w, q)
      PROVE  FALSE
  BY <1>2 DEF CheckExists, DeleteDevice
<1>3. ASSUME NEW w \in Worker, DeleteRow(w) PROVE FALSE
  BY <1>3 DEF DeleteRow, IInv, TypeOK
<1>4. PICK w \in Worker : Progress(w)
  BY DEF Next, ChangeUser, Publish, Expire, Handle, CheckExpired, UpdatePeer, DeletePeer,
         Edit, Restart, envVars, vars
<1> QED BY <1>1, <1>2, <1>3, <1>4 DEF Progress

\* What is disabled with the reason of an admin stays disabled until an admin or,
\* where self-provisioning is allowed, the owner asks to enable it: no handler of a
\* user event and no timer brings it back, except after an overlap of two writers
\* or a failed step (wireguard.go 210-213; wireguard_peers.go 381-388).
THEOREM EditorsHaveTheLastWord == Safe => AdminDisableSticks
<1>1. ASSUME IInv, [Next]_vars, NEW p \in Peer,
             row[p] # None, row[p].off = "admin", row'[p] # None, row'[p].off = "no"
      PROVE  p \in loose' \/ \E w \in Editor : work'[w] # work[w]
  <2>1. PICK w \in Worker : Save(w) /\ work[w].cur = p /\ row'[p] = work[w].todo[p]
                            /\ Overlap(w, p)
    BY <1>1, SwitchedOnBySave
  <2>2. work[w].todo[p] # None BY <1>1, <2>1
  <2>3. CASE w \in Editor
    <3>1. work'[w].todo = [work[w].todo EXCEPT ![p] = None]
      BY <1>1, <2>1, TypeOKTasks, FinishEffect DEF IInv, Save
    <3>2. work[w].todo \in Todo BY <1>1, TypeOKTasks DEF IInv, Task
    <3> QED BY <2>2, <2>3, <3>1, <3>2 DEF Todo
  <2>4. CASE w \notin Editor
    <3>1. p \in loose BY <1>1, <2>1, <2>2, <2>4 DEF IInv, EnablesUserReason
    <3> QED BY <1>1, <2>1, <3>1, OverlapEffect DEF IInv, TypeOK
  <2> QED BY <2>3, <2>4
<1>2. IInv /\ [Next]_vars =>
        [\A p \in Peer :
           row[p] # None /\ row[p].off = "admin" /\ row'[p] # None /\ row'[p].off = "no"
              => p \in loose' \/ \E w \in Editor : work'[w] # work[w]]_vars
  BY <1>1
<1> QED BY <1>2, Invariant, PTL DEF Safe, AdminDisableSticks

-----------------------------------------------------------------------------
(* The peers follow their user.  This is about a user that is changed again  *)
(* only when its events are handled: events of two topics have no order.     *)

\* The event on its way, published or not, taken or not, is the one event of the
\* user's last change.
OneEvent ==
    /\ \A t \in Topic : pub = t \/ queue[t] > 0 \/ Busy(t) => t = Event(user)
    /\ pub # None => \A t \in Topic : queue[t] = 0 /\ ~Busy(t)
    /\ \A t \in Topic : queue[t] > 0 => queue[t] = 1 /\ ~Busy(t)

\* Each writer writes one kind of row only.
Writes(w) ==
    CASE w = "UserDisabled" -> {"user"}
      [] w = "UserEnabled" -> {"no"}
      [] w = "UserDeleted" -> {"delete", "gone"}
      [] w = "expiry" -> {"expired"}
      [] w \in Editor -> {"delete", "no", "admin"}

Kinds ==
    \A w \in Worker, p \in Peer :
        work[w].todo[p] # None => work[w].todo[p].off \in Writes(w)

IdleIsEmpty == \A w \in Worker : ~Busy(w) => work[w].todo = Nothing

\* What the event of the user asks of a peer, or leaves to its handler.
Follows(p) ==
    IF user = "enabled"
    THEN ReEnable /\ row[p].off = "user" => work["UserEnabled"].todo[p] # None
    ELSE On(p) => work[Event(user)].todo[p] # None

Taken == pub = None /\ \A t \in Topic : queue[t] = 0
Following == Taken => \A p \in Linked \ loose : Follows(p)

FollowInv == Kinds /\ IdleIsEmpty /\ (Paced => OneEvent /\ Following)

LEMMA EventIsTopic == TypeOK => Event(user) \in Topic /\ Event(user) \in Worker
BY DEF TypeOK, Event, Topic, Worker

\* The writers, by name.
LEMMA WorkerCases ==
  ASSUME NEW w \in Worker
  PROVE  \/ w = "UserDisabled" /\ Writes(w) = {"user"}
         \/ w = "UserEnabled" /\ Writes(w) = {"no"}
         \/ w = "UserDeleted" /\ Writes(w) = {"delete", "gone"}
         \/ w = "expiry" /\ Writes(w) = {"expired"}
         \/ w \in Editor /\ Writes(w) = {"delete", "no", "admin"}
BY DEF Worker, Topic, Editor, Writes

LEMMA PlanKinds ==
  ASSUME row \in [Peer -> PeerRow \cup {None}], NEW p \in Peer
  PROVE  /\ \A t \in Topic : Plan(t)[p] # None => Plan(t)[p].off \in Writes(t)
         /\ ExpiryPlan[p] # None => ExpiryPlan[p].off \in Writes("expiry")
<1> USE DEF PeerRow, OffReason, On, Linked
<1>1. DisabledPlan[p] # None => DisabledPlan[p].off = "user" BY DEF DisabledPlan
<1>2. EnabledPlan[p] # None => EnabledPlan[p].off = "no" BY DEF EnabledPlan
<1>3. DeletedPlan[p] # None => DeletedPlan[p].off \in {"delete", "gone"} BY DEF DeletedPlan, Gone
<1>4. ExpiryPlan[p] # None => ExpiryPlan[p].off = "expired" BY DEF ExpiryPlan
<1>5. /\ Writes("UserDisabled") = {"user"} /\ Writes("UserEnabled") = {"no"}
      /\ Writes("UserDeleted") = {"delete", "gone"} /\ Writes("expiry") = {"expired"}
  BY EditorIsWorker, WorkerCases DEF Topic
<1> QED BY <1>1, <1>2, <1>3, <1>4, <1>5 DEF Plan, Topic

\* A plan leaves out no peer that the event is about.
LEMMA PlanIsComplete ==
  ASSUME TypeOK, NEW p \in Linked
  PROVE  IF user = "enabled"
         THEN ReEnable /\ row[p].off = "user" => Plan("UserEnabled")[p] # None
         ELSE On(p) => Plan(Event(user))[p] # None
<1>1. p \in Peer /\ row[p] \in PeerRow /\ row[p].linked BY DEF Linked, TypeOK
<1>2. [row[p] EXCEPT !.off = "user"] # None /\ [row[p] EXCEPT !.off = "no"] # None
      /\ [off |-> "gone", linked |-> FALSE] # None /\ Gone # None
  <2>1. [row[p] EXCEPT !.off = "user"] \in PeerRow /\ [row[p] EXCEPT !.off = "no"] \in PeerRow
        /\ [off |-> "gone", linked |-> FALSE] \in PeerRow
    BY <1>1 DEF PeerRow, OffReason
  <2> QED BY <2>1
<1>3. row[p].off = "user" => ~On(p) BY <1>1 DEF On
<1>4. CASE user = "enabled" BY <1>1, <1>2, <1>3, <1>4 DEF Plan, EnabledPlan, Topic
<1>5. CASE user = "disabled" BY <1>1, <1>2, <1>5 DEF Plan, DisabledPlan, Topic, Event
<1>6. CASE user = "deleted" BY <1>1, <1>2, <1>6 DEF Plan, DeletedPlan, Topic, Event
<1> QED BY <1>4, <1>5, <1>6 DEF TypeOK

LEMMA InitFollowInv == Init => FollowInv
<1> SUFFICES ASSUME Init PROVE FollowInv OBVIOUS
<1>1. \A w \in Worker : ~Busy(w) /\ work[w].todo = Nothing BY DEF Init, Busy, Idle
<1>2. Kinds /\ IdleIsEmpty BY <1>1 DEF Kinds, IdleIsEmpty, Nothing
<1>3. OneEvent BY <1>1 DEF Init, OneEvent, Topic, Worker
<1>4. Following
  <2>1. \A p \in Peer : row[p].off # "user" BY InitialAssumption DEF Init, Fresh
  <2> QED BY <2>1 DEF Init, Following, Follows, Linked
<1> QED BY <1>2, <1>3, <1>4 DEF FollowInv

\* Following and OneEvent look at the handlers, the rows and the events only.
LEMMA FollowEnvironment ==
  ASSUME IInv, FollowInv, \/ \E new \in {"enabled", "disabled", "deleted"} : ChangeUser(new)
                          \/ Publish
                          \/ \E p \in Peer : Expire(p)
                          \/ UNCHANGED vars
  PROVE  FollowInv'
<1> USE DEF FollowInv
<1>1. UNCHANGED <<row, work, loose>> BY DEF ChangeUser, Publish, Expire, vars
<1>2. Kinds' /\ IdleIsEmpty' BY <1>1 DEF Kinds, IdleIsEmpty, Busy
<1>3. ASSUME Paced PROVE OneEvent' /\ Following'
  <2>1. ASSUME NEW new \in {"enabled", "disabled", "deleted"}, ChangeUser(new)
        PROVE  OneEvent' /\ Following'
    <3>1. EventsDone /\ pub' = Event(new) /\ user' = new /\ queue' = queue
      BY <1>3, <2>1 DEF ChangeUser
    <3>2. Event(new) \in Topic BY DEF Event, Topic
    <3> QED BY <1>1, <3>1, <3>2 DEF EventsDone, OneEvent, Following, Taken, Busy, Event
  <2>2. CASE Publish
    <3>1. pub \in Topic BY <2>2 DEF Publish, IInv, TypeOK
    <3>2. queue'[pub] = 1 /\ \A t \in Topic \ {pub} : queue'[t] = queue[t]
      BY <1>3, <2>2, <3>1 DEF Publish, OneEvent, IInv, TypeOK
    <3>3. OneEvent' BY <1>1, <1>3, <2>2, <3>1, <3>2 DEF Publish, OneEvent, Busy, Event
    <3>4. ~ Taken' BY <3>1, <3>2 DEF Taken
    <3> QED BY <3>3, <3>4 DEF Following
  <2>3. CASE UNCHANGED <<user, pub, queue>>
    BY <1>1, <1>3, <2>3 DEF OneEvent, Following, Follows, Taken, Busy, Linked, On, Event
  <2> QED BY <2>1, <2>2, <2>3 DEF Expire, vars
<1> QED BY <1>2, <1>3

\* A writer that is not the handler of the user's event starts, goes on or ends:
\* what it has left to write is of its kind.
LEMMA KindsStep ==
  ASSUME IInv, Kinds, IdleIsEmpty, NEW w \in Worker,
         \A v \in Worker \ {w} : work'[v] = work[v],
         \A p \in Peer : work'[w].todo[p] # None => work'[w].todo[p].off \in Writes(w),
         work'[w].at = "idle" => work'[w].todo = Nothing
  PROVE  Kinds' /\ IdleIsEmpty'
BY DEF Kinds, IdleIsEmpty, Busy

\* How a writer starts and ends.
LEMMA LeftIsEmpty ==
  ASSUME NEW todo
  PROVE  /\ Left(todo).todo = todo
         /\ Left(todo).at = "idle" => todo = Nothing
         /\ todo = Nothing => Left(todo).at = "idle"
BY DEF Left, Idle

\* The event of the user stays the one event when a writer goes on that has
\* started already, or that is not a handler.
LEMMA OneEventStep ==
  ASSUME OneEvent, NEW w \in Worker, UNCHANGED <<user, pub, queue>>,
         \A v \in Worker \ {w} : work'[v] = work[v],
         Busy(w) \/ w \notin Topic
  PROVE  OneEvent'
BY DEF OneEvent, Busy, Event, Worker

\* A writer has dealt with p, or looked at it; other peers are as before.
LEMMA ProgressFollows ==
  ASSUME IInv, FollowInv, NEW w \in Worker, NEW p \in Peer, Busy(w),
         UNCHANGED <<user, pub, queue>>, loose \subseteq loose',
         \A v \in Worker \ {w} : work'[v] = work[v],
         \A q \in Peer \ {p} : row'[q] = row[q],
         \/ work'[w].todo = work[w].todo /\ work'[w].at # "idle"
         \/ /\ work'[w].todo = [work[w].todo EXCEPT ![p] = None]
            /\ work'[w].at = "idle" => work'[w].todo = Nothing,
         Paced /\ Taken /\ p \in Linked' \ loose' => Follows(p)'
  PROVE  FollowInv'
<1> USE DEF FollowInv
<1>a. work \in [Worker -> Task] BY TypeOKTasks DEF IInv
<1>1. \A q \in Peer : work'[w].todo[q] # None => work'[w].todo[q] = work[w].todo[q]
  BY <1>a DEF Task, Todo
<1>2. \A q \in Peer : work'[w].todo[q] # None => work'[w].todo[q].off \in Writes(w)
  BY <1>1 DEF Kinds
<1>3. Kinds' /\ IdleIsEmpty' BY <1>2, KindsStep
<1>4. ASSUME Paced PROVE OneEvent' /\ Following'
  <2>1. OneEvent' BY <1>4, OneEventStep
  <2>2. ASSUME Taken', NEW q \in Linked' \ loose', q # p PROVE Follows(q)'
    <3>1. Taken /\ q \in Linked \ loose /\ q \in Peer /\ row'[q] = row[q]
      BY <2>2 DEF Taken, Linked
    <3>2. Follows(q) BY <1>4, <3>1 DEF Following
    <3>3. \A v \in Worker : work'[v].todo[q] = work[v].todo[q]
      BY <1>a, <2>2, <3>1 DEF Task, Todo
    <3>4. Event(user) \in Worker /\ "UserEnabled" \in Worker
      BY EventIsTopic DEF IInv, Worker, Topic
    <3> QED BY <3>1, <3>2, <3>3, <3>4 DEF Follows, On, Event
  <2>3. Taken' => Taken BY DEF Taken
  <2>4. ASSUME Taken', NEW q \in Linked' \ loose' PROVE Follows(q)'
    <3>1. CASE q = p BY <1>4, <2>3, <2>4, <3>1
    <3> QED BY <2>2, <2>4, <3>1
  <2> QED BY <2>1, <2>4 DEF Following
<1> QED BY <1>3, <1>4

\* What Finish leaves behind.
LEMMA FinishLeaves ==
  ASSUME work \in [Worker -> Task], NEW w \in Worker, NEW p \in Peer, Finish(w, p)
  PROVE  /\ \A v \in Worker \ {w} : work'[v] = work[v]
         /\ work'[w].todo = [work[w].todo EXCEPT ![p] = None]
         /\ work'[w].at = "idle" => work'[w].todo = Nothing
BY LeftIsEmpty DEF Finish

LEMMA ProgressKeepsFollow ==
  ASSUME IInv, FollowInv, NEW w \in Worker, Progress(w)
  PROVE  FollowInv'
<1>a. /\ work \in [Worker -> Task] /\ loose \subseteq Peer /\ row \in [Peer -> PeerRow \cup {None}]
      /\ user \in {"enabled", "disabled", "deleted"}
      /\ Event(user) \in Worker /\ "UserEnabled" \in Worker
  BY TypeOKTasks, EventIsTopic DEF IInv, TypeOK, Worker, Topic
<1>b. Busy(w) /\ UNCHANGED <<user, pub, queue>>
  BY DEF Progress, CheckExists, DeleteDevice, Save, DeleteRow, envVars, Busy
\* a writer that only looks takes over what is known of the peer
<1>c. ASSUME NEW p \in Peer, NEW l \in {"save", "delrow"}, Step(w, l, p), UNCHANGED row,
             loose \subseteq loose'
      PROVE  FollowInv'
  <2>1. /\ \A v \in Worker \ {w} : work'[v] = work[v]
        /\ work'[w].todo = work[w].todo /\ work'[w].at # "idle"
    BY <1>a, <1>c, StepEffect
  <2>2. ASSUME Paced, Taken, p \in Linked' \ loose' PROVE Follows(p)'
    <3>1. Follows(p) BY <1>c, <2>2 DEF FollowInv, Following, Linked
    <3> QED BY <1>a, <1>b, <1>c, <2>1, <3>1 DEF Follows, On, Event
  <2> QED BY <1>b, <1>c, <2>1, <2>2, ProgressFollows
\* a writer that has finished with p
<1>d. ASSUME NEW p \in Peer, Finish(w, p), \A q \in Peer \ {p} : row'[q] = row[q],
             loose \subseteq loose',
             Paced /\ Taken /\ p \in Linked' \ loose' => Follows(p)'
      PROVE  FollowInv'
  <2>1. /\ \A v \in Worker \ {w} : work'[v] = work[v]
        /\ work'[w].todo = [work[w].todo EXCEPT ![p] = None]
        /\ work'[w].at = "idle" => work'[w].todo = Nothing
    BY <1>a, <1>d, FinishLeaves
  <2> QED BY <1>b, <1>d, <2>1, ProgressFollows
<1>1. ASSUME NEW p \in Peer, CheckExists(w, p) PROVE FollowInv'
  <2>1. UNCHANGED row /\ loose \subseteq loose' BY <1>1 DEF CheckExists, Fault
  <2>2. CASE Step(w, "save", p) BY <1>c, <2>1, <2>2
  <2>3. CASE Finish(w, p) /\ (~Finds(w, p) \/ Fault({p}))
    <3>1. p \notin Linked' \ loose' BY <2>1, <2>3 DEF Linked, Finds, Fault
    <3> QED BY <1>d, <2>1, <2>3, <3>1
  <2> QED BY <1>1, <2>2, <2>3 DEF CheckExists
<1>2. ASSUME NEW p \in Peer, DeleteDevice(w, p) PROVE FollowInv'
  <2>1. UNCHANGED row /\ loose \subseteq loose'
    BY <1>2 DEF DeleteDevice, Fault, Overlap
  <2>2. CASE Step(w, "delrow", p) BY <1>c, <2>1, <2>2
  <2>3. CASE Finish(w, p) /\ (~Finds(w, p) \/ Fault({p}))
    <3>1. p \notin Linked' \ loose' BY <2>1, <2>3 DEF Linked, Finds, Fault
    <3> QED BY <1>d, <2>1, <2>3, <3>1
  <2> QED BY <1>2, <2>2, <2>3 DEF DeleteDevice
<1>3. CASE Save(w)
  <2>0. PICK p \in Peer : p = work[w].cur BY <1>3 DEF Save, IInv, WorkOK
  <2>a. PICK r \in PeerRow : r = work[w].todo[p] BY <1>3, <2>0 DEF Save, IInv, WorkOK
  <2>1. r # None /\ r.off \in Writes(w)
    BY <2>0, <2>a DEF FollowInv, Kinds
  <2>2. Finish(w, p) /\ loose \subseteq loose' BY <1>3, <2>0 DEF Save, Overlap, Fault
  <2>3. CASE row' = [row EXCEPT ![p] = r] /\ Overlap(w, p)
    <3>1. row'[p] = r BY <1>a, <2>1, <2>3
    <3>2. ASSUME Paced, Taken, p \in Linked' \ loose' PROVE Follows(p)'
      <4>1. ~Overrules(w, p) BY <2>3, <3>2 DEF Overlap
      <4>2. w \in Topic => w = Event(user) BY <1>b, <3>2 DEF FollowInv, OneEvent
      <4>3. CASE user = "enabled"
        <5>1. r.off # "user" BY <2>1, <4>2, <4>3, WorkerCases DEF Event, Topic
        <5> QED BY <1>b, <3>1, <4>3, <5>1 DEF Follows
      <4>4. CASE user # "enabled"
        <5>1. w = "UserEnabled" => FALSE BY <1>a, <4>2, <4>4 DEF Event, Topic
        <5>2. r.off # "no" BY <2>a, <2>1, <4>1, <4>4, <5>1, WorkerCases DEF Overrules
        <5> QED BY <1>b, <3>1, <4>4, <5>2 DEF Follows, On
      <4> QED BY <4>3, <4>4
    <3> QED BY <1>d, <2>1, <2>2, <2>3, <3>2
  <2>4. CASE UNCHANGED row /\ Fault({p})
    <3>1. p \in loose' BY <2>4 DEF Fault
    <3> QED BY <1>d, <2>1, <2>2, <2>4, <3>1
  <2> QED BY <1>3, <2>0, <2>a, <2>3, <2>4 DEF Save
<1>4. CASE DeleteRow(w)
  <2>1. PICK p \in Peer : p = work[w].cur BY <1>4 DEF DeleteRow, IInv, WorkOK
  <2>2. Finish(w, p) /\ loose \subseteq loose' BY <1>4, <2>1 DEF DeleteRow, Overlap, Fault
  <2>3. /\ \A q \in Peer \ {p} : row'[q] = row[q]
        /\ row'[p] = None \/ p \in loose'
    BY <1>4, <1>a, <2>1 DEF DeleteRow, Fault
  <2>4. p \notin Linked' \ loose' BY <2>3 DEF Linked
  <2> QED BY <1>d, <2>1, <2>2, <2>3, <2>4
<1> QED BY <1>1, <1>2, <1>3, <1>4 DEF Progress

\* A handler or a timer reads a list and starts; an editor starts with one peer.
LEMMA ReadKeepsFollow ==
  ASSUME IInv, FollowInv, \/ \E t \in Topic : Handle(t)
                          \/ CheckExpired
                          \/ \E w \in Editor, p \in Peer, off \in {"no", "admin"} : UpdatePeer(w, p, off)
                          \/ \E w \in Editor, p \in Peer : DeletePeer(w, p)
  PROVE  FollowInv'
<1> USE DEF FollowInv
<1>a. /\ work \in [Worker -> Task] /\ row \in [Peer -> PeerRow \cup {None}]
      /\ Event(user) \in Worker /\ "UserEnabled" \in Worker /\ Topic \subseteq Worker
  BY TypeOKTasks, EventIsTopic DEF IInv, TypeOK, Worker, Topic
\* what is known of all peers stays when a writer that is no handler starts
<1>b. ASSUME NEW w \in {"expiry"} \cup Editor, NEW todo \in Todo, Start(w, todo),
             UNCHANGED <<user, pub, queue, row, loose>>,
             \A p \in Peer : todo[p] # None => todo[p].off \in Writes(w)
      PROVE  FollowInv'
  <2>0. w \in Worker /\ w \notin Topic BY EditorIsWorker DEF Topic
  <2>1. /\ \A v \in Worker \ {w} : work'[v] = work[v]
        /\ work'[w] = Left(todo)
    BY <1>a, <1>b, <2>0 DEF Start
  <2>2. Kinds' /\ IdleIsEmpty' BY <1>b, <2>0, <2>1, LeftIsEmpty, KindsStep
  <2>3. ASSUME Paced PROVE OneEvent' /\ Following'
    <3>1. OneEvent' BY <1>b, <2>0, <2>1, <2>3, OneEventStep
    <3>2. \A p \in Linked : Follows(p) => Follows(p)'
      <4>1. Event(user) # w /\ "UserEnabled" # w BY EventIsTopic, <2>0 DEF IInv, Topic
      <4> QED BY <1>a, <1>b, <2>1, <4>1 DEF Follows, On, Event
    <3> QED BY <1>b, <2>3, <3>1, <3>2 DEF Following, Taken, Linked
  <2> QED BY <2>2, <2>3
\* ... or when the list cannot be read
<1>c. ASSUME UNCHANGED <<user, pub, queue, row, work, loose>> PROVE FollowInv'
  BY <1>c DEF Kinds, IdleIsEmpty, Busy, OneEvent, Following, Taken, Follows, On, Linked, Event
<1>1. ASSUME NEW t \in Topic, Handle(t) PROVE FollowInv'
  <2>1. /\ UNCHANGED <<user, pub, row>> /\ queue[t] > 0
        /\ queue' = [queue EXCEPT ![t] = queue[t] - 1] /\ ~Busy(t)
    BY <1>1 DEF Handle, envVars, Start
  <2>2. Paced => /\ pub = None /\ t = Event(user) /\ queue[t] = 1
                 /\ \A x \in Topic \ {t} : queue[x] = 0 /\ ~Busy(x)
    <3>1. \A x \in Topic : queue[x] \in Nat BY DEF IInv, TypeOK
    <3>2. ASSUME OneEvent, NEW x \in Topic \ {t} PROVE queue[x] = 0 /\ ~Busy(x)
      BY <2>1, <3>1, <3>2 DEF OneEvent
    <3>3. pub # None => ~OneEvent BY <2>1, <3>1 DEF OneEvent
    <3> QED BY <2>1, <3>2, <3>3 DEF OneEvent
  <2>3. Paced => pub' = None /\ \A x \in Topic : queue'[x] = 0
    BY <2>1, <2>2 DEF IInv, TypeOK
  <2>4. CASE Start(t, Plan(t)) /\ UNCHANGED loose
    <3>1. /\ \A v \in Worker \ {t} : work'[v] = work[v]
          /\ work'[t] = Left(Plan(t))
      BY <1>a, <2>4 DEF Start
    <3>2. \A p \in Peer : Plan(t)[p] # None => Plan(t)[p].off \in Writes(t)
      BY <1>a, PlanKinds
    <3>3. Kinds' /\ IdleIsEmpty' BY <1>a, <3>1, <3>2, LeftIsEmpty, KindsStep
    <3>4. ASSUME Paced PROVE OneEvent' /\ Following'
      <4>1. OneEvent' BY <1>a, <2>1, <2>2, <2>3, <3>1, <3>4 DEF OneEvent, Busy, Event
      <4>2. ASSUME NEW p \in Linked' \ loose' PROVE Follows(p)'
        <5>1. p \in Linked BY <2>1 DEF Linked
        <5>2. work'[t].todo = Plan(t) BY <3>1, LeftIsEmpty
        <5>3. user = "enabled" => t = "UserEnabled" BY <2>2, <3>4 DEF Event
        <5>4. IF user = "enabled"
              THEN ReEnable /\ row[p].off = "user" => Plan("UserEnabled")[p] # None
              ELSE On(p) => Plan(Event(user))[p] # None
          BY <5>1, PlanIsComplete DEF IInv
        <5> QED BY <2>1, <2>2, <3>4, <5>2, <5>3, <5>4 DEF Follows, On, Event
      <4> QED BY <4>1, <4>2 DEF Following
    <3> QED BY <3>3, <3>4
  <2>5. CASE Fault(Peer) /\ UNCHANGED work
    <3>1. Kinds' /\ IdleIsEmpty' BY <2>5 DEF Kinds, IdleIsEmpty, Busy
    <3>2. Linked' \ loose' = {} BY <2>5 DEF Linked, Fault
    <3>3. Paced => OneEvent'
      BY <2>1, <2>2, <2>3, <2>5 DEF OneEvent, Busy
    <3> QED BY <3>1, <3>2, <3>3 DEF Following
  <2> QED BY <1>1, <2>4, <2>5 DEF Handle
<1>2. CASE CheckExpired
  <2>1. ExpiryPlan \in Todo /\ \A p \in Peer : ExpiryPlan[p] # None => ExpiryPlan[p].off \in Writes("expiry")
    BY <1>a, PlansAreTyped, PlanKinds
  <2>2. UNCHANGED <<user, pub, queue, row, loose>>
    BY <1>2 DEF CheckExpired, Fault, envVars
  <2>3. Start("expiry", ExpiryPlan) \/ UNCHANGED work BY <1>2 DEF CheckExpired
  <2> QED BY <1>b, <1>c, <2>1, <2>2, <2>3
<1>3. ASSUME NEW w \in Editor, NEW p \in Peer, NEW r \in PeerRow \cup {Gone}, Edit(w, p, r),
             r.off \in {"delete", "no", "admin"}
      PROVE  FollowInv'
  <2>0. Writes(w) = {"delete", "no", "admin"} BY EditorIsWorker, WorkerCases DEF Topic
  <2>1. [Nothing EXCEPT ![p] = r] \in Todo BY DEF Nothing, Todo
  <2>2. UNCHANGED <<user, pub, queue, row, loose>> BY <1>3 DEF Edit, envVars
  <2>3. \A q \in Peer : [Nothing EXCEPT ![p] = r][q] # None
                          => [Nothing EXCEPT ![p] = r][q].off \in Writes(w)
    BY <1>3, <2>0 DEF Nothing
  <2> QED BY <1>3, <1>b, <2>1, <2>2, <2>3 DEF Edit
<1>4. ASSUME NEW w \in Editor, NEW p \in Peer, NEW off \in {"no", "admin"}, UpdatePeer(w, p, off)
      PROVE  FollowInv'
  <2>1. [row[p] EXCEPT !.off = off] \in PeerRow /\ [row[p] EXCEPT !.off = off].off = off
    BY <1>4, <1>a DEF UpdatePeer, Finds, PeerRow, OffReason
  <2> QED BY <1>3, <1>4, <2>1 DEF UpdatePeer
<1>5. ASSUME NEW w \in Editor, NEW p \in Peer, DeletePeer(w, p) PROVE FollowInv'
  BY <1>3, <1>5 DEF DeletePeer, Gone
<1> QED BY <1>1, <1>2, <1>4, <1>5

\* A restart forgets the event; then everything counts as overlapped.
LEMMA RestartKeepsFollow == ASSUME IInv, FollowInv, Restart PROVE FollowInv'
<1> USE DEF FollowInv
<1>1. \A w \in Worker : work'[w] = Idle BY DEF Restart
<1>2. Kinds' /\ IdleIsEmpty' BY <1>1 DEF Kinds, IdleIsEmpty, Idle, Nothing
<1>3. OneEvent' BY <1>1 DEF Restart, OneEvent, Busy, Idle, Topic, Worker
<1>4. ASSUME Paced PROVE Following'
  <2>1. CASE EventsDone
    <3>1. Topic \subseteq Worker /\ Event(user) \in Topic /\ "UserEnabled" \in Topic
      BY EventIsTopic DEF Worker, Topic, IInv
    <3>2. \A t \in Topic : work[t].todo = Nothing BY <2>1, <3>1 DEF EventsDone, IdleIsEmpty
    <3>3. \A p \in Linked \ loose : Follows(p) BY <1>4, <2>1 DEF EventsDone, Following, Taken
    <3>4. \A p \in Linked \ loose : IF user = "enabled" THEN ~(ReEnable /\ row[p].off = "user")
                                   ELSE ~On(p)
      BY <3>1, <3>2, <3>3 DEF Follows, Nothing, Linked
    <3>5. loose \subseteq loose' /\ UNCHANGED <<user, row>> BY <2>1 DEF Restart
    <3> QED BY <3>4, <3>5 DEF Following, Follows, Linked, On
  <2>2. CASE ~EventsDone
    <3>1. loose' = Peer BY <2>2 DEF Restart
    <3> QED BY <3>1 DEF Following, Linked
  <2> QED BY <2>1, <2>2
<1> QED BY <1>2, <1>3, <1>4

LEMMA StepFollowInv == IInv /\ FollowInv /\ [Next]_vars => FollowInv'
<1> SUFFICES ASSUME IInv, FollowInv, [Next]_vars PROVE FollowInv' OBVIOUS
<1>1. ASSUME NEW w \in Worker, Progress(w) PROVE FollowInv'
  BY <1>1, ProgressKeepsFollow
<1> QED BY <1>1, FollowEnvironment, ReadKeepsFollow, RestartKeepsFollow DEF Next

\* The invariant that carries the theorem below: the one event of a paced user,
\* and what it still asks of each peer.
THEOREM FollowInvariant == Safe => []FollowInv
  BY InitFollowInv, Invariant, StepFollowInv, PTL DEF Safe

LEMMA FollowedUser == ASSUME Paced, IInv, FollowInv PROVE PeersFollowUser
<1> SUFFICES ASSUME EventsDone, NEW p \in Linked \ loose
             PROVE  IF user = "enabled" THEN ReEnable => row[p].off # "user" ELSE ~On(p)
  BY DEF PeersFollowUser
<1>1. Follows(p) BY DEF FollowInv, Following, Taken, EventsDone
<1>2. Event(user) \in Topic /\ "UserEnabled" \in Topic /\ Topic \subseteq Worker
  BY EventIsTopic DEF IInv, Topic, Worker
<1>3. \A t \in Topic : work[t].todo = Nothing
  BY <1>2 DEF EventsDone, FollowInv, IdleIsEmpty
<1> QED BY <1>1, <1>2, <1>3 DEF Follows, Nothing, Linked

\* When the events of a user are handled, its peers follow it, whoever else writes
\* them meanwhile (wireguard.go 156-274), except after an overlap of two writers or
\* a failed step; for a user that is changed again only when its events are handled.
THEOREM PeersGoWithUser == ASSUME Paced PROVE Safe => []PeersFollowUser
  BY FollowedUser, Invariant, FollowInvariant, PTL

-----------------------------------------------------------------------------
(* PART THREE: the user manager and the peer manager together.             *)

\* While a request of the owner has published nothing yet, UserPeers knows which
\* event is due; nothing else is due.
Announced ==
    /\ pub # None => \E r \in Requester : Telling(r)
    /\ \A r \in Requester : Telling(r) => EventOf(req[r]) = pub

LifecycleInv ==
    /\ AccountInv
    /\ user = Status(users[Owner])
    /\ ~ raced[Owner] => IInv /\ FollowInv /\ Announced

\* Requests that publish are left alone, and an overlap is never forgotten.
Aside ==
    /\ UNCHANGED users
    /\ \A r \in Requester :
          req[r].pos = "publish" \/ req'[r].pos = "publish" => req'[r] = req[r]
    /\ raced[Owner] => raced'[Owner]

LEMMA MovesAside ==
    ASSUME Typed, NEW r \in Requester, NEW rec, req' = [req EXCEPT ![r] = rec],
           req[r].pos # "publish", rec.pos # "publish"
    PROVE  \A s \in Requester :
              req[s].pos = "publish" \/ req'[s].pos = "publish" => req'[s] = req[s]
  BY DEF Typed

LEMMA EnterAside ==
    ASSUME Typed, NEW r \in Requester, NEW rec, Enter(r, rec), UNCHANGED users,
           req[r].pos = "idle", rec.pos # "publish"
    PROVE  Aside
  <1>1. raced[Owner] => raced'[Owner] BY OwnerAssumption DEF Enter, Typed
  <1>2. req' = [req EXCEPT ![r] = rec] BY DEF Enter
  <1> QED BY <1>1, <1>2, MovesAside DEF Aside

LEMMA BeginAside ==
    ASSUME Typed, NEW r \in Slot, NEW rec, Begin(r, rec), req[r].pos = "idle", rec.pos # "publish"
    PROVE  Aside
  BY EnterAside DEF Begin, Requester

LEMMA RequestAside ==
    ASSUME Typed, NEW r \in Slot, NEW u \in User, Request(r, u)
    PROVE  Aside
  <1>1. ASSUME NEW kind, NEW old, NEW new, req[r].pos = "idle", Begin(r, Writing(kind, u, old, new))
        PROVE  Aside
    BY <1>1, BeginAside DEF Writing
  <1>2. ASSUME NEW kind, NEW ctx, NEW new, req[r].pos = "idle", UpdateUser(r, kind, ctx, u, new)
        PROVE  Aside
    BY <1>1, <1>2 DEF UpdateUser
  <1>3. ASSUME NEW ctx, NEW new, req[r].pos = "idle", CreateUser(r, ctx, u, new)
        PROVE  Aside
    BY <1>3, BeginAside DEF CreateUser, Creating
  <1>4. ASSUME NEW kind, NEW ctx, NEW new, req[r].pos = "idle", ReadForInternal(r, kind, ctx, u, new)
        PROVE  Aside
    BY <1>4, BeginAside DEF ReadForInternal
  <1>5. ASSUME NEW token, ChangeApiToken(r, u, token) PROVE Aside
    BY <1>1, <1>5 DEF ChangeApiToken, Arrive
  <1>6. CASE HandleDelete(r, u)
    <2>1. req[r].pos = "idle" /\ Begin(r, [pos |-> "save", kind |-> "delete", u |-> u])
      BY <1>6 DEF HandleDelete, Arrive
    <2> QED BY <2>1, BeginAside
  <1>7. CASE HandleUpdatePut(r, u) \/ HandleUpdatePutV1(r, u)
    BY <1>2, <1>7 DEF HandleUpdatePut, HandleUpdatePutV1, Arrive
  <1>8. CASE HandleCreatePost(r, u)
    BY <1>3, <1>8 DEF HandleCreatePost, Arrive
  <1>9. ASSUME NEW new, BulkUpdate(r, u, new) PROVE Aside
    BY <1>2, <1>9 DEF BulkUpdate, Arrive
  <1>10. CASE HandleChangePasswordPost(r, u)
    BY <1>2, <1>10 DEF HandleChangePasswordPost, ChangePassword, Arrive
  <1>11. ASSUME NEW on, OwnerTotp(r, u, on) PROVE Aside
    BY <1>4, <1>11 DEF OwnerTotp, Arrive
  <1>12. CASE ProcessUserInfo(r, u)
    <2>1. PICK entry \in Entry :
            /\ req[r].pos = "idle"
            /\ \/ ReadForInternal(r, "external", SystemAdmin, u,
                                  ExternalUser(users[u], entry, "oauth"))
               \/ CreateUser(r, SystemAdmin, u, RegisteredUser(entry, "oauth"))
      BY <1>12 DEF ProcessUserInfo, Arrive
    <2> QED BY <1>3, <1>4, <2>1
  <1> QED BY <1>5, <1>6, <1>7, <1>8, <1>9, <1>10, <1>11, <1>12
          DEF Request, HandleBulkEnable, HandleBulkDisable, HandleBulkLock, HandleBulkUnlock,
              HandleApiEnablePost, HandleApiDisablePost

LEMMA SyncAside ==
    ASSUME Typed,
           \/ SynchronizeLdapUsers \/ UpdateSynced \/ ListMissing \/ SyncPassEnds
           \/ \E u \in User : UpdateLdapUsers(u) \/ DisableMissingLdapUsers(u) \/ DirectoryChanges(u)
    PROVE  Aside
  <1> USE SyncIsRequester
  <1>1. CASE SynchronizeLdapUsers \/ SyncPassEnds \/ \E u \in User : DirectoryChanges(u)
    BY <1>1 DEF SynchronizeLdapUsers, SyncPassEnds, DirectoryChanges, Aside
  <1>2. CASE ListMissing
    <2>1. raced[Owner] => raced'[Owner] BY <1>2, OwnerAssumption DEF ListMissing
    <2> QED BY <1>2, <2>1 DEF ListMissing, Aside
  <1>3. ASSUME NEW u \in User, DisableMissingLdapUsers(u) PROVE Aside
    <2>1. PICK rec : rec = [pos |-> "save", kind |-> "missing", u |-> u] OBVIOUS
    <2>2. /\ req[Sync].pos = "idle" /\ UNCHANGED <<users, raced>>
          /\ req' = req \/ req' = [req EXCEPT ![Sync] = rec]
      BY <1>3, <2>1 DEF DisableMissingLdapUsers
    <2>3. rec.pos # "publish" BY <2>1
    <2> QED BY <2>2, <2>3, MovesAside DEF Aside
  <1>4. ASSUME NEW u \in User, UpdateLdapUsers(u) PROVE Aside
    <2>1. req[Sync].pos = "idle" /\ UNCHANGED users BY <1>4 DEF UpdateLdapUsers
    <2>2. CASE UNCHANGED <<req, raced>> BY <2>1, <2>2 DEF Aside
    <2>3. CASE \E old : Enter(Sync, [pos |-> "reread", kind |-> "sync", u |-> u, old |-> old])
      BY <2>1, <2>3, EnterAside
    <2>4. CASE \E new : Enter(Sync, Creating(u, new))
      BY <2>1, <2>4, EnterAside DEF Creating
    <2> QED BY <1>4, <2>2, <2>3, <2>4 DEF UpdateLdapUsers
  <1>5. CASE UpdateSynced
    <2>1. /\ req[Sync].pos = "reread" /\ UNCHANGED <<users, raced>>
          /\ \/ req' = [req EXCEPT ![Sync] = NoRequest]
             \/ \E u, old, new : req' = [req EXCEPT ![Sync] = Writing("sync", u, old, new)]
      BY <1>5 DEF UpdateSynced
    <2>2. NoRequest.pos # "publish" BY DEF NoRequest
    <2>3. \A u, old, new : Writing("sync", u, old, new).pos # "publish" BY DEF Writing
    <2> QED BY <2>1, <2>2, <2>3, MovesAside DEF Aside
  <1> QED BY <1>1, <1>2, <1>3, <1>4, <1>5

LEMMA AccountStepAside == ASSUME Typed, AccountStep PROVE Aside
  <1>1. NoRequest.pos # "publish" BY DEF NoRequest
  <1>2. ASSUME NEW r \in Requester, UpdateUserInternal(r) PROVE Aside
    <2>1. /\ req[r].pos = "reread" /\ UNCHANGED <<users, raced>>
          /\ \/ req' = [req EXCEPT ![r] = NoRequest]
             \/ \E kind, u, old, new : req' = [req EXCEPT ![r] = Writing(kind, u, old, new)]
      BY <1>2 DEF UpdateUserInternal
    <2>2. \A kind, u, old, new : Writing(kind, u, old, new).pos # "publish" BY DEF Writing
    <2> QED BY <1>1, <2>1, <2>2, MovesAside DEF Aside
  <1>3. ASSUME NEW r \in Requester, SaveFails(r) PROVE Aside
    <2>1. /\ req[r].pos = "save" /\ UNCHANGED <<users, raced>>
          /\ req' = [req EXCEPT ![r] = NoRequest]
      BY <1>3 DEF SaveFails
    <2> QED BY <1>1, <2>1, MovesAside DEF Aside
  <1>4. ASSUME NEW r \in Slot, NEW u \in User, Request(r, u) PROVE Aside
    BY <1>4, RequestAside
  <1> QED BY <1>2, <1>3, <1>4, SyncAside DEF AccountStep, Requester

LEMMA TellingIsRequest ==
    ASSUME AccountInv, NEW r \in Requester, Telling(r)
    PROVE  req[r] \in Busying /\ UnderWay(r, Owner)
  <1>1. req[r].pos # "idle" BY DEF Telling
  <1> QED BY <1>1, IdleOrBusy DEF Telling, UnderWay, AccountInv

\* the owner has one request at a time
LEMMA OwnerAlone ==
    ASSUME AccountInv, ~ raced[Owner], NEW r \in Requester, UnderWay(r, Owner)
    PROVE  \A s \in Requester \ {r} : ~ UnderWay(s, Owner) /\ ~ Telling(s)
  <1>1. UserInv(Owner) BY OwnerAssumption DEF AccountInv
  <1>2. \A s \in Requester : UnderWay(s, Owner) => s = r BY <1>1 DEF UserInv, Single
  <1> QED BY <1>2, TellingIsRequest

\* the steps of the accounts that leave the peers and the rows alone
LEMMA AsideKeeps ==
    ASSUME LifecycleInv, Aside, UNCHANGED vars
    PROVE  /\ user' = Status(users[Owner])'
           /\ ~ raced'[Owner] => ~ raced[Owner] /\ Announced'
  <1>1. UNCHANGED <<user, pub, users>> BY DEF vars, Aside
  <1>2. \A r \in Requester : (Telling(r) \/ Telling(r)') => req'[r] = req[r]
    BY DEF Telling, Aside
  <1>3. \A r \in Requester : Telling(r)' <=> Telling(r) BY <1>2 DEF Telling
  <1>4. \A r \in Requester : Telling(r) => EventOf(req[r])' = EventOf(req[r])
    BY <1>2 DEF EventOf
  <1>5. Announced => Announced' BY <1>1, <1>3, <1>4 DEF Announced
  <1>6. raced[Owner] => raced'[Owner] BY DEF Aside
  <1> QED BY <1>1, <1>5, <1>6 DEF LifecycleInv, Status

LEMMA CopiesSameState ==
    \A new \in Row, old \in Row : \A with \in BOOLEAN :
        CopyCalculatedAttributes(new, old, with).disabled = new.disabled
  BY CopiesAreRows

\* what a write of the row means for the peers: the event of the request tells
\* whether the state of the user changes, and to what
LEMMA WriteAnnounced ==
    ASSUME AccountInv, ~ raced[Owner], NEW r \in Requester, req[r].pos = "save",
           req[r].u = Owner, SaveUser(r) \/ DeleteUser(r),
           req[r].kind # "create"
    PROVE  /\ Status(users[Owner]) # "deleted"
           /\ EventOf(req[r]) = IF Status(users'[Owner]) = Status(users[Owner]) THEN None
                                ELSE Event(Status(users'[Owner]))
  <1> DEFINE q == req[r]
             old == users[Owner]
             new == users'[Owner]
  <1>1. Typed /\ q \in Busying /\ q.u = Owner /\ q.pos = "save"
    BY IdleOrBusy DEF AccountInv
  <1>2. Faithful(q)
    BY OwnerAssumption DEF AccountInv, UserInv, UnderWay
  <1>3. Expected(q) /\ Sound(q) BY <1>1, <1>2 DEF Faithful
  <1>4. Exists(Owner)
    <2>1. q.kind \in UpdateKind \union {"missing", "delete"}
      BY <1>1 DEF Busying, Updating, Inserting, Marking, Rereading, SyncRereading, UpdateKind
    <2> QED BY <1>1, <1>3, <2>1 DEF Expected
  <1>5. old \in Row /\ old.exists /\ old.disabled \in BOOLEAN
    <2>1. old \in Row \union {NoRow} BY <1>1, OwnerAssumption DEF Typed
    <2>2. NoRow.exists = FALSE BY DEF NoRow
    <2> QED BY <1>4, <2>1, <2>2 DEF Exists, Row
  <1>6. CASE q.kind = "delete"
    <2>1. new = NoRow BY <1>1, <1>6, OwnerAssumption DEF DeleteUser, SaveUser, Typed
    <2>2. Status(new) = "deleted" BY <2>1 DEF Status, NoRow
    <2>3. EventOf(q) = "UserDeleted" BY <1>6 DEF EventOf
    <2>4. Status(old) # "deleted" BY <1>5 DEF Status
    <2> QED BY <2>2, <2>3, <2>4 DEF Event
  <1>7. CASE q.kind # "delete"
    <2>1. new = Saved(q)
      BY <1>1, <1>7, OwnerAssumption DEF SaveUser, DeleteUser, UpsertUser, Typed
    <2>2. new \in Row BY <1>1, <1>7, <2>1, SavedIsRow
    <2>3. new.exists /\ new.disabled \in BOOLEAN BY <2>2 DEF Row
    <2>4. Status(old) # "deleted" /\ Status(new) # "deleted" BY <1>5, <2>3 DEF Status
    <2>5. Status(new) = Status(old) <=> (new.disabled <=> old.disabled) BY <1>5, <2>3 DEF Status
    <2>6. CASE q.kind = "missing"
      <3>1. ~ old.disabled BY <1>1, <1>3, <2>6 DEF Expected
      <3>2. new.disabled
        <4>1. Told(q) = "off" BY <2>6 DEF Told
        <4> QED BY <1>3, <1>7, <2>1, <4>1 DEF Sound
      <3>3. EventOf(q) = "UserDisabled" BY <2>6 DEF EventOf
      <3>4. Status(new) = "disabled" BY <2>3, <3>2 DEF Status
      <3> QED BY <2>4, <2>5, <3>1, <3>2, <3>3, <3>4 DEF Event
    <2>7. CASE q.kind # "missing"
      <3>1. q \in Updating BY <1>1, <1>7, <2>7, RequestShape
      <3>2. q.new \in Row /\ q.old \in Row /\ q.kind \in UpdateKind BY <3>1 DEF Updating
      <3>3. q.old.disabled = old.disabled BY <1>1, <1>3, <3>2 DEF Expected
      <3>4. new.disabled = q.new.disabled
        <4>1. GetOrCreateUser(q.u) = old BY <1>1, <1>4 DEF GetOrCreateUser
        <4>2. PICK with \in BOOLEAN : with = (q.kind \in Keeping) BY BooleanValue
        <4>3. Saved(q) = CopyCalculatedAttributes(q.new, old, with)
          BY <1>7, <2>7, <4>1, <4>2 DEF Saved
        <4>4. CopyCalculatedAttributes(q.new, old, with).disabled = q.new.disabled
          BY <1>5, <3>2, <4>2, CopiesSameState
        <4> QED BY <2>1, <4>3, <4>4
      <3>5. q.old.disabled \in BOOLEAN /\ q.new.disabled \in BOOLEAN BY <3>2 DEF Row
      <3>6. EventOf(q) = IF q.old.disabled = q.new.disabled THEN None
                         ELSE IF q.new.disabled THEN "UserDisabled" ELSE "UserEnabled"
        BY <1>7, <2>7, <3>2 DEF EventOf, UpdateKind
      <3>7. Status(new) = IF new.disabled THEN "disabled" ELSE "enabled" BY <2>3 DEF Status
      <3> HIDE DEF q, old, new
      <3>8. ASSUME new.disabled <=> old.disabled
            PROVE  EventOf(q) = IF Status(new) = Status(old) THEN None ELSE Event(Status(new))
        <4>1. new.disabled = old.disabled BY <1>5, <2>3, <3>8
        <4>2. q.old.disabled = q.new.disabled BY <3>3, <3>4, <4>1
        <4>3. EventOf(q) = None BY <3>6, <4>2
        <4> QED BY <2>5, <3>8, <4>3
      <3>9. ASSUME ~ (new.disabled <=> old.disabled)
            PROVE  EventOf(q) = IF Status(new) = Status(old) THEN None ELSE Event(Status(new))
        <4>1. q.old.disabled # q.new.disabled BY <3>3, <3>4, <3>9
        <4>2. EventOf(q) = IF new.disabled THEN "UserDisabled" ELSE "UserEnabled"
          BY <3>4, <3>6, <4>1
        <4>3. ASSUME new.disabled PROVE EventOf(q) = Event(Status(new))
          BY <3>7, <4>2, <4>3 DEF Event
        <4>4. ASSUME ~ new.disabled PROVE EventOf(q) = Event(Status(new))
          BY <3>7, <4>2, <4>4 DEF Event
        <4>5. EventOf(q) = Event(Status(new)) BY <4>3, <4>4
        <4> QED BY <2>5, <3>9, <4>5
      <3> QED BY <2>4, <3>8, <3>9 DEF q, old, new
    <2> QED BY <2>6, <2>7
  <1> QED BY <1>6, <1>7

\* A write of the owner's row is a change of the user, or nothing to UserPeers.
LEMMA WriteRowKeeps ==
    ASSUME LifecycleInv, NEW r \in Requester, WriteRow(r)
    PROVE  /\ user' = Status(users[Owner])'
           /\ raced' = raced
           /\ ~ raced[Owner] => Announced' /\ [Next]_vars
  <1> DEFINE q == req[r]
  <1>1. /\ AccountInv /\ Typed /\ raced' = raced /\ q.pos = "save"
        /\ req' = [req EXCEPT ![r].pos = "publish"]
        /\ SaveUser(r) \/ DeleteUser(r)
    BY DEF WriteRow, SaveUser, DeleteUser, LifecycleInv, AccountInv
  <1>2. q \in Busying BY <1>1, IdleOrBusy
  <1>3. /\ req'[r] = [q EXCEPT !.pos = "publish"]
        /\ \A s \in Requester \ {r} : req'[s] = req[s]
    BY <1>1 DEF Typed
  <1>4. /\ \A s \in Requester \ {r} : Telling(s)' <=> Telling(s)
        /\ \A s \in Requester \ {r} : EventOf(req[s])' = EventOf(req[s])
    BY <1>3 DEF Telling, EventOf
  <1>5. ~ Telling(r) BY <1>1 DEF Telling
  <1>6. CASE q.u # Owner
    <2>1. UNCHANGED vars BY <1>6 DEF WriteRow
    <2>2. users'[Owner] = users[Owner]
      BY <1>1, <1>6, OwnerAssumption DEF SaveUser, DeleteUser, UpsertUser, Typed
    <2>3. UNCHANGED <<user, pub>> BY <2>1 DEF vars
    <2>4. req'[r].u = q.u BY <1>2, <1>3 DEF Busying, Rereading, SyncRereading, Updating, Inserting, Marking
    <2>5. ~ Telling(r)' BY <1>6, <2>4 DEF Telling
    <2>6. ~ raced[Owner] => Announced'
      BY <1>4, <1>5, <2>3, <2>5 DEF LifecycleInv, Announced
    <2> QED BY <1>1, <2>1, <2>2, <2>3, <2>6 DEF LifecycleInv
  <1>7. CASE q.u = Owner
    <2> DEFINE new == Status(users'[Owner])
    <2>1. /\ user' = new /\ pub' = EventOf(q)
          /\ user' # user => InScope
          /\ changes' = IF user' = user THEN changes ELSE changes + 1
          /\ UNCHANGED <<queue, row, devPeers, expired, work, loose, edits, faults, crashes>>
      BY <1>7 DEF WriteRow
    <2>2. SUFFICES ASSUME ~ raced[Owner] PROVE Announced' /\ [Next]_vars
      BY <1>1, <2>1
    <2>3. UnderWay(r, Owner) BY <1>1, <1>7 DEF UnderWay
    <2>4. \A s \in Requester : ~ Telling(s) BY <1>1, <1>5, <2>2, <2>3, OwnerAlone
    <2>5. pub = None BY <2>2, <2>4 DEF LifecycleInv, Announced
    <2>6. user = Status(users[Owner]) BY DEF LifecycleInv
    <2>7. Announced'
      <3>1. req'[r].pos = "publish" /\ req'[r].u = Owner /\ EventOf(req'[r]) = EventOf(q)
        <4>1. CASE q \in Updating BY <1>3, <1>7, <4>1 DEF EventOf, Updating
        <4>2. CASE q \in Inserting BY <1>3, <1>7, <4>2 DEF EventOf, Inserting
        <4>3. CASE q \in Marking BY <1>3, <1>7, <4>3 DEF EventOf, Marking
        <4> QED BY <1>1, <1>2, <4>1, <4>2, <4>3 DEF Busying, Rereading, SyncRereading
      <3>2. Telling(r)' /\ EventOf(req[r])' = pub' BY <2>1, <3>1 DEF Telling, EventOf
      <3> QED BY <1>4, <2>4, <3>2 DEF Announced
    <2>8. CASE user' = user
      <3>1. q.kind # "create"
        <4>1. UserInv(Owner) /\ Faithful(q)
          BY <1>1, <2>2, <2>3, OwnerAssumption DEF AccountInv, UserInv
        <4>2. SUFFICES ASSUME q.kind = "create" PROVE FALSE OBVIOUS
        <4>3. ~ Exists(Owner) BY <1>1, <1>7, <4>1, <4>2 DEF Faithful, Expected
        <4>4. Status(users[Owner]) = "deleted" BY <4>3 DEF Exists, Status
        <4>5. users'[Owner] = Saved(q)
          BY <1>1, <1>7, <4>2, OwnerAssumption DEF SaveUser, DeleteUser, UpsertUser, Typed
        <4>6. Saved(q) \in Row BY <1>1, <1>2, <4>2, SavedIsRow
        <4>7. Status(users'[Owner]) # "deleted" BY <4>5, <4>6 DEF Status, Row
        <4> QED BY <2>1, <2>6, <2>8, <4>4, <4>7
      <3>2. EventOf(q) = None BY <1>1, <1>7, <2>1, <2>2, <2>6, <2>8, <3>1, WriteAnnounced
      <3>3. UNCHANGED <<pub, changes>> BY <2>1, <2>5, <2>8, <3>2
      <3> QED BY <2>1, <2>7, <2>8, <3>3 DEF vars
    <2>9. CASE user' # user
      <3>1. InScope BY <2>1, <2>9
      <3>2. q.kind # "create"
        <4>1. Faithful(q) BY <1>1, <2>2, <2>3, OwnerAssumption DEF AccountInv, UserInv
        <4>2. q.kind = "create" => ~ Exists(Owner) BY <1>1, <1>7, <4>1 DEF Faithful, Expected
        <4>3. ~ Exists(Owner) => user = "deleted" BY <2>6 DEF Exists, Status
        <4> QED BY <3>1, <4>2, <4>3 DEF InScope
      <3>3. EventOf(q) = Event(new) BY <1>1, <1>7, <2>1, <2>2, <2>6, <2>9, <3>2, WriteAnnounced
      <3>4. Paced => EventsDone BY <2>5, <3>1 DEF InScope, HandlersDone, EventsDone
      <3>5. ChangeUser(new)
        BY <2>1, <2>5, <2>9, <3>1, <3>3, <3>4 DEF ChangeUser, InScope
      <3>6. new \in {"enabled", "disabled", "deleted"} BY DEF Status
      <3> QED BY <2>7, <3>5, <3>6 DEF Next
    <2> QED BY <2>8, <2>9
  <1> QED BY <1>6, <1>7

\* Publishing for the owner is what UserPeers calls Publish, or nothing to it.
LEMMA TellKeeps ==
    ASSUME LifecycleInv, NEW r \in Requester, Tell(r)
    PROVE  /\ user' = Status(users[Owner])'
           /\ raced' = raced
           /\ ~ raced[Owner] => Announced' /\ [Next]_vars
  <1>1. /\ AccountInv /\ Typed /\ UNCHANGED <<raced, users>> /\ req[r].pos = "publish"
        /\ req' = [req EXCEPT ![r] = NoRequest]
    BY DEF Tell, PublishUserEvents, LifecycleInv, AccountInv
  <1>2. /\ req'[r] = NoRequest /\ \A s \in Requester \ {r} : req'[s] = req[s]
    BY <1>1 DEF Typed
  <1>3. /\ \A s \in Requester \ {r} : Telling(s)' <=> Telling(s)
        /\ \A s \in Requester \ {r} : EventOf(req[s])' = EventOf(req[s])
    BY <1>2 DEF Telling, EventOf
  <1>4. ~ Telling(r)' BY <1>2 DEF Telling, NoRequest
  <1>5. user' = user BY DEF Tell, vars
  <1>6. user' = Status(users[Owner])' BY <1>1, <1>5 DEF LifecycleInv
  <1>7. SUFFICES ASSUME ~ raced[Owner] PROVE Announced' /\ [Next]_vars
    BY <1>1, <1>6
  <1>8. CASE req[r].u # Owner
    <2>1. UNCHANGED vars BY <1>8 DEF Tell
    <2>2. ~ Telling(r) /\ pub' = pub BY <1>8, <2>1 DEF Telling, vars
    <2> QED BY <1>3, <1>4, <1>7, <2>1, <2>2 DEF LifecycleInv, Announced
  <1>9. CASE req[r].u = Owner
    <2>1. Telling(r) /\ pub = EventOf(req[r])
      BY <1>1, <1>7, <1>9 DEF Telling, LifecycleInv, Announced
    <2>2. \A s \in Requester \ {r} : ~ Telling(s)
      BY <1>1, <1>7, <2>1, TellingIsRequest, OwnerAlone
    <2>3. \A s \in Requester : ~ Telling(s)' BY <1>3, <1>4, <2>2
    <2>4. CASE EventOf(req[r]) = None
      <3>1. UNCHANGED vars BY <2>4 DEF Tell
      <3>2. pub' = None BY <2>1, <2>4, <3>1 DEF vars
      <3> QED BY <2>3, <3>1, <3>2 DEF Announced
    <2>5. CASE EventOf(req[r]) # None
      <3>1. Publish BY <1>9, <2>1, <2>5 DEF Tell, Publish
      <3>2. pub' = None BY <3>1 DEF Publish
      <3> QED BY <2>3, <3>1, <3>2 DEF Announced, Next
    <2> QED BY <2>4, <2>5
  <1> QED BY <1>8, <1>9

LEMMA PeerStepKeeps ==
    ASSUME LifecycleInv, PeerStep
    PROVE  /\ user' = Status(users[Owner])'
           /\ raced' = raced
           /\ ~ raced[Owner] => Announced' /\ [Next]_vars
  <1>1. UNCHANGED <<users, req, raced>> BY DEF PeerStep, accounts
  <1>2. Next BY DEF PeerStep, Next
  <1>3. UNCHANGED <<user, pub>>
    BY DEF PeerStep, Expire, DeletePeer, UpdatePeer, Edit, Handle, CheckExpired,
           Progress, CheckExists, DeleteDevice, Save, DeleteRow, envVars
  <1>4. Announced => Announced' BY <1>1, <1>3 DEF Announced, Telling, EventOf
  <1> QED BY <1>1, <1>2, <1>3, <1>4 DEF LifecycleInv, Status

LEMMA PortalStopsKeeps ==
    ASSUME LifecycleInv, PortalStops
    PROVE  /\ user' = Status(users[Owner])'
           /\ raced[Owner] => raced'[Owner]
           /\ Announced' /\ Next
  <1>1. UNCHANGED <<users, user>> /\ pub' = None BY DEF PortalStops, Stops, Restart
  <1>2. \A r \in Requester : req'[r] = NoRequest BY DEF PortalStops, Stops, Requester
  <1>3. \A r \in Requester : ~ Telling(r)' BY <1>2 DEF Telling, NoRequest
  <1>4. raced[Owner] => raced'[Owner] BY OwnerAssumption DEF PortalStops, Stops
  <1>5. Next BY DEF PortalStops, Next
  <1> QED BY <1>1, <1>3, <1>4, <1>5 DEF LifecycleInv, Status, Announced

LEMMA AccountsKeep == AccountInv /\ [LifecycleNext]_lifecycle => AccountInv'
  <1> SUFFICES ASSUME AccountInv, [LifecycleNext]_lifecycle PROVE AccountInv' OBVIOUS
  <1>1. CASE AccountStep
    <2>1. AccountsNext BY <1>1 DEF AccountStep, AccountsNext, Proceed, SyncStep
    <2> QED BY <2>1, AccountsStep
  <1>2. CASE PeerStep \/ UNCHANGED lifecycle
    <2>1. UNCHANGED accounts BY <1>2 DEF PeerStep, lifecycle
    <2> QED BY <2>1, AccountsStep
  <1>3. CASE PortalStops BY <1>3, StopsKeep DEF PortalStops
  <1> QED BY <1>1, <1>2, <1>3, SaveUserKeeps, DeleteUserKeeps, PublishKeeps
          DEF LifecycleNext, WriteRow, Tell, Requester

\* every step is a step of UserPeers, or nothing to it, unless writers overlap
LEMMA LifecycleStep ==
    ASSUME LifecycleInv, [LifecycleNext]_lifecycle
    PROVE  /\ user' = Status(users[Owner])'
           /\ ~ raced'[Owner] => ~ raced[Owner] /\ Announced' /\ [Next]_vars
  <1>1. CASE UNCHANGED lifecycle
    <2>1. UNCHANGED <<vars, users, req, raced, user, pub>> BY <1>1 DEF lifecycle, vars, accounts
    <2> QED BY <2>1 DEF LifecycleInv, Announced, Telling, EventOf, Status
  <1>2. CASE AccountStep
    <2>1. Aside /\ UNCHANGED vars BY <1>2, AccountStepAside DEF AccountStep, LifecycleInv, AccountInv
    <2> QED BY <2>1, AsideKeeps
  <1> QED BY <1>1, <1>2, WriteRowKeeps, TellKeeps, PeerStepKeeps, PortalStopsKeeps
          DEF LifecycleNext, Requester

\* The invariant of both together: user and event of UserPeers are those of the
\* owner's row and of the request that has written it, as long as no two writers
\* of the row have overlapped.
THEOREM LifecycleInvariance == Lifecycle => []LifecycleInv
  <1>1. LifecycleInit => LifecycleInv
    <2> SUFFICES ASSUME LifecycleInit PROVE LifecycleInv OBVIOUS
    <2>1. AccountInv BY AccountsBegin DEF LifecycleInit
    <2>2. IInv /\ FollowInv BY InitIInv, InitFollowInv DEF LifecycleInit
    <2>3. user = Status(users[Owner]) /\ pub = None BY DEF LifecycleInit, Init
    <2>4. \A r \in Requester : ~ Telling(r)
      BY DEF LifecycleInit, AccountsInit, Telling, NoRequest, Requester
    <2> QED BY <2>1, <2>2, <2>3, <2>4 DEF LifecycleInv, Announced
  <1>2. LifecycleInv /\ [LifecycleNext]_lifecycle => LifecycleInv'
    <2> SUFFICES ASSUME LifecycleInv, [LifecycleNext]_lifecycle PROVE LifecycleInv' OBVIOUS
    <2>1. AccountInv' BY AccountsKeep DEF LifecycleInv
    <2>2. ~ raced'[Owner] => IInv' /\ FollowInv'
      BY LifecycleStep, StepIInv, StepFollowInv DEF LifecycleInv
    <2> QED BY <2>1, <2>2, LifecycleStep DEF LifecycleInv
  <1> QED BY <1>1, <1>2, PTL DEF Lifecycle

\* The user manager does what UserPeers assumes: as long as no two writers of the
\* owner's row overlap, each step is one of UserPeers or leaves its state alone; a
\* change of the row is announced by exactly one event, the right one
\* (user_manager.go 230 and 470-477, ldap_sync.go 246).
THEOREM UsersFollowPeerModel == Lifecycle => FollowsUserPeers
  <1>1. LifecycleInv /\ [LifecycleNext]_lifecycle => [raced'[Owner] \/ Next]_vars
    BY LifecycleStep
  <1> QED BY <1>1, LifecycleInvariance, PTL DEF Lifecycle, FollowsUserPeers

\* Hence a life of the user in which no two writers overlap is a behaviour of
\* UserPeers, and all that is proved of those holds of it.
THEOREM ImplementsUserPeers == Lifecycle /\ []~ raced[Owner] => Safe
  <1>1. LifecycleInit => Init BY DEF LifecycleInit
  <1>2. LifecycleInv /\ [LifecycleNext]_lifecycle /\ (~ raced[Owner])' => [Next]_vars
    BY LifecycleStep
  <1> QED BY <1>1, <1>2, LifecycleInvariance, PTL DEF Lifecycle, Safe

\* When the events are worked off and none is due, the peers are as the row of
\* their owner says, for all settings, if a user is changed again only when the
\* peers have followed the last change; except for peers where a step failed or
\* writers overlapped.
THEOREM PeersGoWithRow == ASSUME Paced PROVE Lifecycle => []PeersFollowRow
  <1>1. LifecycleInv => PeersFollowRow
    <2> SUFFICES ASSUME LifecycleInv, ~ raced[Owner], HandlersDone,
                        \A r \in Requester : ~ Telling(r)
                 PROVE  \A p \in Linked \ loose :
                          IF Status(users[Owner]) = "enabled" THEN ReEnable => row[p].off # "user"
                          ELSE ~ On(p)
      BY DEF PeersFollowRow, Requester
    <2>1. pub = None /\ user = Status(users[Owner]) BY DEF LifecycleInv, Announced
    <2>2. EventsDone BY <2>1 DEF HandlersDone, EventsDone
    <2>3. PeersFollowUser BY FollowedUser DEF LifecycleInv
    <2> QED BY <2>1, <2>2, <2>3 DEF PeersFollowUser
  <1> QED BY <1>1, LifecycleInvariance, PTL
=====
