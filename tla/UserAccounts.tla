----------------------------- MODULE UserAccounts -----------------------------
(***************************************************************************)
(* The writers of the users table: the REST handlers for users, the        *)
(* owner's second factor, external logins and the LDAP synchronisation.    *)
(* Every writer reads the row, checks the new user against what it read,   *)
(* writes the whole row in a transaction (SaveUser) and publishes what     *)
(* changed.  Reading, writing and publishing are steps of their own, since *)
(* nothing locks a user between them.                                      *)
(***************************************************************************)
EXTENDS UserRow

CONSTANTS Slot,            \* requests that run at the same time
          AutoReEnable,    \* auth.ldap.auto_re_enable
          DisableMissing,  \* auth.ldap.disable_missing
          InitialRow,      \* rows that users may have at the start
          MaxRequests,     \* bound: requests and changes of the directory
          MaxFaults        \* bound: failed transactions and connections

Sync == "sync"             \* the synchronisation is a request as well

\* passwords were stored by the code below; there is at least the empty profile
ASSUME UserAccountsAssumption ==
    /\ {AutoReEnable, DisableMissing} \subseteq BOOLEAN
    /\ MaxRequests \in Nat /\ MaxFaults \in Nat
    /\ Sync \notin Slot /\ Profile # {}
    /\ InitialRow \subseteq Row
    /\ \A row \in InitialRow :
          row.password # NoPassword => row.password.hashed /\ HasDatabaseSource(row)

Absent == [listed |-> FALSE]
Listed(entry) == [listed |-> TRUE, entry |-> entry]
NoRequest == [pos |-> "idle"]
BetweenPasses == [pos |-> "waiting", todo |-> {}]

VARIABLES
    users,      \* the table
    directory,  \* what the LDAP server answers
    req,        \* the requests, with the rows they read
    sync,       \* the pass of the synchronisation
    told,       \* the last event about the user: peers are on or off
    by,         \* who disabled the user, if he is disabled
    raced,      \* two writers of this user have overlapped
    budget, failures

accounts == <<users, directory, req, sync, told, by, raced, budget, failures>>

Exists(u) == users[u].exists

\* a writer is between its read of the row of u and its last event
BeingWritten(u) ==
    \/ \E r \in Slot \union {Sync} : req[r].pos # "idle" /\ req[r].u = u
    \/ sync.pos = "disabling" /\ u \in sync.todo

AccountsInit ==
    /\ users \in [User -> InitialRow \union {NoRow}]
    /\ directory \in [User -> {Listed(e) : e \in Entry} \union {Absent}]
    /\ req = [r \in Slot \union {Sync} |-> NoRequest]
    /\ sync = BetweenPasses
    /\ told = [u \in User |-> IF users[u].exists /\ users[u].disabled THEN "off" ELSE "on"]
    /\ by = [u \in User |-> "nobody"]
    /\ raced = [u \in User |-> FALSE]
    /\ budget = MaxRequests /\ failures = MaxFaults

---------------------------------------------------------------------------
(* internal/adapters/database.go: the transaction of SaveUser. *)

GetOrCreateUser(u) == IF Exists(u) THEN users[u] ELSE EmptyRow(CHOOSE p \in Profile : TRUE)

UpsertUser(u, row, r) ==
    /\ users' = [users EXCEPT ![u] = row]
    /\ by' = [by EXCEPT ![u] =
                IF ~ row.disabled THEN "nobody"
                ELSE IF Exists(u) /\ users[u].disabled THEN @
                ELSE IF r = Sync THEN "sync" ELSE "manual"]

---------------------------------------------------------------------------
(* Manager.update and Manager.create up to the transaction. *)

\* a request joins the writers of u
Enter(r, rec) ==
    /\ req' = [req EXCEPT ![r] = rec]
    /\ raced' = [raced EXCEPT ![rec.u] = @ \/ BeingWritten(rec.u)]

Begin(r, rec) ==
    /\ Enter(r, rec)
    /\ UNCHANGED <<users, directory, sync, told, by, failures>>

\* the call starts: one of the bounded number of requests
Arrive(r) == req[r].pos = "idle" /\ budget > 0 /\ budget' = budget - 1

Writing(kind, u, old, new) ==
    [pos |-> "save", kind |-> kind, u |-> u, old |-> old,
     new |-> IF new.password = NoPassword
             THEN [new EXCEPT !.password = old.password]
             ELSE HashPassword(new)]

Creating(u, new) ==
    [pos |-> "save", kind |-> "create", u |-> u, new |-> HashPassword(new)]

\* UpdateUser: authentications and passkeys stay those of the database, here
\* and in the transaction
Keeping == {"put", "bulk", "token", "password"}

UpdateUser(r, kind, ctx, u, new) ==
    LET row == CopyCalculatedAttributes(new, users[u], TRUE)
    IN  /\ Exists(u) /\ ValidateUserAccessRights(ctx, u)
        /\ ValidateModifications(ctx, users[u], row, u, FALSE)
        /\ Begin(r, Writing(kind, u, users[u], row))

CreateUser(r, ctx, u, new) ==
    LET row == IF new.src = {} THEN [new EXCEPT !.src = {"db"}] ELSE new
    IN  /\ ~ Exists(u)                       \* a duplicate otherwise
        /\ ValidateAdminAccessRights(ctx) /\ ValidateCreation(ctx, row)
        /\ Begin(r, Creating(u, row))

---------------------------------------------------------------------------
(* The REST handlers for users.  LoggedIn and UserIdMatch leave two kinds  *)
(* of callers: an administrator, who is no user of the model, and the user *)
(* himself.                                                                *)

Caller(u) == {AdminContext("admin"), UserContext(u)}

UserIdMatch(ctx, u) == ctx.admin \/ ctx.id = u

\* what a client makes of the form it was shown: at most one field changes
Edits(row) ==
    LET f == FormOf(row)
    IN  {f} \union {[f EXCEPT !.admin = ~ @], [f EXCEPT !.persist = ~ @],
                    [f EXCEPT !.disabled = ~ @], [f EXCEPT !.locked = ~ @]}
            \union {[f EXCEPT !.profile = p] : p \in Profile}
            \union {[f EXCEPT !.password = Plain(t)] : t \in Password}

\* the service behind PUT of v0
PutService(ctx, new, row) ==
    IF ctx.admin THEN new ELSE CopyAdminAttributes(new, row)

HandleUpdatePut(r, u) ==
    \E ctx \in Caller(u) :
        /\ Arrive(r) /\ UserIdMatch(ctx, u) /\ Exists(u)
        /\ \E form \in Edits(users[u]) :
              UpdateUser(r, "put", ctx, u, PutService(ctx, NewDomainUser(form), users[u]))

\* PUT of v1 is for administrators
HandleUpdatePutV1(r, u) ==
    /\ Arrive(r) /\ Exists(u)
    /\ \E form \in Edits(users[u]), token \in BOOLEAN :
          UpdateUser(r, "put", AdminContext("admin"), u, NewDomainUserV1(form, token))

HandleCreatePost(r, u) ==
    /\ Arrive(r)
    /\ \E p \in Profile, t \in Password :
          LET form == [FormOf(EmptyRow(p)) EXCEPT !.password = Plain(t)]
          IN  CreateUser(r, AdminContext("admin"), u, NewDomainUser(form))

HandleDelete(r, u) ==
    \E ctx \in Caller(u) :
        /\ Arrive(r) /\ UserIdMatch(ctx, u) /\ Exists(u)
        /\ ValidateDeletion(ctx, u)
        /\ Begin(r, [pos |-> "save", kind |-> "delete", u |-> u])

\* one element of a bulk request: the row as it is with one field changed
BulkUpdate(r, u, row) ==
    /\ Arrive(r) /\ Exists(u)
    /\ UpdateUser(r, "bulk", AdminContext("admin"), u, row)

\* enabling and unlocking leave the reason behind
HandleBulkEnable(r, u) == Exists(u) /\ BulkUpdate(r, u, [users[u] EXCEPT !.disabled = FALSE])
HandleBulkDisable(r, u) ==
    Exists(u) /\ BulkUpdate(r, u, [users[u] EXCEPT !.disabled = TRUE, !.reason = "admin"])
HandleBulkLock(r, u) == Exists(u) /\ BulkUpdate(r, u, [users[u] EXCEPT !.locked = TRUE])
HandleBulkUnlock(r, u) == Exists(u) /\ BulkUpdate(r, u, [users[u] EXCEPT !.locked = FALSE])

\* the token of the REST API: the user that was read is changed and passed
\* as the old user as well
ChangeApiToken(r, u, token) ==
    LET row == [users[u] EXCEPT !.token = token]
        ctx == UserContext(u)
    IN  /\ Arrive(r) /\ Exists(u)
        /\ ValidateApiChange(ctx, u)
        /\ ValidateModifications(ctx, row, row, u, TRUE)
        /\ Begin(r, Writing("token", u, row, row))

HandleApiEnablePost(r, u) == ChangeApiToken(r, u, TRUE)
HandleApiDisablePost(r, u) == ChangeApiToken(r, u, FALSE)

ChangePassword(r, ctx, u, oldText, newText) ==
    LET row == [users[u] EXCEPT !.password = Plain(newText)]
    IN  /\ Exists(u) /\ oldText # newText
        /\ HasDatabaseSource(users[u]) /\ CheckPassword(users[u], oldText)
        /\ ~ HasWeakPassword(row)
        /\ UpdateUser(r, "password", ctx, u, row)

HandleChangePasswordPost(r, u) ==
    \E ctx \in Caller(u), t1, t2 \in Password :
        Arrive(r) /\ UserIdMatch(ctx, u) /\ ChangePassword(r, ctx, u, t1, t2)

---------------------------------------------------------------------------
(* UpdateUserInternal: the second factor and external logins change a row  *)
(* they read earlier; the row it is checked against is read afterwards.    *)

ReadForInternal(r, kind, ctx, u, row) ==
    Begin(r, [pos |-> "reread", kind |-> kind, u |-> u, ctx |-> ctx, new |-> row])

UpdateUserInternal(r) ==
    LET q == req[r]
    IN  /\ r # Sync /\ q.pos = "reread"
        /\ IF Exists(q.u) /\ ValidateModifications(q.ctx, users[q.u], q.new, q.u, FALSE)
           THEN req' = [req EXCEPT ![r] = Writing(q.kind, q.u, users[q.u], q.new)]
           ELSE req' = [req EXCEPT ![r] = NoRequest]
        /\ UNCHANGED <<users, directory, sync, told, by, raced, budget, failures>>

\* the owner turns his second factor on or off
OwnerTotp(r, u, on) ==
    LET totp == IF on THEN [TotpOff EXCEPT !.on = TRUE, !.secret = 1] ELSE TotpOff
    IN  /\ Arrive(r) /\ Exists(u) /\ CanLogin(users[u])
        /\ on => CanUseTotp(users[u])
        /\ ReadForInternal(r, IF on THEN "totpOn" ELSE "totpOff", UserContext(u), u,
                           [users[u] EXCEPT !.totp = totp])

\* a login at a provider: a user that is not known yet is registered, the
\* row of a known one is brought up to date
ProcessUserInfo(r, u) ==
    \E entry \in Entry :
        /\ Arrive(r)
        /\ IF Exists(u)
           THEN /\ UpdatesExternalUser(users[u], entry, "oauth")
                /\ ReadForInternal(r, "external", SystemAdmin, u,
                                   ExternalUser(users[u], entry, "oauth"))
           ELSE CreateUser(r, SystemAdmin, u, RegisteredUser(entry, "oauth"))

---------------------------------------------------------------------------
(* The transaction and the events after it. *)

Saved(q) ==
    IF q.kind = "delete" THEN NoRow
    ELSE IF q.kind = "missing"
    THEN [GetOrCreateUser(q.u) EXCEPT !.disabled = TRUE, !.reason = "ldapMissing"]
    ELSE CopyCalculatedAttributes(q.new, GetOrCreateUser(q.u), q.kind \in Keeping)

SaveUser(r) ==
    /\ req[r].pos = "save" /\ req[r].kind # "delete"
    /\ UpsertUser(req[r].u, Saved(req[r]), r)
    /\ req' = [req EXCEPT ![r].pos = "publish"]
    /\ UNCHANGED <<directory, sync, told, raced, budget, failures>>

DeleteUser(r) ==
    /\ req[r].pos = "save" /\ req[r].kind = "delete"
    /\ users' = [users EXCEPT ![req[r].u] = NoRow]
    /\ by' = [by EXCEPT ![req[r].u] = "nobody"]
    /\ req' = [req EXCEPT ![r].pos = "publish"]
    /\ UNCHANGED <<directory, sync, told, raced, budget, failures>>

\* the transaction fails: no event; a pass of the synchronisation ends
SaveFails(r) ==
    /\ req[r].pos = "save" /\ failures > 0
    /\ failures' = failures - 1
    /\ req' = [req EXCEPT ![r] = NoRequest]
    /\ sync' = IF r = Sync THEN BetweenPasses ELSE sync
    /\ UNCHANGED <<users, directory, told, by, raced, budget>>

\* mutant: a user that is missing in the directory is disabled without an event
ToldNotMissing(q) ==
    CASE q.kind = "delete" -> "on"
      [] q.kind = "create" -> IF q.new.disabled THEN "off" ELSE "on"
      [] q.kind = "missing" \/ q.old.disabled = q.new.disabled -> told[q.u]
      [] OTHER -> IF q.new.disabled THEN "off" ELSE "on"

\* which event tells the peers something
Told(q) ==
    CASE q.kind = "delete" -> "on"
      [] q.kind = "missing" -> "off"
      [] q.kind = "create" -> IF q.new.disabled THEN "off" ELSE "on"
      [] OTHER -> IF q.old.disabled = q.new.disabled THEN told[q.u]
                  ELSE IF q.new.disabled THEN "off" ELSE "on"

PublishUserEvents(r) ==
    /\ req[r].pos = "publish"
    /\ told' = [told EXCEPT ![req[r].u] = Told(req[r])]
    /\ req' = [req EXCEPT ![r] = NoRequest]
    /\ UNCHANGED <<users, directory, sync, by, raced, budget, failures>>

---------------------------------------------------------------------------
(* internal/app/users/ldap_sync.go *)

\* connect, ask for all users; the update of known users comes first
SynchronizeLdapUsers ==
    /\ sync.pos = "waiting"
    /\ \/ sync' = [pos |-> "updating", todo |-> User, entries |-> directory]
          /\ UNCHANGED failures
       \/ failures > 0 /\ failures' = failures - 1 /\ UNCHANGED sync
    /\ UNCHANGED <<users, directory, req, told, by, raced, budget>>

\* the user the pass wants for an entry, given the row it read
LdapUser(entry, row) ==
    IF AutoReEnable /\ row.reason = "ldapMissing"
    THEN ConvertRawLdapUser(entry)
    ELSE [ConvertRawLdapUser(entry) EXCEPT !.disabled = row.disabled, !.reason = row.reason]

SyncSkips(u) ==
    \/ ~ sync.entries[u].listed
    \/ /\ Exists(u)
       /\ \/ users[u].persist
          \/ ~ UserChangedInLdap(users[u], LdapUser(sync.entries[u].entry, users[u]))

UpdateLdapUsers(u) ==
    /\ sync.pos = "updating" /\ req[Sync].pos = "idle" /\ u \in sync.todo
    /\ sync' = [sync EXCEPT !.todo = @ \ {u}]
    /\ IF SyncSkips(u) THEN UNCHANGED <<req, raced>>
       ELSE Enter(Sync,
              IF Exists(u)
              THEN [pos |-> "reread", kind |-> "sync", u |-> u, old |-> users[u]]
              ELSE Creating(u, ConvertRawLdapUser(sync.entries[u].entry)))
    /\ UNCHANGED <<users, directory, told, by, budget, failures>>

\* the row is read again and gets what was decided from the first read;
\* a refused update ends the pass
UpdateSynced ==
    LET q == req[Sync]
        ldapUser == LdapUser(sync.entries[q.u].entry, q.old)
        new == [MergeAuthSources(users[q.u], ldapUser.src) EXCEPT
                  !.profile = ldapUser.profile, !.admin = ldapUser.admin,
                  !.disabled = ldapUser.disabled, !.reason = ldapUser.reason]
    IN  /\ q.pos = "reread" /\ Exists(q.u)
        /\ IF ValidateModifications(SystemAdmin, q.old, new, q.u, FALSE)
           THEN req' = [req EXCEPT ![Sync] = Writing("sync", q.u, q.old, new)]
                /\ UNCHANGED sync
           ELSE req' = [req EXCEPT ![Sync] = NoRequest]
                /\ sync' = BetweenPasses
        /\ UNCHANGED <<users, directory, told, by, raced, budget, failures>>

\* the process ends: everything in memory is lost
Stops ==
    /\ req' = [r \in Slot \union {Sync} |-> NoRequest]
    /\ sync' = BetweenPasses
    /\ raced' = [u \in User |-> raced[u] \/ BeingWritten(u)]
    /\ UNCHANGED <<users, directory, told, by, budget, failures>>

\* the row is gone at the second read: the goroutine of the pass dereferences
\* a nil user, which ends the process
SyncPanics == req[Sync].pos = "reread" /\ ~ Exists(req[Sync].u) /\ Stops

\* all rows are read at once; then the missing users are disabled one by one
ListMissing ==
    /\ sync.pos = "updating" /\ sync.todo = {} /\ req[Sync].pos = "idle"
    /\ IF DisableMissing
       THEN sync' = [pos |-> "disabling", todo |-> User, entries |-> sync.entries, rows |-> users]
       ELSE sync' = BetweenPasses
    /\ raced' = [u \in User |-> raced[u] \/ (DisableMissing /\ BeingWritten(u))]
    /\ UNCHANGED <<users, directory, req, told, by, budget, failures>>

MissingSkips(u) ==
    LET row == sync.rows[u]
    IN  \/ ~ row.exists
        \/ "ldap" \notin row.src \/ row.disabled \/ row.persist
        \/ sync.entries[u].listed

DisableMissingLdapUsers(u) ==
    /\ sync.pos = "disabling" /\ req[Sync].pos = "idle" /\ u \in sync.todo
    /\ sync' = [sync EXCEPT !.todo = @ \ {u}]
    /\ req' = IF MissingSkips(u) THEN req
              ELSE [req EXCEPT ![Sync] = [pos |-> "save", kind |-> "missing", u |-> u]]
    /\ UNCHANGED <<users, directory, told, by, raced, budget, failures>>

SyncPassEnds ==
    /\ sync.pos = "disabling" /\ sync.todo = {} /\ req[Sync].pos = "idle"
    /\ sync' = BetweenPasses
    /\ UNCHANGED <<users, directory, req, told, by, raced, budget, failures>>

\* somebody changes the directory
DirectoryChanges(u) ==
    /\ budget > 0 /\ budget' = budget - 1
    /\ \E e \in {Listed(x) : x \in Entry} \union {Absent} :
          e # directory[u] /\ directory' = [directory EXCEPT ![u] = e]
    /\ UNCHANGED <<users, req, sync, told, by, raced, failures>>

---------------------------------------------------------------------------

Request(r, u) ==
    \/ HandleUpdatePut(r, u) \/ HandleUpdatePutV1(r, u)
    \/ HandleCreatePost(r, u) \/ HandleDelete(r, u)
    \/ HandleBulkEnable(r, u) \/ HandleBulkDisable(r, u)
    \/ HandleBulkLock(r, u) \/ HandleBulkUnlock(r, u)
    \/ HandleApiEnablePost(r, u) \/ HandleApiDisablePost(r, u)
    \/ HandleChangePasswordPost(r, u)
    \/ OwnerTotp(r, u, TRUE) \/ OwnerTotp(r, u, FALSE)
    \/ ProcessUserInfo(r, u)

Proceed(r) == UpdateUserInternal(r) \/ SaveUser(r) \/ DeleteUser(r) \/ PublishUserEvents(r)

SyncStep ==
    \/ SynchronizeLdapUsers
    \/ \E u \in User : UpdateLdapUsers(u)
    \/ UpdateSynced \/ SyncPanics
    \/ ListMissing
    \/ \E u \in User : DisableMissingLdapUsers(u)
    \/ SyncPassEnds

AccountsNext ==
    \/ \E r \in Slot, u \in User : Request(r, u)
    \/ \E r \in Slot \union {Sync} : Proceed(r) \/ SaveFails(r)
    \/ SyncStep
    \/ \E u \in User : DirectoryChanges(u)

\* a handler runs to its end, and the synchronisation runs periodically
AccountsFairness ==
    /\ \A r \in Slot \union {Sync} : WF_accounts(Proceed(r))
    /\ WF_accounts(SyncStep)

Accounts == AccountsInit /\ [][AccountsNext]_accounts /\ AccountsFairness

---------------------------------------------------------------------------
(* Properties *)

\* The events that the peer manager follows agree with the row: whenever no
\* writer of a user is under way and none has overlapped, the last event said
\* "disabled" exactly if the row does - through every sequence of edits, bulk
\* edits, deletions, new creations, failed transactions and passes of the
\* synchronisation.
EventsMatchRow ==
    \A u \in User : (Exists(u) /\ ~ raced[u] /\ ~ BeingWritten(u)) =>
        (told[u] = "off" <=> users[u].disabled)

\* A password is stored hashed, by every path that writes one, and belongs to a
\* user of the database: otherwise the check of every later update of the row
\* fails, and with it each pass of the synchronisation.
PasswordNeedsDatabaseSource ==
    \A u \in User : (Exists(u) /\ ~ raced[u] /\ users[u].password # NoPassword) =>
        users[u].password.hashed /\ HasDatabaseSource(users[u])

\* the row of u is what the directory and the settings ask for
Mirrored(u) ==
    IF directory[u].listed
    THEN /\ Exists(u)
         /\ ~ users[u].persist =>
              /\ users[u].profile = directory[u].entry.profile
              /\ users[u].admin = directory[u].entry.admin
              /\ "ldap" \in users[u].src
              /\ ~ (AutoReEnable /\ users[u].disabled /\ users[u].reason = "ldapMissing")
    ELSE (DisableMissing /\ Exists(u) /\ "ldap" \in users[u].src /\ ~ users[u].persist)
            => users[u].disabled

\* Once nobody edits users or the directory any more, the table ends up as the
\* directory says and stays so, unless two writers have overlapped: no row
\* makes the passes of the synchronisation fail forever.
LdapConverges ==
    <>[](budget = 0) =>
        <>[](\A u \in User : Mirrored(u) \/ \E v \in User : raced[v])

\* What the documentation says (docs/documentation/usage/user-sync.md:46): a
\* user that was disabled by hand is not enabled by the synchronisation, not
\* even when no two writers ever overlap.
ManuallyDisabledStay ==
    [][\A u \in User :
          (Exists(u) /\ users[u].disabled /\ by[u] = "manual" /\ ~ raced[u]
             /\ users'[u].exists /\ ~ users'[u].disabled) => req'[Sync] = req[Sync]]_accounts

\* What the comment at user_manager.go:185 says of an update: the attributes
\* that are not the client's stay the same.  The second factor of a user is
\* turned off by the request of the owner that does so, and by nothing else.
SecondFactorStays ==
    [][\A u \in User :
          (Exists(u) /\ users[u].totp.on /\ users'[u].exists /\ ~ users'[u].totp.on) =>
              \E r \in Slot : req[r].pos = "save" /\ req[r].u = u /\ req[r].kind = "totpOff"]_accounts
=============================================================================
