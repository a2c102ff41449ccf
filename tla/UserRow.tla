------------------------------- MODULE UserRow -------------------------------
(***************************************************************************)
(* The row of a user (internal/domain/user.go), the rules that every write *)
(* of a row has to pass (internal/app/users/user_manager.go), and what the *)
(* REST models, the LDAP synchronisation and an external login make of a   *)
(* row.  Names, mail address, phone number and department are one value,   *)
(* the profile of the user; a timestamp is whether it is set; the notes    *)
(* and the reason of a lock, which nothing depends on, are left out.       *)
(***************************************************************************)
EXTENDS Naturals, FiniteSets

CONSTANTS User,          \* the user identifiers, none of them is reserved
          Profile,       \* contents of the descriptive fields
          Password,      \* passwords that occur
          WeakPassword,  \* those shorter than auth.min_password_length
          ApiAdminOnly   \* advanced.api_admin_only

ASSUME UserRowAssumption ==
    /\ WeakPassword \subseteq Password
    /\ ApiAdminOnly \in BOOLEAN

Source == {"db", "ldap", "oauth"}
Reason == {"", "ldapMissing", "admin", "api"}

NoRow == [exists |-> FALSE]
Plain(text) == [text |-> text, hashed |-> FALSE]  \* as a client sends it
NoPassword == Plain("")
TotpOff == [on |-> FALSE, secret |-> 0, codes |-> {}, step |-> 0]

\* the row that getOrCreateUser makes when there is none, and the zero value
\* of the fields that a model does not fill
EmptyRow(profile) ==
    [exists |-> TRUE, admin |-> FALSE, src |-> {}, persist |-> FALSE,
     disabled |-> FALSE, reason |-> "", locked |-> FALSE, profile |-> profile,
     password |-> NoPassword, token |-> FALSE, totp |-> TotpOff, keys |-> {}]

\* the table's rows: the User of internal/domain/user.go
Totp == [on: BOOLEAN, secret: Nat, codes: SUBSET Nat, step: Nat]
Row ==
    [exists: {TRUE}, admin: BOOLEAN, src: SUBSET Source, persist: BOOLEAN, disabled: BOOLEAN,
     reason: Reason, locked: BOOLEAN, profile: Profile,
     password: [text: Password \union {""}, hashed: BOOLEAN], token: BOOLEAN, totp: Totp,
     keys: SUBSET {"handle", "key"}]

---------------------------------------------------------------------------
(* The identities a call runs under (internal/domain/context.go). *)

SystemAdmin == [id |-> "system admin", admin |-> TRUE]
AdminContext(id) == [id |-> id, admin |-> TRUE]
UserContext(id) == [id |-> id, admin |-> FALSE]

ValidateUserAccessRights(ctx, u) == ctx.admin \/ ctx.id = u
ValidateAdminAccessRights(ctx) == ctx.admin

---------------------------------------------------------------------------
(* internal/domain/user.go *)

HasDatabaseSource(row) == "db" \in row.src
CanUseTotp(row) == HasDatabaseSource(row)
CanChangePassword(row) == "db" \in row.src
HasWeakPassword(row) ==
    /\ "db" \in row.src
    /\ row.password.text \in WeakPassword
    /\ ~ row.password.hashed              \* a hash is always long enough

CanLogin(row) == ~ row.disabled /\ ~ row.locked
CreateDefaultPeers(row) == ~ row.disabled /\ ~ row.locked

\* rows of users that exist in the database only can be edited freely
EditAllowed(old, new) ==
    \/ old.src = {"db"}
    \/ new.persist
    \/ old.admin = new.admin /\ old.profile = new.profile

CheckPassword(row, text) ==
    /\ "db" \in row.src
    /\ ~ row.disabled
    /\ row.password = [text |-> text, hashed |-> TRUE]

\* a password that is already hashed stays as it is
HashPassword(row) ==
    IF row.password = NoPassword THEN row ELSE [row EXCEPT !.password.hashed = TRUE]

\* what a writer takes over from the row in the database
CopyCalculatedAttributes(row, db, withAuthentications) ==
    IF withAuthentications
    THEN [row EXCEPT !.src = db.src, !.keys = db.keys]
    ELSE row

\* what a user that is no administrator cannot change of his own row
CopyAdminAttributes(row, db) ==
    [row EXCEPT !.admin = db.admin, !.src = db.src, !.persist = db.persist,
                !.disabled = db.disabled, !.reason = db.reason,
                !.locked = db.locked, !.profile = db.profile,
                !.token = IF ApiAdminOnly THEN db.token ELSE @]

MergeAuthSources(row, src) == [row EXCEPT !.src = @ \union src]

---------------------------------------------------------------------------
(* internal/app/users/user_manager.go.  "same" holds for the calls that    *)
(* pass one object as the old and the new user: the comparison of the      *)
(* timestamps is a comparison of pointers.                                 *)

ValidateAdminModifications(ctx, old, new, u, same) ==
    IF ctx.admin
    THEN ~ (ctx.id = u /\ ~ new.admin)
    ELSE /\ ctx.id = u
         /\ ~ new.admin
         /\ same \/ (~ old.locked /\ ~ new.locked)
         /\ same \/ (~ old.disabled /\ ~ new.disabled /\ old.reason = new.reason)
         /\ old.persist = new.persist

\* mutant: a user of a directory gets a password as well
ValidateModificationsAnySource(ctx, old, new, u, same) ==
    /\ ValidateAdminModifications(ctx, old, new, u, same)
    /\ EditAllowed(old, new) \/ ctx = SystemAdmin
    /\ ~ HasWeakPassword(new)
    /\ ctx.id = u => /\ old.admin => new.admin
                     /\ ~ new.disabled /\ ~ new.locked

\* mutant: the restriction of edits holds for the synchronisation as well
ValidateModificationsAnyCaller(ctx, old, new, u, same) ==
    /\ ValidateAdminModifications(ctx, old, new, u, same)
    /\ EditAllowed(old, new)
    /\ CanChangePassword(old) \/ new.password = NoPassword
    /\ ~ HasWeakPassword(new)
    /\ ctx.id = u => /\ old.admin => new.admin
                     /\ ~ new.disabled /\ ~ new.locked

ValidateModifications(ctx, old, new, u, same) ==
    /\ ValidateAdminModifications(ctx, old, new, u, same)
    /\ EditAllowed(old, new) \/ ctx = SystemAdmin
    /\ CanChangePassword(old) \/ new.password = NoPassword
    /\ ~ HasWeakPassword(new)
    /\ ctx.id = u => /\ old.admin => new.admin
                     /\ ~ new.disabled
                     /\ ~ new.locked

ValidateCreation(ctx, new) ==
    /\ ctx.admin
    /\ Cardinality(new.src) = 1
    /\ new.src = {"db"} => new.password # NoPassword
    /\ ~ HasWeakPassword(new)

ValidateDeletion(ctx, u) == ctx.admin /\ ctx.id # u

ValidateApiChange(ctx, u) == (ctx.admin \/ ~ ApiAdminOnly) /\ ctx.id = u

---------------------------------------------------------------------------
(* The REST models.  A form carries the fields that a client can send.     *)

Form == [admin: BOOLEAN, persist: BOOLEAN, disabled: BOOLEAN, reason: Reason,
         locked: BOOLEAN, profile: Profile,
         password: {Plain(t) : t \in Password \union {""}}]

\* the form that shows a row unchanged: passwords are never sent to a client
FormOf(row) ==
    [admin |-> row.admin, persist |-> row.persist, disabled |-> row.disabled,
     reason |-> row.reason, locked |-> row.locked, profile |-> row.profile,
     password |-> NoPassword]

\* api/v0/model: a disabled user without a reason gets one
NewDomainUser(form) ==
    [EmptyRow(form.profile) EXCEPT
        !.admin = form.admin, !.persist = form.persist,
        !.disabled = form.disabled, !.locked = form.locked,
        !.password = form.password,
        !.reason = IF form.disabled /\ form.reason = "" THEN "admin" ELSE form.reason]

\* api/v1/models: the form may carry a token and knows nothing of local changes
NewDomainUserV1(form, token) ==
    [EmptyRow(form.profile) EXCEPT
        !.admin = form.admin,
        !.disabled = form.disabled, !.locked = form.locked,
        !.password = form.password, !.token = token,
        !.reason = IF form.disabled /\ form.reason = "" THEN "api" ELSE form.reason]

---------------------------------------------------------------------------
(* Users that are known to a directory or to an OAuth provider.  An entry  *)
(* is the profile and the membership in the group of administrators.       *)

Entry == [profile: Profile, admin: BOOLEAN]

ConvertRawLdapUser(entry) ==
    [EmptyRow(entry.profile) EXCEPT !.admin = entry.admin, !.src = {"ldap"}]

UserChangedInLdap(row, ldapUser) ==
    \/ row.profile # ldapUser.profile
    \/ row.disabled # ldapUser.disabled
    \/ row.admin # ldapUser.admin
    \/ "ldap" \notin row.src

\* the user that registerNewUser makes of the answer of a provider
RegisteredUser(entry, source) ==
    [EmptyRow(entry.profile) EXCEPT !.admin = entry.admin, !.src = {source}]

\* updateExternalUser: the row it wants to write ...
ExternalUser(row, entry, source) ==
    IF row.persist
    THEN [row EXCEPT !.src = @ \union {source}]
    ELSE [row EXCEPT !.src = @ \union {source}, !.profile = entry.profile,
                     !.admin = entry.admin]

\* ... and whether it writes it
UpdatesExternalUser(row, entry, source) ==
    CanLogin(row) /\ ExternalUser(row, entry, source) # row
=============================================================================
