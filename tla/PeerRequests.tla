----------------------------- MODULE PeerRequests -----------------------------
(***************************************************************************)
(* Requests for peers: the REST handlers of v0 and v1, provisioning, and   *)
(* the event handlers that give users their default peer, down to the      *)
(* transaction that stores a peer and puts it on the device.  The checks   *)
(* a request begins with, the choice of keys and addresses, every          *)
(* transaction and every change of the device are steps of their own: the  *)
(* peer manager locks nothing but the user of a default peer.              *)
(*                                                                         *)
(* There is one server interface that hands out the addresses of one       *)
(* network and creates default peers.  Users qualify for default peers.    *)
(***************************************************************************)
EXTENDS Naturals, FiniteSets

CONSTANTS User,
          Allowed,           \* the users the LDAP filter lets use the interface
          Key,               \* public keys, the identifiers of peers
          Slot,              \* requests that run at the same time
          SelfProvisioning,  \* core.self_provisioning_allowed
          EditableKeys,      \* core.editable_keys
          Limit,             \* advanced.limit_additional_user_peers, 0 for none
          LastAddress,       \* the network is 0 .. LastAddress
          MaxRequests, MaxFaults  \* bounds

ASSUME PeerRequestsAssumption ==
    /\ Allowed \subseteq User /\ "nobody" \notin User /\ IsFiniteSet(Key)
    /\ {SelfProvisioning, EditableKeys} \subseteq BOOLEAN
    /\ {Limit, MaxRequests, MaxFaults} \subseteq Nat /\ LastAddress \in Nat \ {0}

Admin == [id |-> "admin", admin |-> TRUE]
System == [id |-> "system", admin |-> TRUE]
Caller == {Admin} \union {[id |-> u, admin |-> FALSE] : u \in User}

\* one goroutine for each subscription of the event bus
Handler == {"created", "login", "interface"}
Actor == Slot \union Handler
Idle == [pos |-> "idle"]

NoPeer == [exists |-> FALSE]
InterfaceAddress == 1

VARIABLES
    peers,      \* the table
    served,     \* the peers on the device
    op,         \* the requests, with what they read
    userLockMap,
    budget, faults,
    excused     \* overlaps in which users do get a second default peer

vars == <<peers, served, op, userLockMap, budget, faults, excused>>

Existing == {k \in Key : peers[k].exists}
UserPeers(u) == {k \in Existing : peers[k].owner = u}

Running(a) == op[a] # Idle
Crowded(a) == \E x \in Actor \ {a} : Running(x)

---------------------------------------------------------------------------
(* Addresses and keys *)

\* mutant: the addresses of disabled peers are free
UsedAddressesEnabled ==
    {n \in 0 .. LastAddress :
        n = InterfaceAddress \/ \E k \in Existing : peers[k].addr = n /\ ~ peers[k].disabled}

\* GetUsedIpsPerSubnet: addresses outside the network do not count
UsedAddresses ==
    {n \in 0 .. LastAddress : n = InterfaceAddress \/ \E k \in Existing : peers[k].addr = n}

\* getFreshPeerIpConfig: NextAddr does not stop at the end of the network
FreshAddress ==
    CHOOSE n \in 1 .. LastAddress + 1 :
        n \notin UsedAddresses /\ \A x \in 1 .. n - 1 : x \in UsedAddresses

\* a key that nobody has yet
FreshKeys == {k \in Key : /\ ~ peers[k].exists
                          /\ \A a \in Actor : Running(a) => k \notin op[a].keys}

\* a key that a client may send: nobody guesses a key that was just made
SentKeys == {k \in Key : \A a \in Actor : Running(a) => k \notin op[a].made \/ peers[k].exists}

\* PreparePeer
PreparePeer(ctx, k) ==
    [exists |-> TRUE, id |-> k, pub |-> k, private |-> TRUE, owner |-> ctx.id,
     addr |-> FreshAddress, disabled |-> FALSE, auto |-> FALSE]

\* the form a client is shown, and the peer of a request; the flag "automatically created" is lost
Shown(peer) == [peer EXCEPT !.auto = FALSE]
NewDomainPeer(form) == [form EXCEPT !.auto = FALSE]
NewDomainPeerV1(form) == [form EXCEPT !.auto = FALSE]

OverwriteUserEditableFields(peer, form) ==
    LET keyed == IF EditableKeys /\ form.private
                 THEN [peer EXCEPT !.id = form.id, !.pub = form.pub, !.private = TRUE]
                 ELSE peer
    IN  [keyed EXCEPT !.disabled = form.disabled]

---------------------------------------------------------------------------
(* Access *)

ValidateUserAccessRights(ctx, u) == ctx.admin \/ ctx.id = u
MayProvision(ctx) == ctx.admin \/ SelfProvisioning
CheckInterfaceAccess(ctx) == ctx.admin \/ ctx.id \in Allowed

\* CreatePeer counts the peers that are not disabled
BelowLimit(ctx, u) ==
    \/ ctx.admin \/ Limit = 0
    \/ Cardinality({k \in UserPeers(u) : ~ peers[k].disabled}) < 1 + Limit

---------------------------------------------------------------------------
(* The life of a request *)

Keep == UNCHANGED <<userLockMap, budget>>
KeepStored == UNCHANGED <<peers, served, faults, excused>>
Then(a, rec) == op' = [op EXCEPT ![a] = rec]

\* keys: the keys it knows; made: the key it made; chosen: the client chose the address; todo: what a list request has left; owned, count:
\* the peers of the caller and of everybody when it began
Request(kind, pos, ctx) ==
    [kind |-> kind, pos |-> pos, ctx |-> ctx, row |-> NoPeer, old |-> "none", keys |-> {}, made |-> {},
     todo |-> {}, user |-> "nobody", crowd |-> FALSE, owned |-> UserPeers(ctx.id),
     count |-> Cardinality(Existing), failed |-> FALSE, chosen |-> FALSE]

\* a request or an event arrives
Begin(a, rec) ==
    /\ op[a] = Idle /\ budget > 0 /\ budget' = budget - 1
    /\ op' = [x \in Actor |->
                IF x = a THEN [rec EXCEPT !.crowd = Crowded(a)]
                ELSE IF Running(x) THEN [op[x] EXCEPT !.crowd = TRUE] ELSE op[x]]
    /\ excused' = (excused \/ /\ a \in Handler
                              /\ \E x \in Handler \ {a} : Running(x) /\ "interface" \in {a, x})
    /\ UNCHANGED <<peers, served, faults>>

\* after a peer was stored or deleted; a handler goes on after an error too
Onward(a, ok) ==
    IF op[a].todo # {} /\ (ok \/ a \in Handler) THEN "next"
    ELSE IF ok THEN "ok" ELSE "error"

Return(a) ==
    /\ op[a].pos \in {"ok", "error"}
    /\ Then(a, Idle)
    /\ userLockMap' = userLockMap \ {op[a].user}
    /\ KeepStored /\ UNCHANGED budget

---------------------------------------------------------------------------
(* savePeers and DeletePeer *)

\* getOrCreatePeer and upsertPeer: the row becomes what the request has
Upserted(row) == [peers EXCEPT ![row.id] = row]

\* the device serves the peers that are not disabled
Served(row) == IF row.disabled THEN served \ {row.id} ELSE served \union {row.id}

\* a default peer of the user
DefaultPeerOf(k, u) == peers[k].exists /\ peers[k].owner = u /\ peers[k].auto

\* an update that something has overlapped brings back a default peer that is
\* gone, or that has become another one
Revives(a) ==
    LET row == op[a].row
    IN  /\ op[a].kind \in {"update", "bulkEnable", "bulkDisable"}
        /\ op[a].crowd /\ row.auto /\ ~ DefaultPeerOf(row.id, row.owner)

\* the transaction of SavePeer: the device is changed before the commit
SavePeer(a) ==
    LET row == op[a].row
    IN  /\ op[a].pos = "save"
        /\ \/ /\ peers' = Upserted(row) /\ served' = Served(row)
              /\ Then(a, [op[a] EXCEPT !.pos = Onward(a, TRUE)])
              /\ UNCHANGED faults
           \/ /\ faults < MaxFaults /\ faults' = faults + 1
              /\ served' \in {served, Served(row)}
              /\ Then(a, [op[a] EXCEPT !.pos = Onward(a, FALSE), !.failed = TRUE])
              /\ UNCHANGED peers
        /\ excused' = (excused \/ Revives(a))
        /\ Keep

\* DeletePeer: the device first, then the table
DeletePeer(a) ==
    /\ op[a].pos = "unlink"
    /\ \/ /\ served' = served \ {op[a].old}
          /\ Then(a, [op[a] EXCEPT !.pos = "remove"]) /\ UNCHANGED faults
       \/ /\ faults < MaxFaults /\ faults' = faults + 1
          /\ Then(a, [op[a] EXCEPT !.pos = "error", !.failed = TRUE]) /\ UNCHANGED served
    /\ UNCHANGED <<peers, excused>> /\ Keep

DeletePeerRow(a) ==
    /\ op[a].pos = "remove"
    /\ \/ /\ peers' = [peers EXCEPT ![op[a].old] = NoPeer]
          /\ Then(a, [op[a] EXCEPT !.pos = IF op[a].row = NoPeer THEN Onward(a, TRUE) ELSE "save"])
          /\ UNCHANGED faults
       \/ /\ faults < MaxFaults /\ faults' = faults + 1
          /\ Then(a, [op[a] EXCEPT !.pos = "error", !.failed = TRUE]) /\ UNCHANGED peers
    /\ UNCHANGED <<served, excused>> /\ Keep

---------------------------------------------------------------------------
(* CreatePeer *)

\* the checks of CreatePeer, before keys and addresses are chosen
CreateAllowed(ctx, form) ==
    /\ IF SelfProvisioning THEN ValidateUserAccessRights(ctx, form.owner) /\ CheckInterfaceAccess(ctx)
       ELSE ctx.admin
    /\ BelowLimit(ctx, form.owner)
    /\ ~ peers[form.id].exists

\* an administrator who sends keys gets the peer he sent, under the public key;
\* otherwise the peer is prepared again
PrepareCreated(a) ==
    LET o == op[a]
    IN  /\ o.pos = "prepare"
        /\ \/ /\ o.ctx.admin /\ o.row.private
              /\ Then(a, [o EXCEPT !.pos = "save", !.row.id = o.row.pub, !.keys = {o.row.pub}])
           \/ /\ ~ (o.ctx.admin /\ o.row.private)
              /\ \E k \in FreshKeys :
                    LET row == OverwriteUserEditableFields(PreparePeer(o.ctx, k), o.row)
                    IN  Then(a, [o EXCEPT !.pos = "save", !.row = row, !.keys = {k, row.id}, !.made = {k}])
        /\ KeepStored /\ Keep

\* a form for a new peer; of the addresses a client may choose, one is enough
Form ==
    {f \in [exists: {TRUE}, id: SentKeys, pub: SentKeys, private: BOOLEAN, owner: User,
            addr: {InterfaceAddress + 1}, disabled: {FALSE}, auto: {FALSE}] :
        f.private \/ f.id = f.pub}

\* POST of v0 is for everybody
HandleCreatePost(a) ==
    \E ctx \in Caller, form \in Form :
        /\ CreateAllowed(ctx, NewDomainPeer(form))
        /\ Begin(a, [Request("create", "prepare", ctx) EXCEPT !.row = NewDomainPeer(form),
                                              !.keys = {form.id, form.pub},
                                              !.chosen = ctx.admin /\ form.private])
        /\ UNCHANGED userLockMap

\* POST of v1 is for administrators and wants the public key as identifier
HandleCreatePostV1(a) ==
    \E form \in {f \in Form : f.id = f.pub} :
        /\ CreateAllowed(Admin, NewDomainPeerV1(form))
        /\ Begin(a, [Request("create", "prepare", Admin) EXCEPT !.row = NewDomainPeerV1(form),
                                                !.keys = {form.id}, !.chosen = form.private])
        /\ UNCHANGED userLockMap

\* provisioning prepares a peer itself; it may be given a public key
NewPeer(a, ctx, owner) ==
    \E k \in FreshKeys, given \in {TRUE, FALSE} :
        LET form == [PreparePeer(ctx, k) EXCEPT !.owner = owner, !.private = ~ given]
        IN  /\ ValidateUserAccessRights(ctx, owner) /\ MayProvision(ctx) /\ CheckInterfaceAccess(ctx)
            /\ CreateAllowed(ctx, form)
            /\ Begin(a, [Request("create", "prepare", ctx) EXCEPT !.row = form, !.keys = {k},
                                                              !.made = IF given THEN {} ELSE {k}])
            /\ UNCHANGED userLockMap

HandleNewPeerPost(a) == \E ctx \in Caller, owner \in User : NewPeer(a, ctx, owner)

\* CreateMultiplePeers
HandleCreateMultiplePost(a) ==
    /\ Begin(a, [Request("multiple", "next", Admin) EXCEPT !.todo = User])
    /\ UNCHANGED userLockMap

CreateNext(a) ==
    \E u \in op[a].todo, k \in FreshKeys :
        /\ op[a].kind = "multiple" /\ op[a].pos = "next"
        /\ Then(a, [op[a] EXCEPT !.pos = "save", !.todo = @ \ {u}, !.keys = {k}, !.made = {k},
                                 !.row = [PreparePeer(Admin, k) EXCEPT !.owner = u]])
        /\ KeepStored /\ Keep

---------------------------------------------------------------------------
(* UpdatePeer *)

\* mutant: the owner that counts is the one in the request
UpdateAllowedBySent(ctx, form) ==
    /\ peers[form.id].exists
    /\ ValidateUserAccessRights(ctx, form.owner) /\ CheckInterfaceAccess(ctx) /\ MayProvision(ctx)

UpdateAllowed(ctx, form) ==
    /\ peers[form.id].exists
    /\ ValidateUserAccessRights(ctx, peers[form.id].owner) /\ CheckInterfaceAccess(ctx)
    /\ MayProvision(ctx)

\* mutant: nobody looks for a peer with the new key
KeyIsFreeAlways(new, old) == TRUE

\* a new public key means a new peer, unless somebody has that key
KeyIsFree(new, old) == new = old \/ ~ peers[new].exists

\* what a client makes of the peer it was shown; changing keys takes both
Edits(k) ==
    LET f == Shown(peers[k])
    IN  {[f EXCEPT !.owner = e[1], !.disabled = e[2]] : e \in User \X BOOLEAN}
        \union {[f EXCEPT !.pub = p, !.private = TRUE] : p \in SentKeys}

\* a request o goes on with the peer it wants to store
UpdatePeer(o, form) ==
    LET k == form.id
        new == IF o.ctx.admin THEN form ELSE OverwriteUserEditableFields(peers[k], form)
    IN  IF ~ UpdateAllowed(o.ctx, form) \/ ~ KeyIsFree(new.pub, k) THEN [o EXCEPT !.pos = "error"]
        ELSE [o EXCEPT !.pos = IF new.pub # k THEN "reread" ELSE "save",
                       !.old = k, !.row = [new EXCEPT !.id = new.pub], !.keys = {k, new.pub}]

HandleUpdatePut(a) ==
    \E ctx \in Caller, k \in Existing : \E form \in Edits(k) :
        LET rec == UpdatePeer(Request("update", "read", ctx), NewDomainPeer(form))
        IN  rec.pos # "error" /\ Begin(a, rec) /\ UNCHANGED userLockMap

\* PUT of v1: for administrators, and whatever the identifier in the path is
HandleUpdatePutV1(a) ==
    \E k \in Existing : \E form \in Edits(k) :
        LET rec == UpdatePeer(Request("update", "read", Admin), NewDomainPeerV1(form))
        IN  rec.pos # "error" /\ Begin(a, rec) /\ UNCHANGED userLockMap

\* BulkUpdate goes through a list of peers the client has seen and stops at the first error
HandleBulkPost(a, kind) ==
    \E ctx \in Caller, ks \in SUBSET Existing :
        /\ ks # {} /\ Begin(a, [Request(kind, "next", ctx) EXCEPT !.todo = ks, !.keys = ks])
        /\ UNCHANGED userLockMap

HandleBulkEnable(a) == HandleBulkPost(a, "bulkEnable")
HandleBulkDisable(a) == HandleBulkPost(a, "bulkDisable")
HandleBulkDelete(a) == HandleBulkPost(a, "bulkDelete")

BulkNext(a) ==
    \E k \in op[a].todo :
        LET o == [op[a] EXCEPT !.todo = @ \ {k}]
            row == [peers[k] EXCEPT !.disabled = (op[a].kind = "bulkDisable")]
        IN  /\ op[a].kind \in {"bulkEnable", "bulkDisable"} /\ op[a].pos = "next"
            /\ Then(a, IF peers[k].exists /\ ValidateUserAccessRights(o.ctx, peers[k].owner)
                       THEN UpdatePeer(o, row) ELSE [o EXCEPT !.pos = "error"])
            /\ KeepStored /\ Keep

---------------------------------------------------------------------------
(* Deleting *)

DeleteAllowed(ctx, k) ==
    /\ peers[k].exists /\ ValidateUserAccessRights(ctx, peers[k].owner)
    /\ CheckInterfaceAccess(ctx) /\ MayProvision(ctx)

DeleteFor(a, ctx) ==
    \E k \in Key :
        /\ DeleteAllowed(ctx, k)
        /\ Begin(a, [Request("delete", "unlink", ctx) EXCEPT !.old = k, !.keys = {k}])
        /\ UNCHANGED userLockMap

HandleDelete(a) == \E ctx \in Caller : DeleteFor(a, ctx)
HandleDeleteV1(a) == DeleteFor(a, Admin)

BulkDelete(a) ==
    \E k \in op[a].todo :
        LET o == [op[a] EXCEPT !.todo = @ \ {k}]
        IN  /\ op[a].kind = "bulkDelete" /\ op[a].pos = "next"
            /\ Then(a, IF DeleteAllowed(o.ctx, k) THEN [o EXCEPT !.pos = "unlink", !.old = k]
                       ELSE [o EXCEPT !.pos = "error"])
            /\ KeepStored /\ Keep

\* the deletion inside an update of the key reads the peer once more
RereadOld(a) ==
    /\ op[a].pos = "reread"
    /\ Then(a, [op[a] EXCEPT !.pos = IF DeleteAllowed(op[a].ctx, op[a].old) THEN "unlink" ELSE "error"])
    /\ KeepStored /\ Keep

---------------------------------------------------------------------------
(* Default peers.  An event for a user whose lock is taken is dropped.     *)

\* mutant: the handlers of one user do not exclude each other
LockUserNever(a, u, rec) == Begin(a, rec) /\ UNCHANGED userLockMap

LockUser(a, u, rec) ==
    /\ u \notin userLockMap /\ userLockMap' = userLockMap \union {u}
    /\ Begin(a, rec)

DefaultForAll == [Request("default", "next", System) EXCEPT !.todo = User]
DefaultFor(u) == [Request("default", "next", System) EXCEPT !.todo = {u}, !.user = u]

HandleUserCreationEvent(u) == LockUser("created", u, DefaultFor(u))

HandleUserLoginEvent(u) == UserPeers(u) = {} /\ LockUser("login", u, DefaultFor(u))

\* one handler serves all events for interfaces, so its lock is always free
HandleInterfaceCreatedEvent ==
    /\ Begin("interface", DefaultForAll)
    /\ UNCHANGED userLockMap

\* prepareDefaultPeer; a peer of the user, whatever its origin, is enough
PrepareDefaultPeer(a) ==
    \E u \in op[a].todo :
        LET o == [op[a] EXCEPT !.todo = @ \ {u}]
        IN  /\ op[a].kind = "default" /\ op[a].pos = "next"
            /\ \/ UserPeers(u) # {} /\ Then(a, [o EXCEPT !.pos = IF o.todo = {} THEN "ok" ELSE "next"])
               \/ /\ UserPeers(u) = {}
                  /\ \E k \in FreshKeys :
                        Then(a, [o EXCEPT !.pos = "save", !.keys = {k}, !.made = {k},
                                         !.row = [PreparePeer(System, k) EXCEPT !.owner = u, !.auto = TRUE]])
            /\ KeepStored /\ Keep

---------------------------------------------------------------------------

\* nobody, or one user, has a peer
Init ==
    /\ \E ks \in SUBSET Key, u \in User, auto \in BOOLEAN :
          /\ Cardinality(ks) <= 1
          /\ peers = [k \in Key |->
                IF k \in ks THEN [exists |-> TRUE, id |-> k, pub |-> k, private |-> TRUE, owner |-> u,
                                 addr |-> InterfaceAddress + 1, disabled |-> FALSE, auto |-> auto]
                ELSE NoPeer]
          /\ served = ks
    /\ op = [a \in Actor |-> Idle]
    /\ userLockMap = {} /\ budget = MaxRequests /\ faults = 0 /\ excused = FALSE

Begins(a) ==
    \/ HandleCreatePost(a) \/ HandleCreatePostV1(a) \/ HandleNewPeerPost(a) \/ HandleCreateMultiplePost(a)
    \/ HandleUpdatePut(a) \/ HandleUpdatePutV1(a) \/ HandleDelete(a) \/ HandleDeleteV1(a)
    \/ HandleBulkEnable(a) \/ HandleBulkDisable(a) \/ HandleBulkDelete(a)

GoesOn(a) ==
    \/ PrepareCreated(a) \/ CreateNext(a) \/ BulkNext(a) \/ BulkDelete(a) \/ PrepareDefaultPeer(a)
    \/ RereadOld(a) \/ DeletePeer(a) \/ DeletePeerRow(a) \/ SavePeer(a) \/ Return(a)

Next ==
    \/ \E a \in Slot : Begins(a)
    \/ \E u \in User : HandleUserCreationEvent(u) \/ HandleUserLoginEvent(u)
    \/ HandleInterfaceCreatedEvent
    \/ \E a \in Actor : Running(a) /\ GoesOn(a)

Spec == Init /\ [][Next]_vars

---------------------------------------------------------------------------
(* Properties *)

\* However the events of users and interfaces are handled, a user gets one
\* default peer for an interface.  The locks are taken by user and by
\* interface, so the handler for new interfaces is excepted while it overlaps
\* with the others, and so are updates that bring back a default peer that has
\* been deleted, or given to another user, since they read it.
OneDefaultPeer ==
    ~ excused => \A u \in User : Cardinality({k \in UserPeers(u) : peers[k].auto}) <= 1

\* A request that no other one has overlapped gives a new peer an address that
\* nobody has, whichever of the ways to create a peer it takes, if the
\* network has one left and the client does not choose it.
Stores(a) == op[a].pos = "save" /\ op'[a] # op[a] /\ peers' # peers
AddressesUnique ==
    [][\A a \in Actor :
          Stores(a) /\ op[a].kind \in {"create", "multiple", "default"} /\ ~ op[a].crowd /\ ~ op[a].chosen
          => \A k \in Existing : peers[k].addr = op[a].row.addr => peers[k].addr > LastAddress]_vars

\* A user who is no administrator changes his own peers only, and neither
\* owner nor address of those; what he creates is his.
OwnersOnly ==
    [][\A a \in Slot :
          (op[a] # Idle /\ op'[a] # op[a] /\ ~ op[a].ctx.admin /\ ~ op[a].crowd) =>
            \A k \in Key : peers'[k] # peers[k] =>
               IF peers[k].exists
               THEN /\ k \in op[a].owned
                    /\ peers'[k].exists => /\ peers'[k].owner = peers[k].owner
                                           /\ peers'[k].addr = peers[k].addr
               ELSE peers'[k].owner = op[a].ctx.id]_vars

\* A request that ends, and that neither a failure nor another request has
\* disturbed, leaves as many peers as it should, although a new key for a peer
\* is a deletion and a creation, and the device serves the enabled ones.
RequestsComplete ==
    \A a \in Slot :
        (op[a].pos \in {"ok", "error"} /\ ~ op[a].crowd /\ ~ op[a].failed) =>
          /\ op[a].kind \in {"update", "bulkEnable", "bulkDisable"} => Cardinality(Existing) = op[a].count
          /\ op[a].kind = "update" => op[a].pos = "ok" /\ peers[op[a].row.id] = op[a].row
          /\ op[a].kind = "delete" => Cardinality(Existing) = op[a].count - 1 /\ ~ peers[op[a].old].exists
          /\ (faults = 0 /\ op[a].kind \in {"update", "delete"}) =>
               \A k \in op[a].keys : (k \in served) = (peers[k].exists /\ ~ peers[k].disabled)

=============================================================================
