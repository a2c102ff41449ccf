# A verification project for awg-portal

awg-portal manages WireGuard and AmneziaWG interfaces: a database holds users,
interfaces and peers, and a set of managers keep the devices of the host (or of
a remote router) in line with it. This directory holds TLA+ modules that model
the parts of the program where that is hard, the TLC configurations that check
them on small instances, and proofs of theorems about them for every instance.

The reference is the Go source under `src/`; paths below are relative to
`src/internal/` unless they start with `src/`.

## 1. Inventory

| Part | State it keeps | Operations | Interacts with | What is hard |
|---|---|---|---|---|
| process manager (`lowlevel/awg.go`) | `procs`: device -> entry (`cmd`, `done`, `stopping`), sockets on disk | Start, Stop, StopAll, watchdog, IsRunning | called by the local controller and by `main` at shutdown | concurrent callers, processes that die at any moment, waits without timeout |
| UAPI protocol (`lowlevel/awg.go`, `domain/interface.go`) | none | Validate, GenerateAWGParams, SetAWGPeer, parsing | amneziawg-go's socket | algorithms over text and random numbers |
| local controller (`adapters/wgcontroller/local.go`) | the devices and their peers (kernel, or amneziawg-go) | Save/DeleteInterface, Save/DeletePeer, Set/RemoveRoutes, DNS, hooks | process manager, netlink, wgctrl | many calls that can each fail, two drivers, stale sockets |
| interface manager (`app/wireguard/wireguard_interfaces.go`) | interface and peer rows | Create, Update, Delete, Restore, Import, Prepare | controllers, repository, bus | device and row are changed one after the other; compensation; crashes |
| peer manager (`app/wireguard/wireguard_peers.go`) | peer rows | Prepare, Create (with a limit), CreateMultiple, Update (with a new key), Delete, default peers | REST handlers, controllers, repository, bus | check-then-act, whole rows written from stale reads, keys and addresses chosen before the save |
| user events and expiry (`app/wireguard/wireguard.go`) | `userLockMap`, `interfaceLockMap` | five user handlers, one interface handler, a timer | bus, peer manager | topics are not ordered among each other, queued events are lost at a restart |
| user manager (`app/users/user_manager.go`) | user rows | Create, Update, UpdateInternal, Delete, Register, bulk edits, API tokens | REST handlers, authentication, repository, bus | read, check, write the whole row, publish: nothing locks a user between these; rows change between database, directory and OAuth sources |
| LDAP sync (`app/users/ldap_sync.go`) | user rows | sync per provider: create, update, disable missing | directory, user manager | long read-compare-write loops beside interactive edits |
| event bus (`main.go`, `app/eventbus.go`, external library) | one queue of 100 per subscription | Publish, Subscribe, Unsubscribe | everybody | Publish blocks on a full queue while it holds the bus's lock |
| repository (`adapters/database.go`) | SQL database | Save*/Delete* in a transaction, status rows | managers | one connection with SQLite; a save recreates a row that is gone |
| route manager (`app/route/routes.go`) | routes and rules of the host, both families | RouteUpdate, RouteRemove, restore | bus, local controller | events applied late or out of order; what was set depends on a mark and a table that change |
| configuration files (`app/configfile/manager.go`) | files | persist, unpersist on events | bus, file system | a late write after the deletion |
| statistics (`app/wireguard/statistics.go`) | status rows | collect interfaces, peers, pings | controllers, repository, bus, webhook | counters that restart, two writers of a row, events published inside and after a transaction |
| authentication (`app/auth`, `app/api/v0/handlers/endpoint_authentication.go`) | session, TOTP attempts, steps and codes used | login, second factor, enrolment, logout, OAuth callbacks, passkeys | user manager | the session between two factors, attempts in parallel, sessions and rows written back late |
| websocket (`endpoint_websocket.go`) | a subscription per client | subscribe, push, unsubscribe | bus | a client that does not read |
| remote controllers (`mikrotik.go`, `pfsense.go`) | remote devices, mutexes per interface and peer | as the local controller, over HTTP | routers | several requests per operation, any of which fails or loses its answer |
| REST API, audit, webhooks, mail, migration, configuration, frontend | requests, rows, mails | - | - | little of their own |

### What makes each part correct

* process manager: never two processes for one device, never a process that
  nobody tracks, never a dead entry that blocks a device, every call returns.
* interface manager: after every operation, whatever failed on the way, device
  and row agree on existence, state, driver, peers and parameters, or the
  operation reports what it could not repair; a restart heals the rest; hooks
  run exactly when the state changes.
* peer manager and user events: peers follow their user and their expiry date;
  what an admin switched off is switched on by a request of an admin or of a
  self-provisioning owner only, never by a handler or a timer; the device serves
  enabled peers only.
* event bus: no event is lost or sent to a subscription that is gone, and
  whoever publishes, subscribes or leaves is served at last.
* user manager and LDAP sync: whatever sequence of edits, logins and passes, the
  last event said of a user agrees with the row, no row makes every later pass
  fail, and the table ends up as the directory says.
* requests for peers: a user gets one default peer, changes his own peers only,
  a new peer has an address nobody has, and a request that is not disturbed
  leaves as many peers as it should.
* routes and files: when every event has been handled, routes, rules and file
  are those of the row, whatever earlier changes left behind half way.
* statistics: no session without a handshake; who is told of connections knows
  the state when nothing is on the way.
* authentication: nobody is logged in without the factors his row asks for; a
  code is good once; attempts are bounded although they run in parallel.
* remote controllers: an operation that reports success is done, and what is
  not the portal's stays.

`PROJECT.json` lists every part under `components`, and under `hazards` what in
this code is hard to reach by a test, each at its line, with the properties
that would catch it.

## 2. Modules

| Module | Models | Role |
|---|---|---|
| `AwgSlot` | what the process manager promises for a device | abstract specification |
| `AwgProcess` | `lowlevel/awg.go` and the stale-socket recovery of `local.go` | detailed specification |
| `AwgProcessProofs` | | invariant and refinement, proved |
| `MCAwgProcess` | | model checking |
| `InterfaceSave` | `saveInterface`, `rollbackPhysicalInterface`, `DeleteInterface`, `RestoreInterfaceState`, the local controller's device, concurrent edits of peers | specification |
| `InterfaceSaveProofs` | | invariant, proved |
| `MCInterfaceSave` | | model checking (symmetry, view, constraint) |
| `UserPeers` | the user events, the expiry check, the admin and the owner as concurrent writers of one user's peers | specification |
| `MCUserPeers` | | model checking |
| `EventBus` | the lock and the queues of the bus, and who publishes, handles, subscribes and holds database connections around it | specification |
| `MCEventBus` | | model checking |
| `UserRow` | a user's row: who may change what (`domain/user.go`, the checks of `user_manager.go`) | operators, used by the next two |
| `UserAccounts` | the writers of the users table: REST handlers, external logins, LDAP sync | specification |
| `UserLifecycle` | the row of a peers' owner, its writers and the peer manager together | composition of `UserAccounts` and `UserPeers` |
| `UserLifecycleProofs` | | invariants of `UserAccounts`, of `UserPeers` and of both together, proved |
| `WebLogin` | sessions, first and second factors, the limit of attempts | specification |
| `WebLoginProofs` | | invariant, proved |
| `PeerRequests` | requests for peers from the REST handlers down to the transaction, default peers | specification |
| `PeerRequestsProofs` | | invariant, proved |
| `PeerStatus` | the collector, the ping workers, the status rows, the webhook of peer states | specification |
| `PeerStatusProofs` | | invariant, proved |
| `Followers` | the route manager with the routing part of `local.go`, and the configuration files | specification |
| `EventProofs` | | invariants of `EventBus` and of `Followers`, proved |
| `RemoteBackend` | `mikrotik.go` and `pfsense.go` as series of requests | specification |
| `RemoteBackendProofs` | | invariant, proved |
| `MCUserAccounts`, `MCUserLifecycle`, `MCWebLogin`, `MCPeerRequests`, `MCPeerStatus`, `MCFollowers`, `MCFollowersTables`, `MCRemoteBackend` | | model checking |

How they fit together: `AwgProcess` is below the device of `InterfaceSave`,
whose actions are the ones `Followers` sees as `SaveInterface` and
`DeleteInterface`, without their failures; `UserAccounts` produces the events
`UserPeers` and `EventBus` handle, and `UserLifecycle` runs the first two
together; `PeerRequests` is what one edit of an admin or the owner in `UserPeers` looks
like in detail; `UserAccounts` and `WebLogin` share the row of `UserRow`, and each
treats the other's writers as one kind of request.

### AwgProcess

`procs`, `stopping` and the phase `done` of `pstate` are the map and the fields
of `awgProcEntry`; `file` is the UAPI socket in the file system; `ext` an
amneziawg-go that somebody runs by hand. A caller is a goroutine inside one of
the exported functions; its `pc` names the point between two critical sections
of `procsMu`. A critical section is one action: `StartProcess` is lines 172-221
of `awg.go` on the path where nobody listens, `StopLocked` lines 324-329,
`Watchdog` lines 272-280. The polls of the socket, the ten seconds of
`StartAWGProcess` (`Deadline`) and the five of `StopAWGProcess` (`StopGivesUp`)
may elapse at any moment. amneziawg-go itself is the environment: it creates
its socket before it listens, may exit at any moment and may leave its socket.

The abstract specification `AwgSlot` reads off the comments of `awg.go` what a
device's slot may do: empty, running, stopping, empty again; a slot that is
stopping is never revived, and is eventually empty. `AwgProcess` implements it
under the mapping `SlotOf`, which looks at the map only.

### InterfaceSave

One interface with its `row`, its `peers` rows, its device `dev` and `devPeers`.
A configuration is reduced to what `saveInterface` branches on: enabled or not,
and `EmitAWG()` or not, which decides the driver (awg_mode auto). The actions
are the numbered steps of `saveInterface` in order (`Load`, `PreSave`,
`Teardown`, `Apply`, `Commit`, `CopyPeers`, `PostSave`, `Reload`, `Readd`), the
rollback (`RollbackDelete`, `RollbackApply`, `RollbackPeers`), the deletion, and
the restore, which runs the same `saveInterface` per interface and then
`RestorePeers` and `RemoveForeign`. Every step may fail (`Bad`), with the device
left in any state the calls before the failure can have produced; a crash may
come between any two steps, and the device may or may not survive it. Peers are
edited concurrently through `savePeers` and `DeletePeer`.

The code leaves some failures uncompensated and says so (a device error outside
a mode switch, an error after the row is saved, a rollback that fails too).
The flag `dirty` records that one of them, or an edit in the middle of a save,
happened; a restart clears it, because the restore has to cope. Properties speak of settled states that are not dirty.
`PutPeer` includes what the AmneziaWG path really does with a disabled peer:
it adds it.

### UserPeers

The peers of one user. Each writer (three handlers, the expiry check, and the
editors: an admin and, with self-provisioning, the user himself) has a
record in `work`: the whole rows it decided to write when it read the list
(`DisabledPlan`, `EnabledPlan`, `DeletedPlan`, `ExpiryPlan`), and how far it is.
`UpdatePeer` and `DeletePeer` are the requests of the editors. An owner is let in
while his account is valid, for peers that name him (`Finds`); the row he sends
is cut down to the fields he may edit, and these include the disabled state and
its reason, so he may enable a peer that an admin disabled
(`wireguard_peers.go` 381-388, `domain/peer.go` 168-169). The model enables, and
disables with the reason "admin", as the bulk requests do; a `PUT` may carry any other
reason. `Handle` takes an event of its topic; `CheckExists` is the read and the check
of access in `UpdatePeer`, `Save` the transaction of `savePeers` around the device, `DeleteDevice` and
`DeleteRow` the two halves of `DeletePeer`. `Restart` loses queued events and runs the restore. `loose` is
bookkeeping of the model: the peers for which a step failed, an event was lost,
a write went over a row that somebody else had already decided to write, or an
editor enabled it while the user was not enabled.

### EventBus

The other modules assume that publishing an event is one step that always
succeeds. `EventBus` looks inside. `at` is what each goroutine does, `backlog`
how many events a subscription holds (at most `Cap`; 100 in `main.go` 77),
`Readers` and `locker` the two sides of the bus's `sync.RWMutex`, `tx` the
collectors that hold a database connection inside a transaction. `RLock`,
`Send`, `RUnlock` are the library's `Publish`: the read lock is held while the
event goes to one queue after the other, and a full queue blocks. `Announce`
and `Change` are `Subscribe` and `Unsubscribe`: a writer that waits keeps new
readers out, and lets those that waited in when it is done. The goroutines are
the LDAP sync (`SaveUser`), the handler of its events, which publishes again
(`DisablePeer`), the audit recorder (`SaveAuditEntry`), a collector (`BeginTx`,
`Commit`, `LoadPeer`) and the websockets (`Connect`, `WriteJSON`,
`Disconnect`). The library is not part of the repository: its actions are
modelled from its documented behaviour and marked external.

### UserRow and UserAccounts

A row has the fields later steps look at: administrator, sources (`src`),
`persist`, disabled with its reason, locked, password, token, second factor,
passkeys, and one value for the profile. `UserRow` has the checks of
`user_manager.go` and `domain/user.go` (`ValidateModifications`,
`ValidateCreation`, `CopyCalculatedAttributes`, `HashPassword`, ...) as
operators on rows. In `UserAccounts` a request is at `reread` (an internal
update reads the row again), `save` (it has the row it read, `old`, and the row
it will write, `new`) or `publish`; the transaction writes the whole row. The
sync reads all users, then updates one after the other, then reads all again
and disables those that are missing; it is a writer like the others. `told` is
the last event about a user, `raced` and `by` are bookkeeping: two writers
overlapped, and who disabled the user.

### UserLifecycle

`UserPeers` takes the changes of a user and their events as given;
`UserAccounts` produces them, but knows of no peers. `UserLifecycle` composes
the two for the user `Owner`. `Status` is what the peer manager sees of a row,
`EventOf` the event that a request publishes to it: an update compares the row
it read with the one it wrote, a creation publishes nothing that a peer handler
listens to. `WriteRow` is the transaction together with what it makes due
(`user` and `pub` of `UserPeers`), `Tell` the publication, `AccountStep` every
other step of the users table, `PeerStep` every step of the peer manager, and
`PortalStops` the end of the process for both: requests, passes, events and half
done work are lost at once. Nothing is assumed about which event a request
publishes or when; that the events are those `UserPeers` expects is what
`FollowsUserPeers` states. `InScope` keeps to the scope of `UserPeers`: nobody
gets the identifier of a deleted user, there are at most `MaxChange` changes of
the row's status, and with `Paced` the next one comes when the handlers have
worked off the events of the last.

### WebLogin

A request loads the session of its browser and the row of its user when it
arrives, and answers later with what it read, so overlapping requests store
sessions out of order. `limiter` is the rate limiter with its two critical
sections (`allow` when a request arrives, `recordFailure` when it answers); a
step of the clock is one period of the codes. `half`, `granted`, `accepted`,
`stale` and `failed` are history: what the browser has shown, which codes were
accepted, that a row was overwritten with one read earlier, and the failures a
stateless observer would count. `stale` also holds of a user whose secret is
enrolled a second time (`EnrolsAgain`), which forgets the step of the last code.

### PeerRequests

One interface that hands out addresses and default peers. A request (`op`)
passes its checks, chooses keys and address (`PreparePeer`, `FreshAddress`),
and then runs the steps of `SavePeer` or `DeletePeer`, in which table and device
change one after the other and may fail. The handlers of v0 and v1 and of
provisioning differ in what they decode and check, so each is an action of its
own. Three handlers of the bus create default peers behind `userLockMap`.
`crowd` and `excused` are bookkeeping of overlaps: another request ran at the
same time; the interface's handler and a user's did, or an update that was
overlapped brought back a default peer that had been deleted or given away
(`Revives`).

### PeerStatus

Times are ticks. `CollectPeerData` takes the counters of all peers at once and
then writes row after row (`CollectPeer`), while ping workers write the same
rows and peers are disabled, deleted, created again and given other keys. A
changed state is published by an action of its own, since the code does so after
the transaction. Three things fail there without anybody trying again: the
transaction (`UpdatePeerStatus`), after its function has noted that the state
changed, so that a state is announced which no row has; `GetPeer` before the
event, which is then dropped although the change is stored
(`CollectorPublishes`); and the webhook itself, also for a deletion. The peer is
then in `excused`, since its receiver may be wrong until the next change of the
peer's state; each failure uses up a `Change`. `SessionBegins` has the five cases of `getSessionStartTime`.

### Followers

One interface. A change writes row and device and publishes its events; every
topic has its queue, and the route manager's two handlers share a mutex.
`SetRoutesForFamily` and `RemoveRoutesForFamily` are the local controller's work
for one family: routes, rules of the mark, the main-table rule. A handler that
fails ends where it is, with any part of the family done. Four writers read the
rows and write the file later. `clean` says that the last change met an idle
portal and nothing failed since: that is when the followers must agree, whatever
earlier, overlapping or failing changes had left. `TablesApart` is what the
values of `Wanted` must satisfy for that: no table that a row names is another
row's under another name, or the mark of a device. TLC evaluates it for the
rows of the run. Two details are left out, both put right by the next update: the
handler of an update may fail in storing the mark, and `SetRoutesForFamily` may
touch the routes of a device that was replaced meanwhile when it has none to add.

### RemoteBackend

An operation of either backend is a series of HTTP requests (`pos` is the next
one) on the device's objects. Every request succeeds, fails, or takes effect
although its answer is lost; the operation then ends with an error and nothing
is undone. The three kinds of mutex are modelled where the code takes them. The
first request of `GetInterfaces` and the read before the addresses of an interface
are deleted are not modelled: if one fails, the operation ends with an error, as
it does at the requests around it.

## 3. Runs

| Run | Shows | Bounds |
|---|---|---|
| `awg_process` | type invariant, `SingleProcess`, `TrackedUntilReaped`, `StopKeepsSlot`, `CallsReturn`, refinement of `AwgSlot` with its liveness | 1 device, 2 callers, 2 processes: two callers already meet in every pair of critical sections, and two incarnations are what is needed to mistake one for the other; devices share nothing but the lock |
| `interface_save` | `DeviceMatchesRow`, `DriverMatchesRow`, `PeersMatchRows`, `PeerParamsMatchRow`, `HooksMatchRow`, `RestoreHeals` | 2 peers, 1 failing step, 1 crash, any number of operations and edits |
| `user_peers` | `DevicePeersEnabled`, `PeersFollowUser`, `AdminDisableSticks`, `ExpiryEnds`, `DisabledUserLosesPeers` | 2 peers, one with an expiry date, each enabled or disabled by an admin at the start; self-provisioning allowed; 2 changes of the user, 1 edit by an admin or the owner, 1 failing step, 1 restart: one edit suffices for the owner to enable what an admin had disabled |
| `event_bus` | `NoSendOnClosed`, `EventsOnce`, `EventsHandled`, `TransactionsEnd`, `ClientsLeave`, no deadlock | 1 websocket that comes and goes for ever, 1 collector, 2 users; queues of one event (always on the verge of blocking), the users' queue of 2 (never full); 2 connections |
| `event_bus_full` | **violation** of `EventsHandled` | the same with a users' queue of 1 and 3 users |
| `user_accounts` | `EventsMatchRow`, `PasswordNeedsDatabaseSource`, `LdapConverges` | 1 user, 1 request beside the sync, 2 requests or changes of the directory, 1 fault, any number of passes; a row of the database, one of the directory, or none at the start. Users share nothing |
| `user_lifecycle` | `PeersFollowRow`, `FollowsUserPeers` | 1 user of the directory with 1 peer, `Paced`, 1 request beside the sync, 2 requests or changes of the directory, 2 changes of the row's status, 1 restart, any number of passes. Failing steps and edits of peers are in the runs of the two parts; the proofs cover all bounds |
| `web_login` | `SecondFactorKept`, `AttemptsBounded`, `CodesUsedOnce` | 1 browser, 2 requests at once, 1 user, 2 attempts, 4 periods, 2 secrets, 4 events of the surroundings |
| `remote_backend` | `SuccessMeansDone`, `ForeignStays` | 2 operations at once, 1 fault, 2 addresses and servers, a route of each family, 1 table besides the main one; both backends |
| `peer_requests` | `OneDefaultPeer`, `RequestsComplete`, `AddressesUnique`, `OwnersOnly` | 2 users, 3 keys, 2 slots beside the 3 handlers, 2 requests or events, 1 failing step |
| `peer_status` | `SessionHasHandshake`, `ReceiverKnows` | 1 peer, 1 ping worker, queue of 1, 3 times, 2 changes of peer or device or failing steps: rows of different peers share nothing but the queues |
| `followers` | `FollowersAgree` | 1 interface with a network of each family, one of them a default route; 4 rows (own table, numbered table, no management, disabled; two of them with a file), 3 changes, 1 fault |

`MCInterfaceSave` uses the symmetry of the peers (no liveness there), a view
that forgets the local variables of a finished operation (the next one assigns
each before it reads it), and a constraint that stops where the flag `dirty` can
never be cleared again. One failing step is enough for every single
compensation; a second would fail a compensation, which the code reports and
does not repair. `user_peers` runs with `Paced`: a user is changed again only
when the events of the last change have been handled. Without it the two
topics `UserDisabled` and `UserEnabled` may be handled in the wrong order, and
`PeersFollowUser` does not hold; nothing in the repository promises otherwise.
`UserPeers` may stop (all bounds used up), so its runs do not check deadlock.
`event_bus` says under which condition the bus cannot lock up: the events of
one sync fit in the queue of their handler, and there is a connection for each
collector and one more. `event_bus_full` drops the first condition; without the second (one connection
is what SQLite gets, `database.go` 170) TLC finds the other cycle: the handler
holds the read lock on a full audit queue, the recorder waits for the only
connection, the collector keeps it while it waits behind a websocket. Several
websockets and collectors are left to the proofs, which cover safety for any
number of them; liveness is checked with one each.

The modules `UserAccounts` to `RemoteBackend` stop when their bounds are used up,
so their runs do not check deadlock; the same holds of `UserLifecycle`. Many of their properties exempt states in which two writers overlapped
(`raced`, `stale`, `crowd`, `excused`, `clean`, `overlap`): the code takes no
lock there, and each such exemption is named in the comment of its property. It
is kept as narrow as TLC allows: dropping it gives a counterexample. The three
keys of `peer_requests` are what an update with a new key needs beside a default
peer; `peer_requests` and `remote_backend` use the symmetry of keys, slots and
users, or slots, addresses, servers and names. In `followers` the changes run
one after the other and a change may meet a handler half way, but no event that is
still waiting (`MaxBacklog` is 0, or the queues multiply the states); that a
change may meet any backlog is covered by the proof (`FollowersCatchUp`) alone.

### Fairness

`AwgProcess`: weak fairness of each goroutine inside a call, of the timers, of the
watchdog, and of the death of a process that was sent SIGKILL. Nobody need ever
call, and no process need ever serve or react to SIGTERM. `UserPeers`: weak
fairness of the publication, of each handler and of the expiry timer; nobody
need ever change a user or edit a peer. `EventBus`: weak fairness of every
goroutine that can go on, strong fairness where several wait for the same thing
(a place in a queue, the write lock, a connection), since Go serves them in
order; a write to a websocket ends, because the client reads or TCP gives up
(the code sets no deadline of its own). Nobody need connect, leave or sync.
`UserAccounts`: weak fairness of each request that has been accepted and of the
sync, which is a timer; nobody need send a request, and a failing transaction
uses up a bound. The other modules state safety only.

### What the violation says

`EventsHandled` (`event_bus_full`): the sync holds the bus's read lock on a
full queue, a websocket waits for the write lock, and the handler that would
empty the queue waits behind it to publish (`ldap_sync.go` 246,
`endpoint_websocket.go` 83, `wireguard_peers.go` 578).

### Counterexample configurations

These configurations are kept beside the runs: each checks one property that
some text of the repository promises and the model does not keep, and TLC
prints the shortest trace. They are run by hand, `tlc -config X.cfg M`.

| Configuration | Property | What happens |
|---|---|---|
| `MCAwgProcessRecover` | `RecoveryUnlinksStaleSocket` | two callers recover the same device; the first restarts it, the second unlinks the new socket (`local.go` 292-301, "Remove stale socket file") |
| `MCInterfaceSaveRestore` | `RestoredDriverMatchesRow` | after a crash in the middle of a mode switch the restore keeps the wrong driver, since it compares the row with itself (`wireguard_interfaces.go` 574; 204 says the final state is that of the database) |
| `MCInterfaceSavePropagate` | `PropagationChangesParamsOnly` | peer rows are written back from a snapshot (674-701): a deleted peer comes back, a concurrent enable or disable is lost (671: "propagate AWG obfuscation parameters") |
| `MCInterfaceSaveDelete` | `DeletionRunsDownHooks` | the interface is marked disabled before its old state is passed on (516-521, 541-545), so no hook runs (`domain/interface.go` 52) |
| `MCUserPeersAwg` | `DisabledPeersNotServed` | a disabled peer stays on an AmneziaWG device: `saveAWGPeer` looks for extras that a peer just created never has, so the branch that removes it is not taken (`local.go` 649-670; `domain/peer.go` 51, `domain/user.go` 61 "WireGuard peers are disabled as well") |
| `MCUserAccountsReEnable` | `ManuallyDisabledStay` | an admin enables a user the sync had disabled and disables him later: the reason that is sent along is still that of the sync, which then enables the user (`ldap_sync.go` 145; `docs/documentation/usage/user-sync.md` 46) |
| `MCUserAccountsTotp` | `SecondFactorStays` | an ordinary update of a user carries no second factor, and `CopyCalculatedAttributes` does not bring it back: it is switched off (`user_manager.go` 185, "ensure that crucial attributes stay the same") |
| `MCFollowersRules` | `LinuxRuleStays` | with two suppressing main rules the clean-up deletes every rule after the second, the kernel's own among them (`local.go` 1069-1078; 1063 "clean up extra main rules - only one rule is allowed") |
| `MCFollowersAwg` | `AwgRoutesFollow` | `SetRoutes` asks wgctrl for the device (`local.go` 919) without the fallback of the read path: no routes for an AmneziaWG device, which the comment at 939-943 counts among those it serves |
| `MCFollowersTables` (module `MCFollowersTables`) | `FollowersAgree` | the removal of the old table follows the update of the new one (`wireguard_interfaces.go` 725-734, "if the route table changed, ensure that the old entries are remove"), and takes the new routes and rules away if both names stand for one table (`TwoNames`: "" and "0", likewise "7" and "0x7"). With `NamedMark` for `TwoNames` the same happens when the new table is the mark of the device, which is the table of a row that names none (`local.go` `RemoveRoutes`) |

### What else the code does, met while modelling

These are in the models, or excluded by a named condition, and no text of the
repository promises otherwise.

* `mikrotik.go` 441 looks at the reply of the query, not of the creation.
* `CalculateTrafficDelta` (`domain/statistics.go` 82) subtracts unsigned: after
  a restart of the device one delta is huge.
* The status row of a deleted peer comes back if the collector had read it
  before the deletion, and stays until a peer of that key is deleted again.
* The limit of peers per user can be exceeded by requests that run at once
  (`wireguard_peers.go` 246); two creations at once may choose one address.
* `getFreshPeerIpConfig` does not notice a network that is full.
* A route update is published for a disabled interface, too
  (`wireguard_peers.go` 594) and leaves a rule behind; a removal handled after
  the device is gone leaves all its rules (`local.go` 1179).
* An update, or a bulk update, stores the row it has read. When a default peer is
  deleted or given to another user meanwhile, it comes back, beside the one the
  user may have got since (`wireguard_peers.go` 360-430).
* The secret of an enrolment is dropped from the session when the confirmation is
  answered (`endpoint_authentication.go` 605). A request of the same browser that
  was under way stores it again, and a second confirmation of the same secret
  resets the step of the last code: a code of that period is good once more.
* The map of OAuth authenticators is read by requests
  (`app/auth/auth.go` 461) while the set-up that is retried writes it.

## 4. Proofs

`AwgProcessProofs` proves, for any sets of devices, processes and callers and
from `None \notin Proc` alone: `TypeCorrect`; `Invariant`, from which
`OneProcessPerDevice`, `MapIsAuthority` and `StopExcludesStart`; and
`ImplementsSlot`, that `Safe` implements the safety part of `AwgSlot`.
`SingleProcess` is not inductive: that two processes of one device are never
alive together follows from the map being a function, once it is known that
every process that is not reaped is in it. So the invariant has the equivalence
`TrackedUntilReaped` (an entry is in the map exactly from spawn to reaping),
what a caller that holds an entry knows of it, and that a process of a stopping
caller is marked. The refinement adds one lemma for each move of the slot: a
spawn occupies, a mark requests, a reaping empties, all else stutters.

`UserLifecycleProofs` has three parts. Part one is about the writers of the users
table and proves, for any number of users and requests, any passwords and
profiles, any directory and any settings: `EventsFollowRow` (`EventsMatchRow`)
and `PasswordsAreKept` (`PasswordNeedsDatabaseSource`). It assumes that the rows
of the start are rows whose passwords are hashed and belong to users of the
database, that there is a profile, and that the name of the sync is not that of
a request. Both properties speak of users whose writers have never overlapped,
but a writer reads, checks, writes and publishes in separate steps, so
`AccountInv` says what it knows at each of them. No two are under way for such a
user, and the list of the pass that disables missing users still holds his row
(`Single`). A request that has checked will write a row whose password is hashed
and whose user has the database as a source (`Sound`), which needs that no check
lets a source go (`Prepared`). What a request will write and what it will then
publish agree (`Sound`), because the row is still the one it took it for
(`Expected`), and once it has written, they still do (`Due`). With nobody left to
publish, the last event said what the row says (`Settled`).

Part two is about the writers of a user's peers and proves, for any number of
peers, any settings and any bounds
and from the assumptions on the constants: `TypeCorrect`,
`KernelServesEnabledPeers` (`DevicePeersEnabled`), `EditorsHaveTheLastWord`
(`AdminDisableSticks`) and, where a user is changed again only when his events
are handled (`Paced`), `PeersGoWithUser` (`PeersFollowUser`). The inductive
invariant adds to `DevicePeersEnabled` what the writers know: a row they are
about to write enables a peer only with the right reason, a peer two of them are
about to write becomes loose with the first write, and a peer taken off the
device is still in the table of the writer that will delete its row.
`AdminDisableSticks` is about the handlers and the timer: as long as no two writers
of a peer overlap, none of them holds a row that would enable a peer disabled with
the reason of an admin, so only a save of an editor's own does it.
`PeersFollowUser` speaks of the moment when nothing is under way. Its invariant
`FollowInv` says what holds before: the event published, queued or being handled
is the one of the user's last change (`OneEvent`), so once it is taken, every
peer that is not as the user asks is still in its handler's plan (`Following`);
and each writer writes one kind of row, so no other undoes what the handler did.

Part three puts them together, for any `Owner` among the users.
`UsersFollowPeerModel` (the action property `FollowsUserPeers`): while no two
writers of the owner's row have overlapped, each step of the users table and of
the peer manager is a step of `UserPeers` or leaves its variables alone.
`ImplementsUserPeers`: a life of the owner without such an overlap is a behaviour
of `UserPeers`, so that all of part two holds of it. `PeersGoWithRow`
(`PeersFollowRow`, under `Paced`): once the events are worked off and none is
due, the peers are as the row of their owner in the database says. The invariant
`LifecycleInv` says that `user` is the status of the row, always; and, until two
writers overlap, the invariants of the other parts and `Announced`: `UserPeers`
has an event due only while a request of the owner has still to publish, and
then it is the one that this request publishes. A transaction changes the status and makes
the matching event due (`WriteAnnounced`, which rests on `Single` and
`Expected`); most other steps write no row and move no request that publishes
(`Aside`, a lemma for each kind of step).

`EventProofs` has two parts. For the bus it proves, for any number of
websockets, collectors, connections and users and any queue sizes:
`TypeCorrect`, `ClosedQueueSafe` (`NoSendOnClosed`) and `EventConservation`
(`EventsOnce`). `NoSendOnClosed` is inductive only with `Serving`: who is not
inside `Publish` has nothing left to send, so that a writer, which enters when
no reader is left, can close any queue. `EventsOnce` needs that the sync is the
only source of these events and that their handler is always subscribed.

For the followers it proves `FollowersCatchUp` (`FollowersAgree`), for any
networks, rows, marks and tables, any number of changes at once, of failures and
of events that wait. There are two assumptions. `TablesApart`: without it the
order of two events decides what is left (`MCFollowersTables`). 
`MaxMainRules <= 1`: somebody may add a rule that suppresses the main table where there is none,
but not a second one, with which the clean-up deletes rules of others
(`MCFollowersRules`) and may delete the interface's own. The invariant
`FollowInv` has a part that always holds, `BaseInv`: types, and with them that
every mark is one a row names or above the offset; the link is up exactly when
the row is enabled, and a device that is down has no routes; a family has at
most one rule that suppresses the main table, so that the clean-up finds nothing
to do (`NothingToClean`). The other parts hold while `clean` does. `ChangeInv`:
a change that met an idle portal is alone until it publishes, with the rows it
read. `RouteInv`: afterwards every update that waits is for the rows as they
are, every removal is for another table, and either an update waits, or a
handler is at it and what it has done of each family stays done (`Setting`,
`FamilyDone`), or the kernel is as it should be and the removal under way is of
another table (`Settled`); `FoundMarks` says what tables and marks the handlers
work out. `FileInv`: every writer has read the rows as they are, and the file is
right, or a writer or an event will make it so. What failed handlers and
overlapping changes leave behind needs no description: the next update removes
the routes of networks nobody asked for, in whatever table.

`PeerStatusProofs` proves, for any number of peers and workers, any intervals
and any sizes of queues: `SessionsHaveHandshakes` (`SessionHasHandshake`) and
`ReceiverIsTold` (`ReceiverKnows`). For the first, the row alone does not show
it: a session that goes on keeps its start while the handshake comes from
counters the collector has read earlier. The invariant orders the places a
handshake is kept in (the start of the row's session, the collector's snapshot,
the device, the clock), except for the zero of a device that has forgotten it.
For the second, the state is told after the transaction that changed it, so two
tellers of one peer would be told in any order. `KnownInv` says that there is
one at a time, that it tells what the row says, and that with nobody left to
tell, the last event on the way about the peer, or else what was told last, is
its state, unless a failed step has made the peer `excused` (`UpdateEffect` says
when a transaction does). Events appended at the end and events taken at the front keep that:
lemmas `AboutAppended` and `AboutTaken`.

`InterfaceSaveProofs` proves, for any number of peers, failing steps and crashes
and from the assumptions that the bounds are numbers and that "none" is neither
a configuration nor a device, all properties of `interface_save`: `Typed`,
`DeviceFollowsRow`, `DriverFollowsRow`, `PeersFollowRows`,
`PeerParamsFollowRow`, `HooksFollowRow` and the action property
`RestoreLeavesStoredPeers`. None of them is inductive, for they speak of settled
states only, and what an operation leaves behind depends on each step before.
The invariant `IInv` says it step by step, in three layers. `Shape` holds
always: types, and which local variables have been assigned. `CleanInv` holds
while nothing is left unrepaired, crashes included: until the row is written it
equals the old row that was read, and afterwards the new configuration
(`DeviceInv`); the snapshot of the peers still agrees with the table on which
there are and which are enabled (`SnapInv`), because an edit that meets an
operation is marked (`EditInv`); the enabled peers are on the device, but for
those a loop has still to visit, unless a later loop puts all of them back
(`PeersInv`). `CrashFreeInv` holds until the first crash: the driver between
teardown and configuration (`DriverInv`), the hook that ran last (`HooksInv`),
the parameters of the peers the propagation has visited (`ParamsInv`), and that
a kernel device has no disabled peer (`KernelInv`). `DownIsClean` is why a boot
may forget what went wrong: `CleanInv` says nothing of a portal that is down.
There is one lemma per conjunct, with one step per action; `Frame` says which
actions may change a variable, so that the proof of the types looks at those
only.

`WebLoginProofs` proves all properties of `web_login`, for any number of
browsers, users and codes and any finite number of requests, from `Nobody \notin
User`, bounds that are numbers, and rows of the users that are rows.
`SecondFactor` (`SecondFactorKept`) speaks of stored sessions, but a request
loads a session, works and stores it whole, over whatever was stored meanwhile.
So the invariant asks of the session that such a request carries what it asks of
the stored ones: it claims no more than the browser has shown (`Honest`). Since
what was shown only grows (`Growing`), a session that was honest when it was
loaded still is when it is stored. `AttemptsAreBounded` (`AttemptsBounded`)
compares the limiter, which forgets failures at a lockout, a clean-up and the
end of the window, with the history of failures. `LimitInv` has both ordered by
time, so that what is too old is at the front (`OldFirst`); it says that from
the last failure backwards they agree, as far as the window after the last
lockout goes (`Counts`), and it counts an attempt that was let in as a failure
to come: that is why the bound is one less than the attempts plus the number of
requests that can run at once. `CodesAreUsedOnce` (`CodesUsedOnce`) needs that
the row of a user has spent every code that was accepted, unless it was
overwritten with an older one (`CodesHold`), and that a row carried by a request
is a row that was in the table (`RequestsHold`): a code is checked against the
row that was read, and when that row is still the one in the table, it has spent
what was accepted. Its first version was not inductive, and with larger bounds
TLC found the reason in the code, the repeated enrolment listed above.

`RemoteBackendProofs` proves, for any number of concurrent operations, routes,
servers and faults, from `Free \notin Slot` and that no destination belongs to
both families: `ForeignIsLeftAlone` (the action property `ForeignStays`) and
`SuccessIsReal` (`SuccessMeansDone`). For the first, the list of DNS servers is
read in one request and written back in another; the invariant says that the
operation between them holds `coreMutex`, and that the list it has read is still
that of the device (`ServersCovered`). Routes are deleted one by one from a list
made before; the list holds static routes only, and a table to be removed is not
the main one (`RoutesOwned`). For the second, `ProgressInv` says for each kind
of operation what has been achieved before its next request: under the mutex of
the interface, of the peer or of the core settings nobody undoes it, and `set`
writes the list that the device still has. Routes have no mutex; for an
operation that no other on routes has overlapped, `RoutesReached` says that the
family already done is as wanted, and that in the other one only the routes
still in its lists are missing, or have still to go.

`PeerRequestsProofs` proves all properties of `peer_requests`, for any number of
users and requests, any finite number of keys and any settings, from the
assumption that "nobody" is not a user. `UsersChangeTheirOwn` (the action
property `OwnersOnly`): requests read, check and write in separate transactions,
so what they checked may be outdated when they write, and the property is about
those that no other has overlapped. The invariant says that such a request runs
alone, and what is left of its checks at each of its points (`Owned`): the peers
still to be visited, the one about to be deleted and the one about to be stored
are the caller's, and a peer about to be prepared has an identifier of its own.
`AddressesAreFree` (`AddressesUnique`), `RequestsEndComplete`
(`RequestsComplete`) and `OneDefaultPeerEach` (`OneDefaultPeer`) share a second
invariant, `CareInv`. An address that was chosen stays free while its request is
alone (`AddressFree`, from `FreshIsFree`: the search returns an address nobody
has, or one outside of a full network). An update with a new key has one peer
less between the deletion of the old row and the save of the new one, and the
number it began with at the end (`UpdateProgress`); the device no longer has the
old key when its row goes (`RekeyProgress`). The default peers need what several
actors know together (`Singles`): a handler holds the lock of its user from the
look at his peers to the save, and no two hold the same lock (`Locked`,
`LocksDiffer`), so what it saw still holds (`StillNone`); and nothing else makes
a default peer, but for updates, which keep one that is there (`DefaultKept`).

Only model-checked: all liveness (`CallsReturn`, `ExpiryEnds`,
`DisabledUserLosesPeers`, `EventsHandled`, `TransactionsEnd`, `ClientsLeave`,
`LdapConverges`, the liveness of `AwgSlot`), which is beyond the proof system.
No proof uses induction over data: what is said of sequences and finite sets
rests on the library's theorems about them.

## 5. Plan

1. (done) the process manager with its abstract slot, the interface save with
   restore and deletion, the user events, the event bus; their first theorems.
2. (done) the users table with the LDAP sync, logins, requests for peers, the
   status of peers with its theorem, routes and files, the remote controllers.
3. (done) the users table and the peer manager composed; proofs of all safety
   properties that the passing runs check.
4. the import of devices (`ImportInterface`), ports and `PrepareInterface`, the
   AmneziaWG parameters as operators; an abstract specification of the portal
   ("the device is what the rows say") implemented by `InterfaceSave`.

## 6. Not modelled

Text formats (configuration files, templates, UAPI messages beyond their
effect), rendering and reading requests of the REST API, mail, audit rows, the
import of existing devices, the status of interfaces, the migration from
version 1, configuration and encryption, the frontend, and the protocols of
LDAP, OAuth, OIDC and WebAuthn, which are external. Concurrent saves of one
interface, and background jobs that run during the restore, are hazards without
a property: nothing in the code protects them.
