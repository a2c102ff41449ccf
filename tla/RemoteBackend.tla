----------------------------- MODULE RemoteBackend -----------------------------
(***************************************************************************)
(* The controllers of remote backends (adapters/wgcontroller/mikrotik.go   *)
(* and pfsense.go, with the API clients in internal/lowlevel).  Every      *)
(* operation is a series of HTTP requests.  A request succeeds, fails, or  *)
(* takes effect although its answer is lost (the client's timeout); the    *)
(* operation then ends with an error and nothing is undone.                *)
(*                                                                         *)
(* The device has one interface of the portal with one peer, addresses,    *)
(* DNS servers, routes and routing tables.  Settings other than those are  *)
(* one value.  Names of interfaces and keys of peers are unique on the     *)
(* device: it refuses a second object.                                     *)
(***************************************************************************)
EXTENDS Naturals, FiniteSets

CONSTANTS Slot,          \* operations that run at the same time
          Name,          \* interfaces of the device that are listed
          Concurrency,   \* requests that GetInterfaces has under way
          Settings,      \* settings of an interface, and of a peer
          Address,       \* addresses of the interface
          Server,        \* DNS servers
          CidrV4, CidrV6,    \* destinations of routes
          Table,         \* routing tables besides the main one
          MaxOps, MaxFaults  \* bounds

ASSUME RemoteBackendAssumption ==
    /\ Concurrency \in Nat \ {0} /\ MaxOps \in Nat /\ MaxFaults \in Nat
    /\ CidrV4 \intersect CidrV6 = {}

Cidr == CidrV4 \union CidrV6
Main == "main"
Mutex == {"interface", "peer", "core"}
Free == "free"
ASSUME FreeAssumption == Free \notin Slot

Absent == [present |-> FALSE]
Idle == [kind |-> "idle"]

\* what the portal wants of an interface and of a peer
WantedInterface == [settings: Settings, addresses: SUBSET Address]
WantedPeer == [settings: Settings, endpoint: {"", "host"}, responder: BOOLEAN]

\* an object that was just created has defaults
NewInterface == [present |-> TRUE, settings |-> "default", addresses |-> {}]
NewPeer == [present |-> TRUE, settings |-> "default", endpoint |-> ""]

Route == [cidr: Cidr, table: Table \union {Main}, dynamic: BOOLEAN]
StaticRoute(c, t) == [cidr |-> c, table |-> t, dynamic |-> FALSE]

VARIABLES
    backend,    \* "mikrotik" or "pfsense"
    device,     \* the interface, with its static and enabled addresses
    peer, dns, tables,
    routes,     \* how many routes of each kind there are
    lock,       \* interfaceMutexes, peerMutexes, coreMutex
    op,         \* operations under way
    ops, faults

router == <<device, peer, dns, tables, routes>>
vars == <<backend, router, lock, op, ops, faults>>

Init ==
    /\ backend \in {"mikrotik", "pfsense"}
    /\ device \in {Absent, [NewInterface EXCEPT !.addresses = Address]}
    /\ peer = Absent
    /\ dns \in {{}, Server}
    /\ tables = {Main}
    /\ routes \in {[r \in Route |-> IF r.dynamic /\ r.table = Main /\ r.cidr \in d THEN 1 ELSE 0] :
                      d \in {{}, CidrV4}}
    /\ lock = [m \in Mutex |-> Free]
    /\ op = [s \in Slot |-> Idle]
    /\ ops = 0 /\ faults = 0

---------------------------------------------------------------------------
(* The API clients: Query, Get, Create, Update, Delete, ExecList.          *)

\* a request that reads
Reads == UNCHANGED <<router, faults>>
ReadFails == faults < MaxFaults /\ faults' = faults + 1 /\ UNCHANGED router

\* a request that does not get through, and one whose answer is lost
RequestFails == faults < MaxFaults /\ faults' = faults + 1 /\ UNCHANGED router
AnswerIsLost == faults < MaxFaults /\ faults' = faults + 1

At(s, kind, pos) == op[s].kind = kind /\ op[s].pos = pos
Goto(s, rec) == op' = [op EXCEPT ![s] = rec]
Then(s, pos) == op' = [op EXCEPT ![s].pos = pos]

\* an operation that writes: it goes on, or it ends with an error
Writes(s, effect, next) ==
    \/ effect /\ Then(s, next) /\ UNCHANGED faults
    \/ RequestFails /\ Then(s, "error")
    \/ AnswerIsLost /\ effect /\ Then(s, "error")

Steps == UNCHANGED <<backend, lock, ops>>

Start(s, rec) ==
    /\ op[s] = Idle /\ ops < MaxOps /\ ops' = ops + 1
    /\ Goto(s, rec)
    /\ UNCHANGED <<backend, router, faults>>

\* mutant: the operation does not wait for its mutex
StartUnlocked(s, m, rec) == Start(s, rec) /\ UNCHANGED lock

StartLocked(s, m, rec) ==
    /\ lock[m] = Free /\ lock' = [lock EXCEPT ![m] = s]
    /\ Start(s, rec)

Return(s) ==
    /\ op[s].kind # "idle" /\ op[s].pos \in {"ok", "error"}
    /\ Goto(s, Idle)
    /\ lock' = [m \in Mutex |-> IF lock[m] = s THEN Free ELSE lock[m]]
    /\ UNCHANGED <<backend, router, ops, faults>>

SetDevice(d) == device' = d /\ UNCHANGED <<peer, dns, tables, routes>>
SetPeer(p) == peer' = p /\ UNCHANGED <<device, dns, tables, routes>>
SetServers(d) == dns' = d /\ UNCHANGED <<device, peer, tables, routes>>
SetTables(t) == tables' = t /\ UNCHANGED <<device, peer, dns, routes>>
SetRouteCount(r, n) ==
    routes' = [routes EXCEPT ![r] = n] /\ UNCHANGED <<device, peer, dns, tables>>

---------------------------------------------------------------------------
(* GetInterfaces: the details are loaded in parallel; the first error      *)
(* stops the workers that have not started yet.                            *)

GetInterfaces(s) ==
    Start(s, [kind |-> "list", pos |-> "loading", todo |-> Name, running |-> {},
              got |-> {}, failed |-> FALSE]) /\ UNCHANGED lock

LoadWorkerStarts(s, n) ==
    LET o == op[s]
    IN  /\ At(s, "list", "loading") /\ n \in o.todo /\ Cardinality(o.running) < Concurrency
        /\ Goto(s, [o EXCEPT !.todo = @ \ {n}, !.running = IF o.failed THEN @ ELSE @ \union {n}])
        /\ UNCHANGED <<router, faults>> /\ Steps

LoadWorkerEnds(s, n) ==
    LET o == op[s]
    IN  /\ At(s, "list", "loading") /\ n \in o.running
        /\ \/ Goto(s, [o EXCEPT !.running = @ \ {n}, !.got = @ \union {n}]) /\ Reads
           \/ Goto(s, [o EXCEPT !.running = @ \ {n}, !.failed = TRUE]) /\ ReadFails
        /\ Steps

GetInterfacesEnds(s) ==
    /\ At(s, "list", "loading") /\ op[s].todo = {} /\ op[s].running = {}
    /\ Then(s, IF op[s].failed THEN "error" ELSE "ok")
    /\ UNCHANGED <<router, faults>> /\ Steps

---------------------------------------------------------------------------
(* SaveInterface *)

SaveInterface(s) ==
    \E want \in WantedInterface :
        StartLocked(s, "interface", [kind |-> "saveInterface", pos |-> "query", want |-> want,
                                     found |-> FALSE, obsolete |-> {}, new |-> {}])

\* getOrCreateInterface: an answer that is missing counts as "not found"
QueryInterface(s) ==
    /\ At(s, "saveInterface", "query") /\ Steps
    /\ \/ Reads /\ Goto(s, [op[s] EXCEPT !.pos = IF device.present THEN "load" ELSE "create",
                                         !.found = TRUE])
       \/ ReadFails /\ Then(s, "create")

\* the Mikrotik controller looks at the status of the query once more, so an
\* interface that was created after a failed query is an error as well
CreateInterface(s) ==
    /\ At(s, "saveInterface", "create") /\ Steps
    /\ IF device.present
       THEN Then(s, "error") /\ UNCHANGED <<router, faults>>
       ELSE Writes(s, SetDevice(NewInterface),
                   IF backend = "mikrotik" /\ ~ op[s].found THEN "error" ELSE "load")

\* loadInterfaceData; pfSense does without the details
LoadInterfaceData(s) ==
    /\ At(s, "saveInterface", "load") /\ Steps
    /\ \/ Reads /\ Then(s, "update")
       \/ ReadFails /\ Then(s, IF backend = "mikrotik" THEN "error" ELSE "update")

\* pfSense gets the addresses in the same request, if there are any
AddressesInRequest(want) ==
    IF backend = "pfsense" /\ want.addresses # {} THEN want.addresses ELSE device.addresses

UpdateInterface(s) ==
    LET want == op[s].want
    IN  /\ At(s, "saveInterface", "update") /\ Steps
        /\ Writes(s, SetDevice([device EXCEPT !.settings = want.settings,
                                            !.addresses = AddressesInRequest(want)]),
                  IF backend = "mikrotik" THEN "addresses" ELSE "ok")

\* loadIpAddresses and the difference to the wanted ones
LoadIpAddresses(s) ==
    LET want == op[s].want.addresses
    IN  /\ At(s, "saveInterface", "addresses") /\ Steps
        /\ \/ Reads
              /\ Goto(s, [op[s] EXCEPT !.pos = "change", !.obsolete = device.addresses \ want,
                                     !.new = want \ device.addresses])
           \/ ReadFails /\ Then(s, "error")

\* updateIpAddresses: the obsolete ones go first
DeleteAddress(s, a) ==
    /\ At(s, "saveInterface", "change") /\ Steps
    /\ a \in op[s].obsolete
    /\ \/ SetDevice([device EXCEPT !.addresses = @ \ {a}]) /\ UNCHANGED faults
          /\ Goto(s, [op[s] EXCEPT !.obsolete = @ \ {a}])
       \/ RequestFails /\ Then(s, "error")
       \/ AnswerIsLost /\ SetDevice([device EXCEPT !.addresses = @ \ {a}]) /\ Then(s, "error")

CreateAddress(s, a) ==
    /\ At(s, "saveInterface", "change") /\ Steps
    /\ op[s].obsolete = {} /\ a \in op[s].new
    /\ \/ SetDevice([device EXCEPT !.addresses = @ \union {a}]) /\ UNCHANGED faults
          /\ Goto(s, [op[s] EXCEPT !.new = @ \ {a}])
       \/ RequestFails /\ Then(s, "error")
       \/ AnswerIsLost /\ SetDevice([device EXCEPT !.addresses = @ \union {a}]) /\ Then(s, "error")

AddressesDone(s) ==
    /\ At(s, "saveInterface", "change") /\ op[s].obsolete = {} /\ op[s].new = {}
    /\ Then(s, "ok") /\ UNCHANGED <<router, faults>> /\ Steps

---------------------------------------------------------------------------
(* DeleteInterface; on a Mikrotik the addresses go first, one by one.      *)

DeleteInterface(s) ==
    StartLocked(s, "interface",
                [kind |-> "deleteInterface", pos |-> IF backend = "mikrotik" THEN "addresses" ELSE "query"])

DeleteInterfaceAddress(s) ==
    /\ At(s, "deleteInterface", "addresses") /\ Steps
    /\ IF ~ device.present \/ device.addresses = {}
       THEN Then(s, "query") /\ UNCHANGED <<router, faults>>
       ELSE \E a \in device.addresses :
              Writes(s, SetDevice([device EXCEPT !.addresses = @ \ {a}]), "addresses")

DeleteInterfaceQuery(s) ==
    /\ At(s, "deleteInterface", "query") /\ Steps
    /\ \/ Reads /\ Then(s, IF device.present THEN "delete" ELSE "ok")
       \/ ReadFails /\ Then(s, "error")

DeleteInterfaceObject(s) ==
    /\ At(s, "deleteInterface", "delete") /\ Steps
    /\ Writes(s, SetDevice(Absent), "ok")

---------------------------------------------------------------------------
(* SavePeer and DeletePeer *)

SavePeer(s) ==
    \E want \in WantedPeer :
        StartLocked(s, "peer", [kind |-> "savePeer", pos |-> "query", want |-> want])

\* getOrCreatePeer; the new peer is allowed everything until it is updated
QueryPeer(s) ==
    /\ At(s, "savePeer", "query") /\ Steps
    /\ \/ Reads /\ Then(s, IF peer.present THEN "update" ELSE "create")
       \/ ReadFails /\ Then(s, "create")

CreatePeer(s) ==
    /\ At(s, "savePeer", "create") /\ Steps
    /\ IF peer.present THEN Then(s, "error") /\ UNCHANGED <<router, faults>>
       ELSE Writes(s, SetPeer(NewPeer), "update")

\* pfSense keeps the old endpoint if the new one is empty
PfsenseEndpoint(want) == IF want.endpoint # "" THEN want.endpoint ELSE peer.endpoint

\* on a Mikrotik an endpoint is for peers that open the connection
UpdatePeer(s) ==
    LET want == op[s].want
        endpoint == IF backend = "pfsense" THEN PfsenseEndpoint(want)
                    ELSE IF want.responder THEN "" ELSE want.endpoint
    IN  /\ At(s, "savePeer", "update") /\ Steps
        /\ Writes(s, SetPeer([peer EXCEPT !.settings = want.settings, !.endpoint = endpoint]), "ok")

DeletePeer(s) == StartLocked(s, "peer", [kind |-> "deletePeer", pos |-> "query"])

DeletePeerQuery(s) ==
    /\ At(s, "deletePeer", "query") /\ Steps
    /\ \/ Reads /\ Then(s, IF peer.present THEN "delete" ELSE "ok")
       \/ ReadFails /\ Then(s, "error")

DeletePeerObject(s) ==
    /\ At(s, "deletePeer", "delete") /\ Steps
    /\ Writes(s, SetPeer(Absent), "ok")

---------------------------------------------------------------------------
(* SetDNS and UnsetDNS read the list of servers and write it back; pfSense *)
(* does neither.                                                           *)

ManagesServers == backend # "pfsense"

SetDNS(s, kind) ==
    \E servers \in {{x} : x \in Server} :
        StartLocked(s, "core", [kind |-> kind, servers |-> servers, read |-> {},
                                pos |-> IF ManagesServers THEN "get" ELSE "ok"])

GetServers(s) ==
    /\ op[s].kind \in {"setDNS", "unsetDNS"} /\ op[s].pos = "get" /\ Steps
    /\ \/ Reads /\ Goto(s, [op[s] EXCEPT !.pos = "set", !.read = dns])
       \/ ReadFails /\ Then(s, "error")

SetServerList(s) ==
    LET o == op[s]
        merged == IF o.kind = "setDNS" THEN o.read \union o.servers ELSE o.read \ o.servers
    IN  /\ o.kind \in {"setDNS", "unsetDNS"} /\ o.pos = "set" /\ Steps
        /\ Writes(s, SetServers(merged), "ok")

---------------------------------------------------------------------------
(* SetRoutes and RemoveRoutes take no mutex.  First IPv4, then IPv6.       *)

RouteKinds == {"setRoutes", "removeRoutes"}

ManagesRoutes == backend # "pfsense"

\* another operation on routes runs at the same time
Overlap(s) == \E x \in Slot \ {s} : op[x].kind \in RouteKinds

Routing(s, kind) ==
    \E cidrs \in SUBSET Cidr, t \in Table \union {Main} :
        /\ op[s] = Idle /\ ops < MaxOps /\ ops' = ops + 1
        /\ op' = [x \in Slot |->
                    IF x = s
                    THEN [kind |-> kind, cidrs |-> cidrs, table |-> t, overlap |-> Overlap(s),
                          family |-> CidrV4, read |-> {}, todo |-> {},
                          pos |-> IF ~ ManagesRoutes THEN "ok"
                                  ELSE IF kind = "setRoutes" THEN "table" ELSE "query"]
                    ELSE IF op[x].kind \in RouteKinds THEN [op[x] EXCEPT !.overlap = TRUE]
                    ELSE op[x]]
        /\ UNCHANGED <<backend, router, lock, faults>>

\* getOrCreateRoutingTables
GetRoutingTables(s) ==
    /\ At(s, "setRoutes", "table") /\ Steps
    /\ \/ Reads /\ Then(s, IF op[s].table \in tables THEN "query" ELSE "createTable")
       \/ ReadFails /\ Then(s, "error")

CreateRoutingTable(s) ==
    /\ At(s, "setRoutes", "createTable") /\ Steps
    /\ IF op[s].table \in tables THEN Then(s, "error") /\ UNCHANGED <<router, faults>>
       ELSE Writes(s, SetTables(tables \union {op[s].table}), "query")

\* mutant: dynamic routes are removed as well
OutdatedAll(s, read) ==
    {r \in read : IF op[s].kind = "setRoutes" THEN r.cidr \notin op[s].cidrs
                  ELSE r.cidr \in op[s].cidrs /\ r.table = op[s].table}

\* the routes via the interface; which of them have to go
Outdated(s, read) ==
    {r \in read :
        /\ ~ r.dynamic
        /\ IF op[s].kind = "setRoutes" THEN r.cidr \notin op[s].cidrs
           ELSE r.cidr \in op[s].cidrs /\ r.table = op[s].table}

QueryRoutes(s) ==
    LET read == {r \in Route : r.cidr \in op[s].family /\ routes[r] > 0}
    IN  /\ op[s].kind \in RouteKinds /\ op[s].pos = "query" /\ Steps
        /\ \/ /\ Reads
              /\ Goto(s, [op[s] EXCEPT !.pos = "create", !.read = read,
                    !.todo = IF op[s].kind = "removeRoutes" THEN {}
                             ELSE {c \in op[s].cidrs \intersect op[s].family :
                                     \A r \in read : ~ (r.cidr = c /\ r.table = op[s].table)}])
           \/ ReadFails /\ Then(s, "error")

CreateRoute(s, c) ==
    LET r == StaticRoute(c, op[s].table)
    IN  /\ op[s].kind \in RouteKinds /\ op[s].pos = "create" /\ c \in op[s].todo /\ Steps
        /\ \/ SetRouteCount(r, routes[r] + 1) /\ UNCHANGED faults
              /\ Goto(s, [op[s] EXCEPT !.todo = @ \ {c}])
           \/ RequestFails /\ Then(s, "error")
           \/ AnswerIsLost /\ SetRouteCount(r, routes[r] + 1) /\ Then(s, "error")

RoutesCreated(s) ==
    /\ op[s].kind \in RouteKinds /\ op[s].pos = "create" /\ op[s].todo = {} /\ Steps
    /\ Goto(s, [op[s] EXCEPT !.pos = "delete", !.todo = Outdated(s, op[s].read)])
    /\ UNCHANGED <<router, faults>>

\* a route that somebody else has removed is an error of the device
DeleteRoute(s, r) ==
    /\ op[s].kind \in RouteKinds /\ op[s].pos = "delete" /\ r \in op[s].todo /\ Steps
    /\ IF routes[r] = 0 THEN Then(s, "error") /\ UNCHANGED <<router, faults>>
       ELSE \/ SetRouteCount(r, 0) /\ UNCHANGED faults
               /\ Goto(s, [op[s] EXCEPT !.todo = @ \ {r}])
            \/ RequestFails /\ Then(s, "error")
            \/ AnswerIsLost /\ SetRouteCount(r, 0) /\ Then(s, "error")

FamilyDone(s) ==
    LET o == op[s]
    IN  /\ o.kind \in RouteKinds /\ o.pos = "delete" /\ o.todo = {} /\ Steps
        /\ Goto(s, [o EXCEPT !.read = {},
                      !.family = CidrV6,
                      !.pos = IF o.family = CidrV4 THEN "query"
                              ELSE IF o.kind = "removeRoutes" /\ o.table # Main THEN "removeTable"
                              ELSE "ok"])
        /\ UNCHANGED <<router, faults>>

\* removeRoutingTable: the main table stays
RemoveRoutingTable(s) ==
    /\ At(s, "removeRoutes", "removeTable") /\ Steps
    /\ Writes(s, SetTables(tables \ {op[s].table}), "ok")

---------------------------------------------------------------------------

Begins(s) ==
    \/ GetInterfaces(s)
    \/ SaveInterface(s) \/ DeleteInterface(s) \/ SavePeer(s) \/ DeletePeer(s)
    \/ SetDNS(s, "setDNS") \/ SetDNS(s, "unsetDNS")
    \/ Routing(s, "setRoutes") \/ Routing(s, "removeRoutes")

GoesOn(s) ==
    \/ \E n \in Name : LoadWorkerStarts(s, n) \/ LoadWorkerEnds(s, n)
    \/ GetInterfacesEnds(s)
    \/ QueryInterface(s) \/ CreateInterface(s) \/ LoadInterfaceData(s) \/ UpdateInterface(s)
    \/ LoadIpAddresses(s) \/ AddressesDone(s)
    \/ \E a \in Address : DeleteAddress(s, a) \/ CreateAddress(s, a)
    \/ DeleteInterfaceAddress(s) \/ DeleteInterfaceQuery(s) \/ DeleteInterfaceObject(s)
    \/ QueryPeer(s) \/ CreatePeer(s) \/ UpdatePeer(s)
    \/ DeletePeerQuery(s) \/ DeletePeerObject(s)
    \/ GetServers(s) \/ SetServerList(s)
    \/ GetRoutingTables(s) \/ CreateRoutingTable(s) \/ QueryRoutes(s) \/ RoutesCreated(s)
    \/ \E c \in Cidr : CreateRoute(s, c)
    \/ \E r \in Route : DeleteRoute(s, r)
    \/ FamilyDone(s) \/ RemoveRoutingTable(s)
    \/ Return(s)

Next == \E s \in Slot : Begins(s) \/ (op[s] # Idle /\ GoesOn(s))

Spec == Init /\ [][Next]_vars

---------------------------------------------------------------------------
(* Properties *)

\* what an operation that reports success has reached
Reached(s) ==
    LET o == op[s]
    IN  CASE o.kind = "list" -> o.got = Name
          [] o.kind = "saveInterface" ->
               /\ device.present /\ device.settings = o.want.settings
               /\ backend = "mikrotik" \/ o.want.addresses # {} => device.addresses = o.want.addresses
          [] o.kind = "deleteInterface" -> ~ device.present
          [] o.kind = "savePeer" ->
               /\ peer.present /\ peer.settings = o.want.settings
               /\ backend = "mikrotik" /\ o.want.responder => peer.endpoint = ""
               /\ ~ o.want.responder /\ o.want.endpoint # "" => peer.endpoint = o.want.endpoint
          [] o.kind = "deletePeer" -> ~ peer.present
          [] o.kind = "setDNS" -> backend = "mikrotik" => o.servers \subseteq dns
          [] o.kind = "unsetDNS" -> backend = "mikrotik" => o.servers \intersect dns = {}
          [] o.kind = "setRoutes" ->
               backend = "mikrotik" /\ ~ o.overlap =>
                 /\ o.table \in tables
                 /\ \A c \in o.cidrs : \E r \in Route : r.cidr = c /\ r.table = o.table /\ routes[r] > 0
                 /\ \A r \in Route : ~ r.dynamic /\ r.cidr \notin o.cidrs => routes[r] = 0
          [] o.kind = "removeRoutes" ->
               backend = "mikrotik" /\ ~ o.overlap =>
                 /\ o.table \notin tables \ {Main}
                 /\ \A c \in o.cidrs : routes[StaticRoute(c, o.table)] = 0

\* An operation that returns no error has brought the device to the wanted
\* state, whatever earlier operations left half done when one of their
\* requests failed, and whatever runs at the same time: the mutexes cover the
\* reads that a change is computed from.  Operations on routes, which take no
\* mutex, are excepted while they overlap.
SuccessMeansDone == \A s \in Slot : (op[s] # Idle /\ op[s].pos = "ok") => Reached(s)

\* Nothing is taken away that is not the portal's: dynamic routes and the main
\* table stay, and a DNS server disappears only when it is unset.
ForeignStays ==
    [][/\ \A r \in Route : r.dynamic => routes'[r] = routes[r]
       /\ Main \in tables'
       /\ \A x \in dns \ dns' : \E s \in Slot : op[s].kind = "unsetDNS" /\ x \in op[s].servers]_vars

=============================================================================
