------------------------------- MODULE Followers -------------------------------
(***************************************************************************)
(* What follows an interface's row over the event bus: the route manager   *)
(* (app/route/routes.go with the routing part of the local controller) and *)
(* the configuration files (app/configfile/manager.go).                    *)
(*                                                                         *)
(* One interface.  Its peers are the networks they stand for.  Every       *)
(* subscription has its own queue and goroutine, so events of different    *)
(* topics are handled in any order; the route manager's two handlers       *)
(* exclude each other, the writers of the file do not.  The steps that     *)
(* save the row and the device are those of InterfaceSave, here without    *)
(* their failures; a failure of a request to the kernel or of the file     *)
(* system ends the handler that made it.                                   *)
(*                                                                         *)
(* Marks, tables and priorities are numbers as in the kernel.              *)
(***************************************************************************)
EXTENDS Integers, Sequences, FiniteSets, FiniteSetsExt

CONSTANTS Slot,             \* changes that run at the same time
          CidrV4, CidrV6,   \* networks of peers
          DefaultRoute,     \* which of them have no prefix bits
          Connected,        \* the network of the interface's own address
          Wanted,           \* the rows that are saved
          TableNumber,      \* what GetRoutingTable makes of the field's values
          RouteTableOffset, RulePrioOffset,
          MaxMainRules,     \* bound: suppressing rules, ours and foreign ones
          MaxBacklog,       \* bound: topics with events when a change begins
          MaxOps, MaxFaults \* bounds

ASSUME FollowersAssumption ==
    /\ CidrV4 \intersect CidrV6 = {} /\ Connected \notin CidrV4 \union CidrV6
    /\ DefaultRoute \subseteq CidrV4 \union CidrV6
    /\ Wanted \subseteq [present: {TRUE}, enabled: BOOLEAN, save: BOOLEAN,
                         table: DOMAIN TableNumber, mark: Nat]
    /\ \A t \in DOMAIN TableNumber : TableNumber[t] \in Int
    /\ {RouteTableOffset, MaxBacklog, MaxOps, MaxFaults, MaxMainRules} \subseteq Nat
    /\ RulePrioOffset \in 2 .. 7

Cidr == CidrV4 \union CidrV6
Family == {"v4", "v6"}
CidrsOf(cidrs, f) == cidrs \intersect (IF f = "v4" THEN CidrV4 ELSE CidrV6)
Main == 254
Off == -1
Idle == [kind |-> "idle"]

\* The priorities of the kernel's rule for the main table and of the first rule
\* of an interface, on a shorter scale than 32766 and 32700.
LinuxMainPrio == 9
FirstPrio == 8
Rule(prio, mark, table, suppress) ==
    [prio |-> prio, mark |-> mark, table |-> table, suppress |-> suppress]
LinuxMainRule == Rule(LinuxMainPrio, 0, Main, FALSE)
IsMainRule(r) == r.suppress /\ r.table = Main

NoLink == [present |-> FALSE, index |-> 0, up |-> FALSE, mark |-> 0,
           known |-> FALSE]
NoRow == [present |-> FALSE, enabled |-> FALSE, table |-> "", mark |-> 0,
          save |-> FALSE]
NoFile == [kind |-> "none"]
Broken == [kind |-> "broken"]

VARIABLES
    row,        \* the interface's row
    cidrs,      \* GetAllowedIPs of its peers' rows
    link,       \* the device, its firewall mark, whether wgctrl knows it
    lastIndex,  \* the kernel numbers devices and uses no number twice
    routes,     \* the device's routes
    rules,      \* the policy rules of each family
    file,       \* the configuration file
    queue,      \* the events of each topic
    op,         \* changes under way
    router,     \* the handler that holds the route manager's mutex
    writer,     \* what each writer of the file has read
    clean,      \* the last change met an idle portal and nothing failed since
    ops, faults

world == <<row, cidrs, link, lastIndex>>
kernel == <<routes, rules>>
count == <<ops, faults>>
vars == <<world, kernel, file, queue, op, router, writer, clean, count>>

Topic == {"route:update", "route:remove", "created", "updated", "deleted",
          "peers"}
Writer == {"created", "updated", "peers", "api"}

GetRoutingTable(i) == TableNumber[i.table]
Info(i, ips) == [row |-> i, cidrs |-> ips, mark |-> i.mark,
                 table |-> GetRoutingTable(i)]

Init ==
    /\ row = NoRow /\ cidrs = {} /\ link = NoLink /\ lastIndex = 0
    /\ routes = {} /\ rules = [f \in Family |-> {LinuxMainRule}]
    /\ file = NoFile
    /\ queue = [t \in Topic |-> <<>>]
    /\ op = [s \in Slot |-> Idle]
    /\ router = Idle
    /\ writer = [w \in Writer |-> Idle]
    /\ clean = TRUE
    /\ ops = 0 /\ faults = 0

Quiet ==
    /\ \A s \in Slot : op[s] = Idle
    /\ \A t \in Topic : queue[t] = <<>>
    /\ router = Idle
    /\ \A w \in Writer : writer[w] = Idle

\* The queues after the events es, a set of <<topic, payload>>, are published;
\* no call publishes two events of one topic.
Published(es) ==
    [t \in Topic |-> IF \E e \in es : e[1] = t
                     THEN Append(queue[t], (CHOOSE e \in es : e[1] = t)[2])
                     ELSE queue[t]]
Taken(t) == [queue EXCEPT ![t] = Tail(@)]

-----------------------------------------------------------------------------
(* Changes of the interface and of its peers (wireguard_interfaces.go,     *)
(* wireguard_peers.go).  A change first reads the rows it works with.      *)

Begin(s) ==
    /\ op[s] = Idle /\ ops < MaxOps
    /\ Cardinality({t \in Topic : queue[t] # <<>>}) <= MaxBacklog
    /\ \E kind \in {"save", "delete", "peers"} :
        /\ kind # "save" => row.present
        /\ op' = [op EXCEPT ![s] = [kind |-> kind, at |-> "apply", row |-> row,
                                    cidrs |-> cidrs]]
        /\ IF kind = "delete"
           THEN queue' = Published({<<"route:remove", Info(row, cidrs)>>})
           ELSE UNCHANGED queue
    /\ clean' = Quiet
    /\ ops' = ops + 1
    /\ UNCHANGED <<world, kernel, file, router, writer, faults>>

\* The kernel drops the routes of a device that goes down or away, and adds the
\* route of its address when a plain WireGuard device comes up; for amneziawg-go
\* ensureAWGConnectedRoute does, which may fail unnoticed.
SetLink(new) ==
    LET kept == IF new.up /\ link.up /\ new.index = link.index
                THEN routes ELSE {}
        own  == [cidr |-> Connected, table |-> Main]
    IN  /\ link' = new
        /\ \/ routes' = kept
           \/ new.up /\ routes' = kept \union {own}

\* applyPhysicalInterface: a mark of 0 leaves the mark of the device alone.
\* wgctrl may reject a device of amneziawg-go (local.go:321), which then has no
\* mark.
ApplyPhysicalInterface(new, recreate) ==
    LET fresh == recreate \/ ~link.present
        index == IF fresh THEN lastIndex + 1 ELSE link.index
        mark  == IF new.mark # 0 THEN new.mark
                 ELSE IF fresh THEN 0 ELSE link.mark
    IN  /\ \E known \in IF fresh THEN BOOLEAN ELSE {link.known} :
            SetLink([present |-> TRUE, index |-> index, up |-> new.enabled,
                     mark |-> IF known THEN mark ELSE 0, known |-> known])
        /\ lastIndex' = IF fresh THEN index ELSE lastIndex

\* The events of saveInterface, and the one of its caller.
SaveEvents(old, new, ips, switched) ==
    {<<IF new.enabled THEN "route:update" ELSE "route:remove", Info(new, ips)>>,
     <<IF old.present THEN "updated" ELSE "created", new>>}
    \union (IF new.enabled /\ old.present /\ old.table # new.table
            THEN {<<"route:remove", Info(old, ips)>>} ELSE {})
    \union (IF new.enabled /\ (switched \/ ~old.enabled)
            THEN {<<"peers", new>>} ELSE {})

\* CreateInterface or UpdateInterface; switched is a change between kernel
\* and amneziawg-go, which replaces the device.  A row that is gone is written
\* again: the database upserts.
SaveInterface(s) ==
    /\ op[s].kind = "save"
    /\ \E new \in Wanted, switched \in BOOLEAN :
        LET old == op[s].row
        IN  /\ switched => old.present
            /\ ApplyPhysicalInterface(new, switched)
            /\ row' = new
            /\ queue' = Published(SaveEvents(old, new, op[s].cidrs, switched))
    /\ op' = [op EXCEPT ![s] = Idle]
    /\ UNCHANGED <<cidrs, rules, file, router, writer, clean, count>>

\* DeleteInterface: the device and the rows go, with the peers it had read.
DeleteInterface(s) ==
    /\ op[s].kind = "delete"
    /\ row' = [row EXCEPT !.present = FALSE, !.enabled = FALSE]
    /\ cidrs' = cidrs \ op[s].cidrs
    /\ SetLink(NoLink)
    /\ queue' = Published({<<"deleted", op[s].row>>})
    /\ op' = [op EXCEPT ![s] = Idle]
    /\ UNCHANGED <<lastIndex, rules, file, router, writer, clean, count>>

\* savePeers and DeletePeer: the peers are read again, the interface is not,
\* and its routes are announced whether it is enabled or not.
ChangePeers(s) ==
    /\ op[s].kind = "peers"
    /\ cidrs' \in SUBSET Cidr \ {cidrs}
    /\ queue' = Published({<<"route:update", Info(op[s].row, cidrs')>>,
                           <<"peers", op[s].row>>})
    /\ op' = [op EXCEPT ![s] = Idle]
    /\ UNCHANGED <<row, link, lastIndex, kernel, file, router, writer, clean,
                   count>>

-----------------------------------------------------------------------------
(* The route manager.  Its handlers wait for one mutex.                    *)

ManagementEnabled(info) == info.table # Off

\* handleRouteUpdateEvent, SetRoutes up to the firewall mark of the device;
\* handleRouteRemoveEvent, RemoveRoutes up to the table.
RealMark(info) ==
    IF info.mark # 0 THEN info.mark ELSE RouteTableOffset + link.index
SetTable(info) == IF info.table # 0 THEN info.table ELSE RealMark(info)
RemoveMark(info) ==
    IF info.mark = 0 /\ link.mark # 0 THEN link.mark ELSE RealMark(info)
RemoveTable(info) ==
    IF info.table # 0 THEN info.table
    ELSE IF link.mark # 0 THEN link.mark ELSE RemoveMark(info)

\* A device wgctrl does not know is an error: there is no fallback here.
HandleRouteUpdateEvent ==
    /\ router = Idle /\ queue["route:update"] # <<>>
    /\ LET info == Head(queue["route:update"])
       IN  IF ManagementEnabled(info) /\ link.present /\ link.known
           THEN /\ router' = [kind |-> "set", left |-> <<"v4", "v6">>,
                              cidrs |-> info.cidrs, index |-> link.index,
                              mark |-> RealMark(info), table |-> SetTable(info)]
                /\ link' = [link EXCEPT !.mark = RealMark(info)]
           ELSE UNCHANGED <<router, link>>
    /\ queue' = Taken("route:update")
    /\ UNCHANGED <<row, cidrs, lastIndex, kernel, file, op, writer, clean, count>>

HandleRouteRemoveEvent ==
    /\ router = Idle /\ queue["route:remove"] # <<>>
    /\ LET info == Head(queue["route:remove"])
       IN  IF ManagementEnabled(info) /\ link.present
           THEN router' = [kind |-> "remove", left |-> <<"v4", "v6">>,
                           cidrs |-> info.cidrs, index |-> link.index,
                           mark |-> RemoveMark(info), table |-> RemoveTable(info),
                           named |-> info.table # 0 \/ link.mark # 0]
           ELSE UNCHANGED router
    /\ queue' = Taken("route:remove")
    /\ UNCHANGED <<world, kernel, file, op, writer, clean, count>>

\* getMainRulePriority counts up, getRulePriority counts down.
Prios(rs) == {r.prio : r \in rs}
MainRulePriority(rs) == Min((RulePrioOffset .. 20) \ Prios(rs))
RulePriority(rs) == Max((1 .. FirstPrio) \ Prios(rs))

\* The loop that keeps one of the main rules: from the second one on, it
\* removes every rule that follows.
CleanMainRules(rs) ==
    LET mains == {r.prio : r \in {q \in rs : IsMainRule(q)}}
    IN  {r \in rs : Cardinality({p \in mains : p <= r.prio}) <= 1}

\* The rules SetRoutes adds; the one for the main table may be lost, because
\* nobody looks at that error.
OwnRule(rs) ==
    IF \E r \in rs : r.mark = router.mark /\ r.table = router.table THEN {}
    ELSE {Rule(RulePriority(rs), router.mark, router.table, FALSE)}
MainRule(rs, f) ==
    IF \/ \E r \in rs : IsMainRule(r)
       \/ CidrsOf(router.cidrs, f) \intersect DefaultRoute = {}
    THEN {}
    ELSE {Rule(MainRulePriority(rs), 0, Main, TRUE)}

\* The device the handler found is still the one there, and takes routes.
Routable == link.present /\ link.index = router.index /\ link.up
FamilyRoutes(f) == {r \in routes : r.cidr \in IF f = "v4"
                                              THEN CidrV4 \union {Connected}
                                              ELSE CidrV6}
WantedRoutes(f) ==
    {[cidr |-> c, table |-> router.table] : c \in CidrsOf(router.cidrs, f)}
\* routes of a network nobody asked for, in whatever table
StaleRoutes(f) == {r \in FamilyRoutes(f) : r.cidr \notin router.cidrs}

\* what RemoveRoutes takes away: the networks it was told of, in its table
OldRoutesAnyTable(f) == {r \in FamilyRoutes(f) : r.cidr \in router.cidrs}
OldRoutes(f) ==
    {r \in FamilyRoutes(f) : r.cidr \in router.cidrs /\ r.table = router.table}

NextFamily(done) ==
    router' = IF done THEN Idle ELSE [router EXCEPT !.left = Tail(@)]

SetRoutesForFamily ==
    /\ router.kind = "set" /\ router.left # <<>>
    /\ LET f == Head(router.left)
       IN  IF WantedRoutes(f) # {} /\ ~Routable
           THEN NextFamily(TRUE) /\ UNCHANGED kernel
                /\ UNCHANGED <<clean, faults>>
           ELSE /\ routes' = (routes \union WantedRoutes(f)) \ StaleRoutes(f)
                /\ LET added == rules[f] \union OwnRule(rules[f])
                       main  == MainRule(rules[f], f)
                   IN  \/ /\ rules' = [rules EXCEPT ![f] =
                                            CleanMainRules(added \union main)]
                          /\ UNCHANGED <<clean, faults>>
                       \/ /\ main # {} /\ faults < MaxFaults
                          /\ rules' = [rules EXCEPT ![f] = CleanMainRules(added)]
                          /\ clean' = FALSE /\ faults' = faults + 1
                /\ NextFamily(FALSE)
    /\ UNCHANGED <<world, file, queue, op, writer, ops>>

\* The end of SetRoutes: the cleanup took the route of the interface's own
\* address along.
RestoreConnectedRoute ==
    /\ router.kind = "set" /\ router.left = <<>>
    /\ routes' = IF link.up
                 THEN routes \union {[cidr |-> Connected, table |-> Main]}
                 ELSE routes
    /\ router' = Idle
    /\ UNCHANGED <<world, rules, file, queue, op, writer, clean, count>>

RemoveRoutesForFamily ==
    /\ router.kind = "remove" /\ router.left # <<>>
    /\ LET f == Head(router.left)
       IN  /\ rules' = [rules EXCEPT ![f] =
                {r \in @ : r.mark # router.mark \/ r.table # router.table}]
           /\ routes' = IF link.index = router.index
                        THEN routes \ OldRoutes(f) ELSE routes
    /\ NextFamily(FALSE)
    /\ UNCHANGED <<world, file, queue, op, writer, clean, count>>

\* Both families at once; with no table to name there is nothing to do.
RemoveRouteRulesForTable ==
    /\ router.kind = "remove" /\ router.left = <<>>
    /\ rules' = IF router.named
                THEN [f \in Family |->
                        {r \in rules[f] : r.table # router.table}]
                ELSE rules
    /\ router' = Idle
    /\ UNCHANGED <<world, routes, file, queue, op, writer, clean, count>>

\* A request to the kernel fails: the handler logs and gives up.  What it did
\* before remains: some routes set, or all of them and some old ones removed, or
\* all that and some rules added.
SetRoutesFails(f) ==
    LET set  == IF Routable THEN WantedRoutes(f) ELSE {}
        add  == OwnRule(rules[f]) \union MainRule(rules[f], f)
    IN  \E done \in SUBSET set, gone \in SUBSET StaleRoutes(f),
           added \in SUBSET add :
            /\ gone # {} => done = set
            /\ added # {} => done = WantedRoutes(f) /\ gone = StaleRoutes(f)
            /\ routes' = (routes \union done) \ gone
            /\ rules' = [rules EXCEPT ![f] = @ \union added]

\* RemoveRoutes takes the rules first.
RemoveRoutesFails(f) ==
    LET own == {r \in rules[f] : r.mark = router.mark /\ r.table = router.table}
        old == IF link.index = router.index THEN OldRoutes(f) ELSE {}
    IN  \/ /\ \E gone \in SUBSET own : rules' = [rules EXCEPT ![f] = @ \ gone]
           /\ UNCHANGED routes
        \/ /\ rules' = [rules EXCEPT ![f] = @ \ own]
           /\ \E gone \in SUBSET old : routes' = routes \ gone

RoutingFails ==
    /\ router # Idle /\ faults < MaxFaults
    /\ \/ router.left = <<>> /\ UNCHANGED kernel
       \/ /\ router.left # <<>> /\ router.kind = "set"
          /\ SetRoutesFails(Head(router.left))
       \/ /\ router.left # <<>> /\ router.kind = "remove"
          /\ RemoveRoutesFails(Head(router.left))
    /\ router' = Idle
    /\ clean' = FALSE
    /\ faults' = faults + 1
    /\ UNCHANGED <<world, file, queue, op, writer, ops>>

\* wg-quick or an administrator adds a rule of its own that suppresses the
\* default route of the main table, above the others.
ForeignMainRule ==
    /\ ops < MaxOps /\ ops' = ops + 1
    /\ \E f \in Family :
        /\ Cardinality({r \in rules[f] : IsMainRule(r)}) < MaxMainRules
        /\ \A r \in rules[f] : r.prio > 1
        /\ rules' = [rules EXCEPT ![f] = @ \union {Rule(1, 0, Main, TRUE)}]
    /\ UNCHANGED <<world, routes, file, queue, op, router, writer, clean, faults>>

-----------------------------------------------------------------------------
(* The configuration file.                                                 *)

Contents == [kind |-> "file", row |-> row, cidrs |-> cidrs]

\* PersistInterfaceConfig reads the rows; GetInterfaceAndPeers fails when the
\* interface is gone.
ReadConfig(w) ==
    writer' = [writer EXCEPT ![w] = IF row.present THEN Contents ELSE Idle]

\* The event's own copy of the row says whether to write a file.
HandleInterfaceSavedEvent(t) ==
    /\ t \in {"created", "updated"}
    /\ writer[t] = Idle /\ queue[t] # <<>>
    /\ IF Head(queue[t]).save THEN ReadConfig(t) ELSE UNCHANGED writer
    /\ queue' = Taken(t)
    /\ UNCHANGED <<world, kernel, file, op, router, clean, count>>

\* The event has only the identifier: the row says whether to write.
HandlePeerInterfaceUpdatedEvent ==
    /\ writer["peers"] = Idle /\ queue["peers"] # <<>>
    /\ IF row.present /\ row.save THEN ReadConfig("peers") ELSE UNCHANGED writer
    /\ queue' = Taken("peers")
    /\ UNCHANGED <<world, kernel, file, op, router, clean, count>>

\* handleSaveConfigPost: somebody asks for the file, whatever the row says.
HandleSaveConfigPost ==
    /\ writer["api"] = Idle /\ ops < MaxOps
    /\ ReadConfig("api")
    /\ clean' = (clean /\ Quiet)
    /\ ops' = ops + 1
    /\ UNCHANGED <<world, kernel, file, queue, op, router, faults>>

\* WriteFile truncates the file and then copies the contents.
WriteFile(w) ==
    /\ writer[w] # Idle
    /\ \/ file' = writer[w] /\ UNCHANGED <<clean, faults>>
       \/ /\ faults < MaxFaults
          /\ file' \in {file, Broken}
          /\ clean' = FALSE /\ faults' = faults + 1
    /\ writer' = [writer EXCEPT ![w] = Idle]
    /\ UNCHANGED <<world, kernel, queue, op, router, ops>>

HandleInterfaceDeleteEvent ==
    /\ queue["deleted"] # <<>>
    /\ IF Head(queue["deleted"]).save
       THEN \/ file' = NoFile /\ UNCHANGED <<clean, faults>>
            \/ /\ faults < MaxFaults /\ UNCHANGED file
               /\ clean' = FALSE /\ faults' = faults + 1
       ELSE UNCHANGED <<file, clean, faults>>
    /\ queue' = Taken("deleted")
    /\ UNCHANGED <<world, kernel, op, router, writer, ops>>

-----------------------------------------------------------------------------
Changes == \E s \in Slot :
    Begin(s) \/ SaveInterface(s) \/ DeleteInterface(s) \/ ChangePeers(s)

RouteManager ==
    \/ HandleRouteUpdateEvent \/ HandleRouteRemoveEvent
    \/ SetRoutesForFamily \/ RestoreConnectedRoute
    \/ RemoveRoutesForFamily \/ RemoveRouteRulesForTable
    \/ RoutingFails

ConfigFiles ==
    \/ \E t \in {"created", "updated"} : HandleInterfaceSavedEvent(t)
    \/ HandlePeerInterfaceUpdatedEvent \/ HandleInterfaceDeleteEvent
    \/ HandleSaveConfigPost
    \/ \E w \in Writer : WriteFile(w)

Next == Changes \/ RouteManager \/ ConfigFiles \/ ForeignMainRule

Spec == Init /\ [][Next]_vars

-----------------------------------------------------------------------------
(* Properties.                                                             *)

\* The firewall marks that devices can have, and the tables they do not share: no
\* table that a row names is the mark of a device, which is the table of a row that
\* names none; no two names stand for one table; nobody uses the main table.
Marks == ({w.mark : w \in Wanted} \ {0}) \union {m \in Nat : m > RouteTableOffset}
TablesApart ==
    /\ \A w \in Wanted : GetRoutingTable(w) \notin Marks \union {Main}
    /\ \A v, w \in Wanted : GetRoutingTable(v) = GetRoutingTable(w) =>
          v.table = w.table \/ GetRoutingTable(w) = Off
    /\ Main \notin Marks

Managed == row.enabled /\ GetRoutingTable(row) # Off
WantedTable == IF GetRoutingTable(row) # 0 THEN GetRoutingTable(row) ELSE link.mark

\* The kernel sends exactly what the row and the peers ask for into the tunnel:
\* to each network in the interface's table, to no other network in any table,
\* to its own network in the main table; marked packets find that table, and a
\* default route does not hide the other routes of the main table.
Routed ==
    /\ {r.cidr : r \in routes} = cidrs \union {Connected}
    /\ \A c \in cidrs : [cidr |-> c, table |-> WantedTable] \in routes
    /\ [cidr |-> Connected, table |-> Main] \in routes
    /\ \A f \in Family :
        /\ \E r \in rules[f] : r.mark = link.mark /\ r.table = WantedTable
        /\ CidrsOf(cidrs, f) \intersect DefaultRoute # {} =>
            \E r \in rules[f] : IsMainRule(r)
RoutesFollow ==
    /\ Managed /\ link.known => Routed
    /\ ~row.enabled => routes = {}

\* The file says what the rows say; an interface that is gone has left none.
FileFollows ==
    row.save => file = IF row.present THEN Contents ELSE NoFile

\* Once every event is handled, routes and file agree with the rows, if the last
\* change met an idle portal and nothing failed since: whatever earlier changes
\* left behind that overlapped or failed half way is healed by the next one.
\* (routes.go:92, local.go:904, configfile/manager.go:121)
FollowersAgree == Quiet /\ clean => RoutesFollow /\ FileFollows

\* The kernel's own rule for the main table is nobody's to remove ("clean up
\* extra main rules - only one rule is allowed", local.go:1063).
LinuxRuleStays == \A f \in Family : LinuxMainRule \in rules[f]

\* SetRoutes serves devices of amneziawg-go, too ("This affects ALL interfaces:
\* AWG TUN", local.go:940).
AwgRoutesFollow == Quiet /\ clean /\ Managed => Routed
=============================================================================
