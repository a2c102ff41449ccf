------------------------- MODULE RemoteBackendProofs -------------------------
(***************************************************************************)
(* Two results about the operations on a remote device (RemoteBackend),    *)
(* for any number of operations at the same time, of addresses, servers,   *)
(* routes and faults.                                                      *)
(*                                                                         *)
(* They leave alone what is not the portal's.  The list of DNS servers is  *)
(* written back as it was read, so coreMutex has to cover both requests.   *)
(* Routes are deleted from a list that was made earlier, so nothing        *)
(* dynamic may ever enter it.                                              *)
(*                                                                         *)
(* And an operation that reports success has done what it was asked for.   *)
(* Success is reported requests later than the state it speaks of, so the  *)
(* invariant says what every operation has reached at each of its          *)
(* positions: the mutexes, and for routes the absence of overlap, keep     *)
(* what was reached until the operation returns.                           *)
(***************************************************************************)
EXTENDS RemoteBackend, TLAPS

ServerKinds == {"setDNS", "unsetDNS"}

Has(o, fields) == fields \subseteq DOMAIN o /\ o = [f \in DOMAIN o |-> o[f]]

\* an operation on servers holds the mutex "core", and what it has read still is
\* the list of the device
ServersCovered(s, o, core, list) ==
    o.kind \in ServerKinds =>
        /\ Has(o, {"kind", "pos", "read", "servers"})
        /\ core = s
        /\ o.pos = "set" => o.read = list

\* an operation on routes is about to delete routes of its own only
RoutesOwned(o) ==
    o.kind \in RouteKinds =>
        /\ Has(o, {"kind", "pos", "table", "overlap", "family", "read", "todo"})
        /\ o.pos = "delete" => \A r \in o.todo : ~ r.dynamic
        /\ o.kind = "removeRoutes" /\ o.pos = "removeTable" => o.table # Main

Careful(s, o, core, list) ==
    Has(o, {"kind"}) /\ ServersCovered(s, o, core, list) /\ RoutesOwned(o)

Functions ==
    /\ op = [s \in Slot |-> op[s]]
    /\ lock = [m \in Mutex |-> lock[m]]
    /\ routes = [r \in Route |-> routes[r]]

Inv ==
    /\ Functions
    /\ Main \in tables
    /\ \A s \in Slot : Careful(s, op[s], lock["core"], dns)

\* what ForeignStays asks of a step
Foreign ==
    /\ \A r \in Route : r.dynamic => routes'[r] = routes[r]
    /\ Main \in tables'
    /\ \A x \in dns \ dns' : \E s \in Slot : op[s].kind = "unsetDNS" /\ x \in op[s].servers

---------------------------------------------------------------------------
(* Steps of one operation *)

\* an operation moves on; the list of servers changes only under its mutex
LEMMA MoveStep ==
    ASSUME Inv, NEW s \in Slot, NEW o2, op' = [op EXCEPT ![s] = o2],
           lock' = [m \in Mutex |-> lock'[m]], routes' = [r \in Route |-> routes'[r]],
           \A x \in Slot : x # s /\ lock["core"] = x => lock'["core"] = x,
           Careful(s, o2, lock'["core"], dns'),
           dns' = dns \/ lock["core"] = s,
           Main \in tables'
    PROVE  Inv'
  <1>1. Functions' BY DEF Inv, Functions
  <1>2. ASSUME NEW x \in Slot PROVE Careful(x, op'[x], lock'["core"], dns')
    <2>1. CASE x = s
      <3>1. op'[x] = o2 BY <2>1 DEF Inv, Functions
      <3> QED BY <2>1, <3>1
    <2>2. CASE x # s
      <3>1. op'[x] = op[x] BY <2>2 DEF Inv, Functions
      <3>2. Careful(x, op[x], lock["core"], dns) BY DEF Inv
      <3>3. op[x].kind \in ServerKinds => lock["core"] = x BY <3>2 DEF Careful, ServersCovered
      <3>4. op[x].kind \in ServerKinds => dns' = dns /\ lock'["core"] = x BY <2>2, <3>3
      <3> QED BY <3>1, <3>2, <3>4 DEF Careful, ServersCovered
    <2> QED BY <2>1, <2>2
  <1> QED BY <1>1, <1>2 DEF Inv

\* ... without touching servers, tables, routes or locks
LEMMA QuietStep ==
    ASSUME Inv, NEW s \in Slot, NEW o2, op' = [op EXCEPT ![s] = o2],
           Careful(s, o2, lock["core"], dns), UNCHANGED <<lock, dns, tables, routes>>
    PROVE  Inv' /\ Foreign
  <1>1. Inv' BY MoveStep DEF Inv, Functions
  <1>2. Foreign BY DEF Inv, Foreign
  <1> QED BY <1>1, <1>2

\* ... of an operation on interfaces or peers, which the invariant asks nothing of
LEMMA OtherStep ==
    ASSUME Inv, NEW s \in Slot, NEW o2, op' = [op EXCEPT ![s] = o2],
           op[s].kind \notin ServerKinds \union RouteKinds,
           Has(o2, {"kind"}), o2.kind = op[s].kind,
           UNCHANGED <<lock, dns, tables, routes>>
    PROVE  Inv' /\ Foreign
  <1>1. Careful(s, o2, lock["core"], dns) BY DEF Careful, ServersCovered, RoutesOwned
  <1> QED BY <1>1, QuietStep

\* ... which only goes to another position
LEMMA OtherThen ==
    ASSUME Inv, NEW s \in Slot, NEW p, Then(s, p),
           op[s].kind \notin ServerKinds \union RouteKinds,
           UNCHANGED <<lock, dns, tables, routes>>
    PROVE  Inv' /\ Foreign
  <1> DEFINE o2 == [op[s] EXCEPT !.pos = p]
  <1>1. op' = [op EXCEPT ![s] = o2] BY DEF Then
  <1>2. Has(op[s], {"kind"}) BY DEF Inv, Careful
  <1>3. Has(o2, {"kind"}) /\ o2.kind = op[s].kind BY <1>2 DEF Has
  <1> HIDE DEF o2
  <1> QED BY <1>1, <1>3, OtherStep

\* an operation on servers goes to a position other than "set"
LEMMA ServersThen ==
    ASSUME Inv, NEW s \in Slot, NEW p, p # "set", op[s].kind \in ServerKinds,
           NEW core, NEW list, core = s
    PROVE  Careful(s, [op[s] EXCEPT !.pos = p], core, list)
  <1> DEFINE o2 == [op[s] EXCEPT !.pos = p]
  <1>1. Has(op[s], {"kind", "pos", "read", "servers"})
    BY DEF Inv, Careful, ServersCovered
  <1>2. /\ Has(o2, {"kind", "pos", "read", "servers"})
        /\ o2.kind = op[s].kind /\ o2.pos = p
    BY <1>1 DEF Has
  <1>3. Has(o2, {"kind"}) BY <1>2 DEF Has
  <1> HIDE DEF o2
  <1>4. Careful(s, o2, core, list)
    BY <1>2, <1>3 DEF Careful, ServersCovered, RoutesOwned, ServerKinds, RouteKinds
  <1> QED BY <1>4 DEF o2

\* an operation on routes goes to a position that nothing is asked of
LEMMA RoutesThen ==
    ASSUME Inv, NEW s \in Slot, NEW p, p \notin {"delete", "removeTable"},
           op[s].kind \in RouteKinds, NEW core, NEW list
    PROVE  Careful(s, [op[s] EXCEPT !.pos = p], core, list)
  <1> DEFINE o2 == [op[s] EXCEPT !.pos = p]
             F == {"kind", "pos", "table", "overlap", "family", "read", "todo"}
  <1>1. Has(op[s], F) BY DEF Inv, Careful, RoutesOwned
  <1>2. Has(o2, F) /\ o2.kind = op[s].kind /\ o2.pos = p BY <1>1 DEF Has
  <1>3. Has(o2, {"kind"}) BY <1>2 DEF Has
  <1> HIDE DEF o2
  <1>4. Careful(s, o2, core, list)
    BY <1>2, <1>3 DEF Careful, ServersCovered, RoutesOwned, ServerKinds, RouteKinds
  <1> QED BY <1>4 DEF o2

\* requests on the interface or the peer leave everything else alone
LEMMA OtherWrites ==
    ASSUME Inv, NEW s \in Slot, NEW e, NEW p, Writes(s, e, p), Steps,
           e => UNCHANGED <<dns, tables, routes>>,
           op[s].kind \notin ServerKinds \union RouteKinds
    PROVE  Inv' /\ Foreign
  <1>1. UNCHANGED lock BY DEF Steps
  <1>2. UNCHANGED <<dns, tables, routes>> BY DEF Writes, RequestFails, router
  <1>3. Then(s, p) \/ Then(s, "error") BY DEF Writes
  <1> QED BY <1>1, <1>2, <1>3, OtherThen

---------------------------------------------------------------------------
(* Operations that begin or end *)

LEMMA BeginsKeep == ASSUME Inv, NEW s \in Slot, Begins(s) PROVE Inv' /\ Foreign
  <1>1. ASSUME NEW rec, Start(s, rec), UNCHANGED lock, Has(rec, {"kind"}),
               rec.kind \notin ServerKinds \union RouteKinds
        PROVE  Inv' /\ Foreign
    <2>1. Careful(s, rec, lock["core"], dns) BY <1>1 DEF Careful, ServersCovered, RoutesOwned
    <2>2. op' = [op EXCEPT ![s] = rec] /\ UNCHANGED <<lock, dns, tables, routes>>
      BY <1>1 DEF Start, Goto, router
    <2> QED BY <2>1, <2>2, QuietStep
  <1>2. ASSUME NEW m \in {"interface", "peer"}, NEW rec, StartLocked(s, m, rec),
               Has(rec, {"kind"}), rec.kind \notin ServerKinds \union RouteKinds
        PROVE  Inv' /\ Foreign
    <2>1. /\ op' = [op EXCEPT ![s] = rec] /\ UNCHANGED <<dns, tables, routes>>
          /\ lock' = [lock EXCEPT ![m] = s]
      BY <1>2 DEF StartLocked, Start, Goto, router
    <2>2. lock' = [k \in Mutex |-> lock'[k]] /\ lock'["core"] = lock["core"]
      BY <2>1 DEF Inv, Functions, Mutex
    <2>3. Careful(s, rec, lock'["core"], dns') BY <1>2 DEF Careful, ServersCovered, RoutesOwned
    <2>4. Inv' BY <2>1, <2>2, <2>3, MoveStep DEF Inv, Functions
    <2>5. Foreign BY <2>1 DEF Inv, Foreign
    <2> QED BY <2>4, <2>5
  <1>3. CASE GetInterfaces(s)
    <2> DEFINE rec == [kind |-> "list", pos |-> "loading", todo |-> Name, running |-> {},
                       got |-> {}, failed |-> FALSE]
    <2>1. Start(s, rec) /\ UNCHANGED lock BY <1>3 DEF GetInterfaces
    <2>2. Has(rec, {"kind"}) /\ rec.kind \notin ServerKinds \union RouteKinds
      BY DEF Has, ServerKinds, RouteKinds
    <2> HIDE DEF rec
    <2> QED BY <1>1, <2>1, <2>2
  <1>4. CASE SaveInterface(s)
    <2>1. PICK want \in WantedInterface :
            StartLocked(s, "interface", [kind |-> "saveInterface", pos |-> "query", want |-> want,
                                         found |-> FALSE, obsolete |-> {}, new |-> {}])
      BY <1>4 DEF SaveInterface
    <2> DEFINE rec == [kind |-> "saveInterface", pos |-> "query", want |-> want,
                       found |-> FALSE, obsolete |-> {}, new |-> {}]
    <2>2. Has(rec, {"kind"}) /\ rec.kind \notin ServerKinds \union RouteKinds
      BY DEF Has, ServerKinds, RouteKinds
    <2>3. StartLocked(s, "interface", rec) BY <2>1
    <2> HIDE DEF rec
    <2> QED BY <1>2, <2>2, <2>3
  <1>5. CASE DeleteInterface(s)
    <2> DEFINE rec == [kind |-> "deleteInterface",
                       pos |-> IF backend = "mikrotik" THEN "addresses" ELSE "query"]
    <2>1. StartLocked(s, "interface", rec) BY <1>5 DEF DeleteInterface
    <2>2. Has(rec, {"kind"}) /\ rec.kind \notin ServerKinds \union RouteKinds
      BY DEF Has, ServerKinds, RouteKinds
    <2> HIDE DEF rec
    <2> QED BY <1>2, <2>1, <2>2
  <1>6. CASE SavePeer(s)
    <2>1. PICK want \in WantedPeer :
            StartLocked(s, "peer", [kind |-> "savePeer", pos |-> "query", want |-> want])
      BY <1>6 DEF SavePeer
    <2> DEFINE rec == [kind |-> "savePeer", pos |-> "query", want |-> want]
    <2>2. Has(rec, {"kind"}) /\ rec.kind \notin ServerKinds \union RouteKinds
      BY DEF Has, ServerKinds, RouteKinds
    <2>3. StartLocked(s, "peer", rec) BY <2>1
    <2> HIDE DEF rec
    <2> QED BY <1>2, <2>2, <2>3
  <1>7. CASE DeletePeer(s)
    <2> DEFINE rec == [kind |-> "deletePeer", pos |-> "query"]
    <2>1. StartLocked(s, "peer", rec) BY <1>7 DEF DeletePeer
    <2>2. Has(rec, {"kind"}) /\ rec.kind \notin ServerKinds \union RouteKinds
      BY DEF Has, ServerKinds, RouteKinds
    <2> HIDE DEF rec
    <2> QED BY <1>2, <2>1, <2>2
  <1>8. ASSUME NEW kind \in ServerKinds, SetDNS(s, kind) PROVE Inv' /\ Foreign
    <2>1. PICK servers :
            StartLocked(s, "core", [kind |-> kind, servers |-> servers, read |-> {},
                                    pos |-> IF ManagesServers THEN "get" ELSE "ok"])
      BY <1>8 DEF SetDNS
    <2> DEFINE p == IF ManagesServers THEN "get" ELSE "ok"
               rec == [kind |-> kind, servers |-> servers, read |-> {}, pos |-> p]
    <2>2. StartLocked(s, "core", rec) BY <2>1
    <2>3. p # "set" OBVIOUS
    <2> HIDE DEF p
    <2>4. /\ Has(rec, {"kind", "pos", "read", "servers"}) /\ Has(rec, {"kind"})
          /\ rec.kind \in ServerKinds /\ rec.pos # "set"
      BY <1>8, <2>3 DEF Has
    <2> HIDE DEF rec
    <2>5. /\ op' = [op EXCEPT ![s] = rec] /\ UNCHANGED <<dns, tables, routes>>
          /\ lock' = [lock EXCEPT !["core"] = s] /\ lock["core"] = Free
      BY <2>2 DEF StartLocked, Start, Goto, router
    <2>6. lock' = [k \in Mutex |-> lock'[k]] /\ lock'["core"] = s
      BY <2>5 DEF Inv, Functions, Mutex
    <2>7. Careful(s, rec, lock'["core"], dns')
      BY <2>4, <2>6 DEF Careful, ServersCovered, RoutesOwned, ServerKinds, RouteKinds
    <2>8. \A x \in Slot : x # s => ~ (lock["core"] = x) BY <2>5, FreeAssumption
    <2>9. Inv' BY <2>5, <2>6, <2>7, <2>8, MoveStep DEF Inv, Functions
    <2>10. Foreign BY <2>5 DEF Inv, Foreign
    <2> QED BY <2>9, <2>10
  <1>9. ASSUME NEW kind \in RouteKinds, Routing(s, kind) PROVE Inv' /\ Foreign
    <2> DEFINE p == IF ~ ManagesRoutes THEN "ok"
                    ELSE IF kind = "setRoutes" THEN "table" ELSE "query"
               New(cidrs, t) == [kind |-> kind, cidrs |-> cidrs, table |-> t,
                                 overlap |-> Overlap(s), family |-> CidrV4,
                                 read |-> {}, todo |-> {}, pos |-> p]
    <2>1. p \notin {"delete", "removeTable"} OBVIOUS
    <2>2. PICK cidrs \in SUBSET Cidr, t \in Table \union {Main} :
            op' = [x \in Slot |->
                     IF x = s THEN New(cidrs, t)
                     ELSE IF op[x].kind \in RouteKinds THEN [op[x] EXCEPT !.overlap = TRUE]
                     ELSE op[x]]
      BY <1>9, Zenon DEF Routing
    <2> HIDE DEF p
    <2>3. UNCHANGED <<lock, dns, tables, routes>> BY <1>9 DEF Routing, router
    <2>4. ASSUME NEW x \in Slot PROVE Careful(x, op'[x], lock["core"], dns)
      <3>1. CASE x = s
        <4> DEFINE rec == New(cidrs, t)
        <4>1. op'[x] = rec BY <2>2, <3>1
        <4>2. /\ Has(rec, {"kind", "pos", "table", "overlap", "family", "read", "todo"})
              /\ Has(rec, {"kind"}) /\ rec.kind = kind /\ rec.pos = p
          BY DEF Has
        <4> HIDE DEF rec
        <4>3. Careful(x, rec, lock["core"], dns)
          BY <1>9, <2>1, <4>2
             DEF Careful, ServersCovered, RoutesOwned, ServerKinds, RouteKinds
        <4> QED BY <4>1, <4>3
      <3>2. CASE x # s /\ op[x].kind \in RouteKinds
        <4> DEFINE o2 == [op[x] EXCEPT !.overlap = TRUE]
                   F == {"kind", "pos", "table", "overlap", "family", "read", "todo"}
        <4>1. op'[x] = o2 BY <2>2, <3>2
        <4>2. Careful(x, op[x], lock["core"], dns) BY DEF Inv
        <4>3. Has(op[x], F) BY <3>2, <4>2 DEF Careful, RoutesOwned
        <4>4. /\ Has(o2, F) /\ o2.kind = op[x].kind /\ o2.pos = op[x].pos
              /\ o2.todo = op[x].todo /\ o2.table = op[x].table
          BY <4>3 DEF Has
        <4>5. Has(o2, {"kind"}) BY <4>4 DEF Has
        <4> HIDE DEF o2
        <4>6. Careful(x, o2, lock["core"], dns)
          BY <3>2, <4>2, <4>4, <4>5
             DEF Careful, ServersCovered, RoutesOwned, ServerKinds, RouteKinds
        <4> QED BY <4>1, <4>6
      <3>3. CASE x # s /\ op[x].kind \notin RouteKinds
        <4>1. op'[x] = op[x] BY <2>2, <3>3
        <4> QED BY <4>1 DEF Inv
      <3> QED BY <3>1, <3>2, <3>3
    <2>5. Functions' BY <2>2, <2>3 DEF Inv, Functions
    <2>6. Inv' BY <2>3, <2>4, <2>5 DEF Inv
    <2>7. Foreign BY <2>3 DEF Inv, Foreign
    <2> QED BY <2>6, <2>7
  <1> QED BY <1>3, <1>4, <1>5, <1>6, <1>7, <1>8, <1>9 DEF Begins, ServerKinds, RouteKinds

LEMMA ReturnKeeps == ASSUME Inv, NEW s \in Slot, Return(s) PROVE Inv' /\ Foreign
  <1>1. /\ op' = [op EXCEPT ![s] = Idle] /\ UNCHANGED <<dns, tables, routes>>
        /\ lock' = [m \in Mutex |-> IF lock[m] = s THEN Free ELSE lock[m]]
    BY DEF Return, Goto, router
  <1>2. \A x \in Slot : x # s /\ lock["core"] = x => lock'["core"] = x
    BY <1>1 DEF Mutex
  <1>3. Careful(s, Idle, lock'["core"], dns')
    <2>1. Has(Idle, {"kind"}) /\ Idle.kind = "idle" BY DEF Has, Idle
    <2> QED BY <2>1 DEF Careful, ServersCovered, RoutesOwned, ServerKinds, RouteKinds
  <1>4. lock' = [m \in Mutex |-> lock'[m]] BY <1>1
  <1>5. Inv' BY <1>1, <1>2, <1>3, <1>4, MoveStep DEF Inv, Functions
  <1>6. Foreign BY <1>1 DEF Inv, Foreign
  <1> QED BY <1>5, <1>6

---------------------------------------------------------------------------
(* Interfaces and peers *)

LEMMA InterfacesAndPeersKeep ==
    ASSUME Inv, NEW s \in Slot,
           \/ \E n \in Name : LoadWorkerStarts(s, n) \/ LoadWorkerEnds(s, n)
           \/ GetInterfacesEnds(s)
           \/ QueryInterface(s) \/ CreateInterface(s) \/ LoadInterfaceData(s)
           \/ UpdateInterface(s) \/ LoadIpAddresses(s) \/ AddressesDone(s)
           \/ \E a \in Address : DeleteAddress(s, a) \/ CreateAddress(s, a)
           \/ DeleteInterfaceAddress(s) \/ DeleteInterfaceQuery(s) \/ DeleteInterfaceObject(s)
           \/ QueryPeer(s) \/ CreatePeer(s) \/ UpdatePeer(s)
           \/ DeletePeerQuery(s) \/ DeletePeerObject(s)
    PROVE  Inv' /\ Foreign
  <1>1. Has(op[s], {"kind"}) BY DEF Inv, Careful
  <1>2. ASSUME NEW p, NEW kind, NEW pos, At(s, kind, pos), Then(s, p), Steps,
               kind \notin ServerKinds \union RouteKinds, UNCHANGED <<dns, tables, routes>>
        PROVE  Inv' /\ Foreign
    BY <1>2, OtherThen DEF At, Steps
  <1>3. ASSUME NEW kind, NEW pos, NEW e, NEW p, At(s, kind, pos), Writes(s, e, p), Steps,
               kind \notin ServerKinds \union RouteKinds,
               e => UNCHANGED <<dns, tables, routes>>
        PROVE  Inv' /\ Foreign
    BY <1>3, OtherWrites DEF At
  <1>4. ASSUME NEW kind, NEW pos, NEW o2, At(s, kind, pos), Goto(s, o2), Steps,
               Has(o2, {"kind"}), o2.kind = op[s].kind,
               kind \notin ServerKinds \union RouteKinds, UNCHANGED <<dns, tables, routes>>
        PROVE  Inv' /\ Foreign
    <2>1. op' = [op EXCEPT ![s] = o2] /\ UNCHANGED lock /\ op[s].kind = kind
      BY <1>4 DEF Goto, Steps, At
    <2> QED BY <1>4, <2>1, OtherStep
  <1>5. /\ "list" \notin ServerKinds \union RouteKinds
        /\ "saveInterface" \notin ServerKinds \union RouteKinds
        /\ "deleteInterface" \notin ServerKinds \union RouteKinds
        /\ "savePeer" \notin ServerKinds \union RouteKinds
        /\ "deletePeer" \notin ServerKinds \union RouteKinds
    BY DEF ServerKinds, RouteKinds
  <1>6. ASSUME NEW n \in Name, LoadWorkerStarts(s, n) PROVE Inv' /\ Foreign
    <2> DEFINE o == op[s]
               todo == o.todo \ {n}
               running == IF o.failed THEN o.running ELSE o.running \union {n}
               o2 == [o EXCEPT !.todo = todo, !.running = running]
    <2>1. Goto(s, o2) /\ At(s, "list", "loading") /\ Steps /\ UNCHANGED <<dns, tables, routes>>
      BY <1>6 DEF LoadWorkerStarts, router
    <2> HIDE DEF todo, running
    <2>2. Has(o2, {"kind"}) /\ o2.kind = o.kind BY <1>1 DEF Has
    <2> HIDE DEF o2
    <2> QED BY <1>4, <1>5, <2>1, <2>2
  <1>7. ASSUME NEW n \in Name, LoadWorkerEnds(s, n) PROVE Inv' /\ Foreign
    <2> DEFINE o == op[s]
               running == o.running \ {n}
               got == o.got \union {n}
               o2 == [o EXCEPT !.running = running, !.got = got]
               o3 == [o EXCEPT !.running = running, !.failed = TRUE]
    <2>1. /\ Goto(s, o2) \/ Goto(s, o3)
          /\ At(s, "list", "loading") /\ Steps /\ UNCHANGED <<dns, tables, routes>>
      BY <1>7 DEF LoadWorkerEnds, Reads, ReadFails, router
    <2> HIDE DEF running, got
    <2>2. /\ Has(o2, {"kind"}) /\ o2.kind = o.kind
          /\ Has(o3, {"kind"}) /\ o3.kind = o.kind
      BY <1>1 DEF Has
    <2> HIDE DEF o2, o3
    <2> QED BY <1>4, <1>5, <2>1, <2>2
  <1>8. CASE GetInterfacesEnds(s)
    BY <1>2, <1>5, <1>8 DEF GetInterfacesEnds, router
  <1>9. CASE QueryInterface(s)
    <2> DEFINE pos == IF device.present THEN "load" ELSE "create"
               o2 == [op[s] EXCEPT !.pos = pos, !.found = TRUE]
    <2>1. /\ At(s, "saveInterface", "query") /\ Steps /\ UNCHANGED <<dns, tables, routes>>
          /\ Goto(s, o2) \/ Then(s, "create")
      BY <1>9 DEF QueryInterface, Reads, ReadFails, router
    <2> HIDE DEF pos
    <2>2. Has(o2, {"kind"}) /\ o2.kind = op[s].kind BY <1>1 DEF Has
    <2> HIDE DEF o2
    <2> QED BY <1>2, <1>4, <1>5, <2>1, <2>2
  <1>10. CASE CreateInterface(s)
    <2>1. At(s, "saveInterface", "create") /\ Steps BY <1>10 DEF CreateInterface
    <2>2. CASE device.present
      BY <1>2, <1>5, <1>10, <2>1, <2>2 DEF CreateInterface, router
    <2>3. CASE ~ device.present
      <3>1. SetDevice(NewInterface) => UNCHANGED <<dns, tables, routes>> BY DEF SetDevice
      <3>2. PICK p : Writes(s, SetDevice(NewInterface), p) BY <1>10, <2>3 DEF CreateInterface
      <3> QED BY <1>3, <1>5, <2>1, <3>1, <3>2
    <2> QED BY <2>2, <2>3
  <1>11. CASE LoadInterfaceData(s)
    <2>1. At(s, "saveInterface", "load") /\ Steps /\ UNCHANGED <<dns, tables, routes>>
      BY <1>11 DEF LoadInterfaceData, Reads, ReadFails, router
    <2>2. PICK p : Then(s, p) BY <1>11 DEF LoadInterfaceData
    <2> QED BY <1>2, <1>5, <2>1, <2>2
  <1>12. CASE UpdateInterface(s)
    <2>1. PICK d, p : At(s, "saveInterface", "update") /\ Steps /\ Writes(s, SetDevice(d), p)
      BY <1>12 DEF UpdateInterface
    <2>2. SetDevice(d) => UNCHANGED <<dns, tables, routes>> BY DEF SetDevice
    <2> QED BY <1>3, <1>5, <2>1, <2>2
  <1>13. CASE LoadIpAddresses(s)
    <2> DEFINE obsolete == device.addresses \ op[s].want.addresses
               new == op[s].want.addresses \ device.addresses
               o2 == [op[s] EXCEPT !.pos = "change", !.obsolete = obsolete, !.new = new]
    <2>1. /\ At(s, "saveInterface", "addresses") /\ Steps /\ UNCHANGED <<dns, tables, routes>>
          /\ Goto(s, o2) \/ Then(s, "error")
      BY <1>13 DEF LoadIpAddresses, Reads, ReadFails, router
    <2> HIDE DEF obsolete, new
    <2>2. Has(o2, {"kind"}) /\ o2.kind = op[s].kind BY <1>1 DEF Has
    <2> HIDE DEF o2
    <2> QED BY <1>2, <1>4, <1>5, <2>1, <2>2
  <1>14. CASE AddressesDone(s) BY <1>2, <1>5, <1>14 DEF AddressesDone, router
  <1>15. ASSUME NEW a \in Address, DeleteAddress(s, a) PROVE Inv' /\ Foreign
    <2> DEFINE obsolete == op[s].obsolete \ {a}
               o2 == [op[s] EXCEPT !.obsolete = obsolete]
    <2>1. /\ At(s, "saveInterface", "change") /\ Steps /\ UNCHANGED <<dns, tables, routes>>
          /\ Goto(s, o2) \/ Then(s, "error")
      BY <1>15 DEF DeleteAddress, SetDevice, RequestFails, router
    <2> HIDE DEF obsolete
    <2>2. Has(o2, {"kind"}) /\ o2.kind = op[s].kind BY <1>1 DEF Has
    <2> HIDE DEF o2
    <2> QED BY <1>2, <1>4, <1>5, <2>1, <2>2
  <1>16. ASSUME NEW a \in Address, CreateAddress(s, a) PROVE Inv' /\ Foreign
    <2> DEFINE new == op[s].new \ {a}
               o2 == [op[s] EXCEPT !.new = new]
    <2>1. /\ At(s, "saveInterface", "change") /\ Steps /\ UNCHANGED <<dns, tables, routes>>
          /\ Goto(s, o2) \/ Then(s, "error")
      BY <1>16 DEF CreateAddress, SetDevice, RequestFails, router
    <2> HIDE DEF new
    <2>2. Has(o2, {"kind"}) /\ o2.kind = op[s].kind BY <1>1 DEF Has
    <2> HIDE DEF o2
    <2> QED BY <1>2, <1>4, <1>5, <2>1, <2>2
  <1>17. CASE DeleteInterfaceAddress(s)
    <2>1. At(s, "deleteInterface", "addresses") /\ Steps BY <1>17 DEF DeleteInterfaceAddress
    <2>2. CASE ~ device.present \/ device.addresses = {}
      BY <1>2, <1>5, <1>17, <2>1, <2>2 DEF DeleteInterfaceAddress, router
    <2>3. CASE ~ (~ device.present \/ device.addresses = {})
      <3>1. PICK d : Writes(s, SetDevice(d), "addresses")
        BY <1>17, <2>3 DEF DeleteInterfaceAddress
      <3>2. SetDevice(d) => UNCHANGED <<dns, tables, routes>> BY DEF SetDevice
      <3> QED BY <1>3, <1>5, <2>1, <3>1, <3>2
    <2> QED BY <2>2, <2>3
  <1>18. CASE DeleteInterfaceQuery(s)
    <2>1. At(s, "deleteInterface", "query") /\ Steps /\ UNCHANGED <<dns, tables, routes>>
      BY <1>18 DEF DeleteInterfaceQuery, Reads, ReadFails, router
    <2>2. PICK p : Then(s, p) BY <1>18 DEF DeleteInterfaceQuery
    <2> QED BY <1>2, <1>5, <2>1, <2>2
  <1>19. CASE DeleteInterfaceObject(s)
    <2>1. At(s, "deleteInterface", "delete") /\ Steps /\ Writes(s, SetDevice(Absent), "ok")
      BY <1>19 DEF DeleteInterfaceObject
    <2>2. SetDevice(Absent) => UNCHANGED <<dns, tables, routes>> BY DEF SetDevice
    <2> QED BY <1>3, <1>5, <2>1, <2>2
  <1>20. CASE QueryPeer(s)
    <2>1. At(s, "savePeer", "query") /\ Steps /\ UNCHANGED <<dns, tables, routes>>
      BY <1>20 DEF QueryPeer, Reads, ReadFails, router
    <2>2. PICK p : Then(s, p) BY <1>20 DEF QueryPeer
    <2> QED BY <1>2, <1>5, <2>1, <2>2
  <1>21. CASE CreatePeer(s)
    <2>1. At(s, "savePeer", "create") /\ Steps BY <1>21 DEF CreatePeer
    <2>2. CASE peer.present
      BY <1>2, <1>5, <1>21, <2>1, <2>2 DEF CreatePeer, router
    <2>3. CASE ~ peer.present
      <3>1. SetPeer(NewPeer) => UNCHANGED <<dns, tables, routes>> BY DEF SetPeer
      <3>2. Writes(s, SetPeer(NewPeer), "update") BY <1>21, <2>3 DEF CreatePeer
      <3> QED BY <1>3, <1>5, <2>1, <3>1, <3>2
    <2> QED BY <2>2, <2>3
  <1>22. CASE UpdatePeer(s)
    <2>1. PICK d : At(s, "savePeer", "update") /\ Steps /\ Writes(s, SetPeer(d), "ok")
      BY <1>22 DEF UpdatePeer
    <2>2. SetPeer(d) => UNCHANGED <<dns, tables, routes>> BY DEF SetPeer
    <2> QED BY <1>3, <1>5, <2>1, <2>2
  <1>23. CASE DeletePeerQuery(s)
    <2>1. At(s, "deletePeer", "query") /\ Steps /\ UNCHANGED <<dns, tables, routes>>
      BY <1>23 DEF DeletePeerQuery, Reads, ReadFails, router
    <2>2. PICK p : Then(s, p) BY <1>23 DEF DeletePeerQuery
    <2> QED BY <1>2, <1>5, <2>1, <2>2
  <1>24. CASE DeletePeerObject(s)
    <2>1. At(s, "deletePeer", "delete") /\ Steps /\ Writes(s, SetPeer(Absent), "ok")
      BY <1>24 DEF DeletePeerObject
    <2>2. SetPeer(Absent) => UNCHANGED <<dns, tables, routes>> BY DEF SetPeer
    <2> QED BY <1>3, <1>5, <2>1, <2>2
  <1> QED BY <1>6, <1>7, <1>8, <1>9, <1>10, <1>11, <1>12, <1>13, <1>14, <1>15, <1>16, <1>17,
             <1>18, <1>19, <1>20, <1>21, <1>22, <1>23, <1>24

---------------------------------------------------------------------------
(* Servers *)

LEMMA ServersKeep ==
    ASSUME Inv, NEW s \in Slot, GetServers(s) \/ SetServerList(s) PROVE Inv' /\ Foreign
  <1> DEFINE o == op[s]
  <1>1. o.kind \in ServerKinds BY DEF GetServers, SetServerList, ServerKinds
  <1>2. /\ Has(o, {"kind", "pos", "read", "servers"}) /\ lock["core"] = s
        /\ o.pos = "set" => o.read = dns
    BY <1>1 DEF Inv, Careful, ServersCovered
  <1>3. ASSUME NEW p, p # "set", Then(s, p), UNCHANGED <<lock, dns, tables, routes>>
        PROVE  Inv' /\ Foreign
    <2> DEFINE o2 == [op[s] EXCEPT !.pos = p]
    <2>1. op' = [op EXCEPT ![s] = o2] BY <1>3 DEF Then
    <2>2. Careful(s, o2, lock["core"], dns) BY <1>1, <1>2, <1>3, ServersThen
    <2> HIDE DEF o2
    <2> QED BY <1>3, <2>1, <2>2, QuietStep
  <1>4. CASE GetServers(s)
    <2>1. UNCHANGED <<lock, dns, tables, routes>>
      BY <1>4 DEF GetServers, Steps, Reads, ReadFails, router
    <2>2. CASE Then(s, "error") BY <1>3, <2>1, <2>2
    <2>3. CASE Goto(s, [o EXCEPT !.pos = "set", !.read = dns])
      <3> DEFINE o2 == [o EXCEPT !.pos = "set", !.read = dns]
      <3>1. /\ Has(o2, {"kind", "pos", "read", "servers"}) /\ Has(o2, {"kind"})
            /\ o2.kind = o.kind /\ o2.read = dns
        BY <1>2 DEF Has
      <3>2. op' = [op EXCEPT ![s] = o2] BY <2>3 DEF Goto
      <3> HIDE DEF o2
      <3>3. Careful(s, o2, lock["core"], dns)
        BY <1>1, <1>2, <3>1
           DEF Careful, ServersCovered, RoutesOwned, ServerKinds, RouteKinds
      <3> QED BY <2>1, <3>2, <3>3, QuietStep
    <2> QED BY <1>4, <2>2, <2>3 DEF GetServers
  <1>5. CASE SetServerList(s)
    <2> DEFINE merged == IF o.kind = "setDNS" THEN o.read \union o.servers
                         ELSE o.read \ o.servers
    <2>1. UNCHANGED lock /\ Writes(s, SetServers(merged), "ok") /\ o.pos = "set"
      BY <1>5 DEF SetServerList, Steps
    <2>2. \A x \in dns \ merged : o.kind = "unsetDNS" /\ x \in o.servers
      BY <1>1, <1>2, <2>1 DEF ServerKinds
    <2> HIDE DEF merged
    <2>3. CASE UNCHANGED router /\ Then(s, "error")
      BY <1>3, <2>1, <2>3 DEF router
    <2>4. CASE SetServers(merged) /\ (Then(s, "ok") \/ Then(s, "error"))
      <3>1. PICK p \in {"ok", "error"} : Then(s, p) BY <2>4
      <3> DEFINE o2 == [op[s] EXCEPT !.pos = p]
      <3>2. op' = [op EXCEPT ![s] = o2] BY <3>1 DEF Then
      <3>3. dns' = merged /\ UNCHANGED <<tables, routes>> BY <2>4 DEF SetServers
      <3>4. Careful(s, o2, lock'["core"], dns') BY <1>1, <1>2, <2>1, ServersThen
      <3> HIDE DEF o2
      <3>5. Inv' BY <1>2, <2>1, <3>2, <3>3, <3>4, MoveStep DEF Inv, Functions
      <3>6. Foreign BY <2>2, <3>3 DEF Inv, Foreign
      <3> QED BY <3>5, <3>6
    <2> QED BY <2>1, <2>3, <2>4 DEF Writes, RequestFails
  <1> QED BY <1>4, <1>5

---------------------------------------------------------------------------
(* Routes *)

LEMMA RoutesKeep ==
    ASSUME Inv, NEW s \in Slot, op[s].kind \in RouteKinds,
           \/ GetRoutingTables(s) \/ CreateRoutingTable(s) \/ QueryRoutes(s) \/ RoutesCreated(s)
           \/ \E c \in Cidr : CreateRoute(s, c)
           \/ \E r \in Route : DeleteRoute(s, r)
           \/ FamilyDone(s) \/ RemoveRoutingTable(s)
    PROVE  Inv' /\ Foreign
  <1> DEFINE o == op[s]
             F == {"kind", "pos", "table", "overlap", "family", "read", "todo"}
  <1>1. /\ Has(o, F)
        /\ o.pos = "delete" => \A r \in o.todo : ~ r.dynamic
        /\ o.kind = "removeRoutes" /\ o.pos = "removeTable" => o.table # Main
    BY DEF Inv, Careful, RoutesOwned
  <1>2. ASSUME NEW o2, Goto(s, o2), Careful(s, o2, lock["core"], dns), Steps,
               UNCHANGED <<dns, tables>>, routes' = [r \in Route |-> routes'[r]],
               \A r \in Route : r.dynamic => routes'[r] = routes[r]
        PROVE  Inv' /\ Foreign
    <2>1. op' = [op EXCEPT ![s] = o2] /\ UNCHANGED lock BY <1>2 DEF Goto, Steps
    <2>2. Inv' BY <1>2, <2>1, MoveStep DEF Inv, Functions
    <2>3. Foreign BY <1>2 DEF Inv, Foreign
    <2> QED BY <2>2, <2>3
  <1>3. ASSUME NEW p, p \notin {"delete", "removeTable"}, Then(s, p), Steps,
               UNCHANGED <<dns, tables>>, routes' = [r \in Route |-> routes'[r]],
               \A r \in Route : r.dynamic => routes'[r] = routes[r]
        PROVE  Inv' /\ Foreign
    <2> DEFINE o2 == [op[s] EXCEPT !.pos = p]
    <2>1. Goto(s, o2) BY <1>3 DEF Then, Goto
    <2>2. Careful(s, o2, lock["core"], dns) BY <1>3, RoutesThen
    <2> HIDE DEF o2
    <2> QED BY <1>2, <1>3, <2>1, <2>2
  <1>4. UNCHANGED routes => /\ routes' = [r \in Route |-> routes'[r]]
                            /\ \A r \in Route : r.dynamic => routes'[r] = routes[r]
    BY DEF Inv, Functions
  <1>5. ASSUME NEW r, NEW n, ~ r.dynamic, SetRouteCount(r, n)
        PROVE  /\ UNCHANGED <<dns, tables>> /\ routes' = [x \in Route |-> routes'[x]]
               /\ \A x \in Route : x.dynamic => routes'[x] = routes[x]
    BY <1>5 DEF SetRouteCount, Inv, Functions
  <1>6. ASSUME NEW o2, Has(o2, F), o2.kind = o.kind,
               o2.pos = "delete" => \A r \in o2.todo : ~ r.dynamic,
               o2.kind = "removeRoutes" /\ o2.pos = "removeTable" => o2.table # Main
        PROVE  Careful(s, o2, lock["core"], dns)
    <2>1. Has(o2, {"kind"}) BY <1>6 DEF Has
    <2> QED BY <1>6, <2>1 DEF Careful, ServersCovered, RoutesOwned, ServerKinds, RouteKinds
  <1>7. ASSUME NEW t, Main \in t, SetTables(t), NEW p, p \notin {"delete", "removeTable"},
               Then(s, p), Steps
        PROVE  Inv' /\ Foreign
    <2> DEFINE o2 == [op[s] EXCEPT !.pos = p]
    <2>1. /\ op' = [op EXCEPT ![s] = o2] /\ UNCHANGED <<lock, dns, routes>> /\ Main \in tables'
      BY <1>7 DEF Then, SetTables, Steps
    <2>2. Careful(s, o2, lock'["core"], dns') BY <1>7, RoutesThen
    <2> HIDE DEF o2
    <2>3. Inv' BY <2>1, <2>2, MoveStep DEF Inv, Functions
    <2>4. Foreign BY <2>1 DEF Foreign
    <2> QED BY <2>3, <2>4
  <1>8. ASSUME NEW t, Main \in t, NEW p, p \notin {"delete", "removeTable"},
               Writes(s, SetTables(t), p), Steps
        PROVE  Inv' /\ Foreign
    <2>1. CASE UNCHANGED router /\ Then(s, "error") BY <1>3, <1>4, <1>8, <2>1 DEF router
    <2>2. CASE SetTables(t) /\ Then(s, p) BY <1>7, <1>8, <2>2
    <2>3. CASE SetTables(t) /\ Then(s, "error") BY <1>7, <1>8, <2>3
    <2> QED BY <1>8, <2>1, <2>2, <2>3 DEF Writes, RequestFails
  <1>9. CASE GetRoutingTables(s)
    <2>1. Steps /\ UNCHANGED <<dns, tables, routes>>
      BY <1>9 DEF GetRoutingTables, Reads, ReadFails, router
    <2>2. PICK p \in {"query", "createTable", "error"} : Then(s, p) BY <1>9 DEF GetRoutingTables
    <2> QED BY <1>3, <1>4, <2>1, <2>2
  <1>10. CASE CreateRoutingTable(s)
    <2>1. Steps BY <1>10 DEF CreateRoutingTable
    <2>2. CASE o.table \in tables
      BY <1>3, <1>4, <1>10, <2>1, <2>2 DEF CreateRoutingTable, router
    <2>3. CASE o.table \notin tables
      <3>1. Main \in tables \union {o.table} BY DEF Inv
      <3> QED BY <1>8, <1>10, <2>1, <2>3, <3>1 DEF CreateRoutingTable
    <2> QED BY <2>2, <2>3
  <1>11. CASE QueryRoutes(s)
    <2>1. Steps /\ UNCHANGED <<dns, tables, routes>>
      BY <1>11 DEF QueryRoutes, Reads, ReadFails, router
    <2>2. CASE Then(s, "error") BY <1>3, <1>4, <2>1, <2>2
    <2>3. ASSUME NEW read, NEW todo,
                 Goto(s, [o EXCEPT !.pos = "create", !.read = read, !.todo = todo])
          PROVE  Inv' /\ Foreign
      <3> DEFINE o2 == [o EXCEPT !.pos = "create", !.read = read, !.todo = todo]
      <3>1. Has(o2, F) /\ o2.kind = o.kind /\ o2.pos = "create" BY <1>1 DEF Has
      <3>2. Goto(s, o2) BY <2>3
      <3> HIDE DEF o2
      <3>3. Careful(s, o2, lock["core"], dns) BY <1>6, <3>1
      <3> QED BY <1>2, <1>4, <2>1, <3>2, <3>3
    <2> QED BY <1>11, <2>2, <2>3 DEF QueryRoutes
  <1>12. CASE RoutesCreated(s)
    <2> DEFINE todo == Outdated(s, o.read)
               o2 == [o EXCEPT !.pos = "delete", !.todo = todo]
    <2>1. Steps /\ UNCHANGED <<dns, tables, routes>> /\ Goto(s, o2)
      BY <1>12 DEF RoutesCreated, router
    <2>2. \A r \in todo : ~ r.dynamic BY DEF Outdated
    <2> HIDE DEF todo
    <2>3. Has(o2, F) /\ o2.kind = o.kind /\ o2.pos = "delete" /\ o2.todo = todo
      BY <1>1 DEF Has
    <2> HIDE DEF o2
    <2>4. Careful(s, o2, lock["core"], dns) BY <1>6, <2>2, <2>3
    <2> QED BY <1>2, <1>4, <2>1, <2>4
  <1>13. ASSUME NEW c \in Cidr, CreateRoute(s, c) PROVE Inv' /\ Foreign
    <2> DEFINE r == StaticRoute(c, o.table)
               todo == o.todo \ {c}
               o2 == [o EXCEPT !.todo = todo]
    <2>1. /\ Steps /\ o.pos = "create"
          /\ \/ SetRouteCount(r, routes[r] + 1) /\ (Goto(s, o2) \/ Then(s, "error"))
             \/ UNCHANGED router /\ Then(s, "error")
      BY <1>13 DEF CreateRoute, RequestFails
    <2>2. r.dynamic = FALSE BY DEF StaticRoute
    <2> HIDE DEF r, todo
    <2>3. Has(o2, F) /\ o2.kind = o.kind /\ o2.pos = o.pos BY <1>1 DEF Has
    <2> HIDE DEF o2
    <2>4. Careful(s, o2, lock["core"], dns) BY <1>6, <2>1, <2>3
    <2>5. CASE UNCHANGED router /\ Then(s, "error") BY <1>3, <1>4, <2>1, <2>5 DEF router
    <2>6. CASE SetRouteCount(r, routes[r] + 1) /\ Goto(s, o2)
      BY <1>2, <1>5, <2>1, <2>2, <2>4, <2>6
    <2>7. CASE SetRouteCount(r, routes[r] + 1) /\ Then(s, "error")
      BY <1>3, <1>5, <2>1, <2>2, <2>7
    <2> QED BY <2>1, <2>5, <2>6, <2>7
  <1>14. ASSUME NEW r \in Route, DeleteRoute(s, r) PROVE Inv' /\ Foreign
    <2> DEFINE todo == o.todo \ {r}
               o2 == [o EXCEPT !.todo = todo]
    <2>1. /\ Steps /\ o.pos = "delete" /\ r \in o.todo
          /\ \/ SetRouteCount(r, 0) /\ (Goto(s, o2) \/ Then(s, "error"))
             \/ UNCHANGED router /\ Then(s, "error")
      BY <1>14 DEF DeleteRoute, RequestFails, router
    <2>2. ~ r.dynamic /\ \A x \in todo : ~ x.dynamic BY <1>1, <2>1
    <2> HIDE DEF todo
    <2>3. Has(o2, F) /\ o2.kind = o.kind /\ o2.pos = o.pos /\ o2.todo = todo BY <1>1 DEF Has
    <2> HIDE DEF o2
    <2>4. Careful(s, o2, lock["core"], dns) BY <1>6, <2>1, <2>2, <2>3
    <2>5. CASE UNCHANGED router /\ Then(s, "error") BY <1>3, <1>4, <2>1, <2>5 DEF router
    <2>6. CASE SetRouteCount(r, 0) /\ Goto(s, o2) BY <1>2, <1>5, <2>1, <2>2, <2>4, <2>6
    <2>7. CASE SetRouteCount(r, 0) /\ Then(s, "error") BY <1>3, <1>5, <2>1, <2>2, <2>7
    <2> QED BY <2>1, <2>5, <2>6, <2>7
  <1>15. CASE FamilyDone(s)
    <2> DEFINE p == IF o.family = CidrV4 THEN "query"
                    ELSE IF o.kind = "removeRoutes" /\ o.table # Main THEN "removeTable"
                    ELSE "ok"
               o2 == [o EXCEPT !.read = {}, !.family = CidrV6, !.pos = p]
    <2>1. Steps /\ UNCHANGED <<dns, tables, routes>> /\ Goto(s, o2)
      BY <1>15 DEF FamilyDone, router
    <2>2. p # "delete" /\ (p = "removeTable" => o.table # Main) OBVIOUS
    <2> HIDE DEF p
    <2>3. Has(o2, F) /\ o2.kind = o.kind /\ o2.pos = p /\ o2.table = o.table BY <1>1 DEF Has
    <2> HIDE DEF o2
    <2>4. Careful(s, o2, lock["core"], dns) BY <1>6, <2>2, <2>3
    <2> QED BY <1>2, <1>4, <2>1, <2>4
  <1>16. CASE RemoveRoutingTable(s)
    <2>1. /\ o.kind = "removeRoutes" /\ o.pos = "removeTable" /\ Steps
          /\ Writes(s, SetTables(tables \ {o.table}), "ok")
      BY <1>16 DEF RemoveRoutingTable, At
    <2>2. Main \in tables \ {o.table} BY <1>1, <2>1 DEF Inv
    <2> QED BY <1>8, <2>1, <2>2
  <1> QED BY <1>9, <1>10, <1>11, <1>12, <1>13, <1>14, <1>15, <1>16

---------------------------------------------------------------------------

LEMMA InitHolds == Init => Inv
  <1> SUFFICES ASSUME Init PROVE Inv OBVIOUS
  <1>1. Functions BY DEF Init, Functions
  <1>2. Main \in tables BY DEF Init
  <1>3. ASSUME NEW s \in Slot PROVE Careful(s, op[s], lock["core"], dns)
    <2>1. op[s] = Idle BY DEF Init
    <2>2. Has(Idle, {"kind"}) /\ Idle.kind = "idle" BY DEF Has, Idle
    <2> QED BY <2>1, <2>2 DEF Careful, ServersCovered, RoutesOwned, ServerKinds, RouteKinds
  <1> QED BY <1>1, <1>2, <1>3 DEF Inv

LEMMA StepHolds == Inv /\ [Next]_vars => Inv' /\ (Foreign \/ UNCHANGED vars)
  <1> SUFFICES ASSUME Inv, [Next]_vars PROVE Inv' /\ (Foreign \/ UNCHANGED vars) OBVIOUS
  <1>1. CASE UNCHANGED vars
    BY <1>1 DEF vars, router, Inv, Functions, Careful, ServersCovered, RoutesOwned
  <1>2. ASSUME NEW s \in Slot, Begins(s) PROVE Inv' /\ Foreign BY <1>2, BeginsKeep
  <1>3. ASSUME NEW s \in Slot, GoesOn(s) PROVE Inv' /\ Foreign
    <2>1. \/ GetRoutingTables(s) \/ CreateRoutingTable(s) \/ QueryRoutes(s) \/ RoutesCreated(s)
          \/ \E c \in Cidr : CreateRoute(s, c)
          \/ \E r \in Route : DeleteRoute(s, r)
          \/ FamilyDone(s) \/ RemoveRoutingTable(s)
          => op[s].kind \in RouteKinds
      BY DEF GetRoutingTables, CreateRoutingTable, QueryRoutes, RoutesCreated, CreateRoute,
             DeleteRoute, FamilyDone, RemoveRoutingTable, At, RouteKinds
    <2> QED BY <1>3, <2>1, InterfacesAndPeersKeep, ServersKeep, RoutesKeep, ReturnKeeps DEF GoesOn
  <1> QED BY <1>1, <1>2, <1>3 DEF Next

\* The inductive invariant: the list of servers that an operation writes back is
\* the one the device has, and the routes it deletes are static.
THEOREM Invariance == Spec => []Inv
  <1>1. Inv /\ [Next]_vars => Inv' BY StepHolds
  <1> QED BY <1>1, InitHolds, PTL DEF Spec

\* An operation of the portal removes no dynamic route, not the main table, and
\* no DNS server that it was not asked to unset (mikrotik.go).
THEOREM ForeignIsLeftAlone == Spec => ForeignStays
  <1> DEFINE A == /\ \A r \in Route : r.dynamic => routes'[r] = routes[r]
                  /\ Main \in tables'
                  /\ \A x \in dns \ dns' : \E s \in Slot : op[s].kind = "unsetDNS"
                                                         /\ x \in op[s].servers
  <1>1. Inv /\ [Next]_vars => [A]_vars
    BY StepHolds DEF Foreign
  <1>2. Spec => [][A]_vars BY <1>1, Invariance, PTL DEF Spec
  <1> QED BY <1>2 DEF ForeignStays

---------------------------------------------------------------------------
(* What an operation has done so far. *)

Backends == {"mikrotik", "pfsense"}
DeviceType == {Absent} \union [present: {TRUE}, settings: Settings \union {"default"},
                               addresses: SUBSET Address]
PeerType == {Absent} \union [present: {TRUE}, settings: Settings \union {"default"},
                             endpoint: {"", "host"}]

ListOp == [kind: {"list"}, pos: {"loading", "ok", "error"}, todo: SUBSET Name,
           running: SUBSET Name, got: SUBSET Name, failed: BOOLEAN]
SaveInterfaceOp ==
    [kind: {"saveInterface"}, want: WantedInterface, found: BOOLEAN,
     pos: {"query", "create", "load", "update", "addresses", "change", "ok", "error"},
     obsolete: SUBSET Address, new: SUBSET Address]
DeleteInterfaceOp ==
    [kind: {"deleteInterface"}, pos: {"addresses", "query", "delete", "ok", "error"}]
SavePeerOp == [kind: {"savePeer"}, want: WantedPeer,
               pos: {"query", "create", "update", "ok", "error"}]
DeletePeerOp == [kind: {"deletePeer"}, pos: {"query", "delete", "ok", "error"}]
ServersOp == [kind: ServerKinds, servers: SUBSET Server, read: SUBSET Server,
              pos: {"get", "set", "ok", "error"}]
RoutesOp ==
    [kind: RouteKinds, cidrs: SUBSET Cidr, table: Table \union {Main}, overlap: BOOLEAN,
     family: {CidrV4, CidrV6}, read: SUBSET Route, todo: SUBSET (Cidr \union Route),
     pos: {"table", "createTable", "query", "create", "delete", "removeTable", "ok", "error"}]

RouterType ==
    /\ backend \in Backends /\ device \in DeviceType /\ peer \in PeerType
    /\ dns \subseteq Server /\ routes \in [Route -> Nat]
    /\ lock \in [Mutex -> Slot \union {Free}]

\* every interface is loaded, being loaded, or still to be loaded
ListProgress(o) ==
    /\ o \in ListOp
    /\ ~ o.failed => Name = o.todo \union o.running \union o.got
    /\ o.pos = "ok" => o.got = Name

\* under the mutex of the interface nobody else undoes what was done
Saved(o) == device.present /\ device.settings = o.want.settings
SaveInterfaceProgress(s, o) ==
    /\ o \in SaveInterfaceOp /\ lock["interface"] = s
    /\ o.pos \in {"load", "update"} => device.present
    /\ o.pos \in {"addresses", "change"} => Saved(o) /\ backend = "mikrotik"
    /\ o.pos = "change" => /\ o.obsolete = device.addresses \ o.want.addresses
                           /\ o.new = o.want.addresses \ device.addresses
    /\ o.pos = "ok" =>
        /\ Saved(o)
        /\ backend = "mikrotik" \/ o.want.addresses # {} => device.addresses = o.want.addresses

DeleteInterfaceProgress(s, o) ==
    /\ o \in DeleteInterfaceOp /\ lock["interface"] = s
    /\ o.pos = "ok" => ~ device.present

SavePeerProgress(s, o) ==
    /\ o \in SavePeerOp /\ lock["peer"] = s
    /\ o.pos = "update" => peer.present
    /\ o.pos = "ok" =>
        /\ peer.present /\ peer.settings = o.want.settings
        /\ backend = "mikrotik" /\ o.want.responder => peer.endpoint = ""
        /\ ~ o.want.responder /\ o.want.endpoint # "" => peer.endpoint = o.want.endpoint

DeletePeerProgress(s, o) ==
    /\ o \in DeletePeerOp /\ lock["peer"] = s
    /\ o.pos = "ok" => ~ peer.present

ServersProgress(s, o) ==
    /\ o \in ServersOp /\ lock["core"] = s
    /\ o.pos = "set" => o.read = dns
    /\ o.pos = "ok" /\ backend = "mikrotik" =>
        IF o.kind = "setDNS" THEN o.servers \subseteq dns ELSE o.servers \intersect dns = {}

\* a route that has to go, and those that have gone but for some
Unwanted(o, r) ==
    /\ ~ r.dynamic
    /\ IF o.kind = "setRoutes" THEN r.cidr \notin o.cidrs
       ELSE r.cidr \in o.cidrs /\ r.table = o.table
Cleared(o, cidrs, except) ==
    \A r \in Route : r.cidr \in cidrs /\ Unwanted(o, r) /\ routes[r] > 0 => r \in except

\* the wanted routes are there but for some
Served(o, cidrs, except) ==
    o.kind = "setRoutes" =>
        \A c \in (o.cidrs \intersect cidrs) \ except :
            \E r \in Route : r.cidr = c /\ r.table = o.table /\ routes[r] > 0

\* the IPv4 routes are done before the IPv6 ones, and everything at the end
RoutesDone(o) ==
    IF o.pos \in {"ok", "removeTable"} THEN Cidr ELSE IF o.family = CidrV4 THEN {} ELSE CidrV4
AtRoutes == {"query", "create", "delete", "removeTable", "ok"}
RoutesReached(o) ==
    /\ o.pos \in AtRoutes => /\ Cleared(o, RoutesDone(o), {}) /\ Served(o, RoutesDone(o), {})
    /\ o.pos \in AtRoutes /\ o.kind = "setRoutes" => o.table \in tables
    /\ o.pos = "create" =>
        /\ Served(o, o.family, o.todo) /\ Cleared(o, o.family, o.read)
    /\ o.pos = "delete" => Served(o, o.family, {}) /\ Cleared(o, o.family, o.todo)
    /\ o.pos = "ok" /\ o.kind = "removeRoutes" => o.table \notin tables \ {Main}

RoutesShape(o) ==
    /\ o \in RoutesOp
    /\ o.pos \in {"table", "createTable"} => o.kind = "setRoutes" /\ o.family = CidrV4
    /\ o.pos = "create" => /\ o.todo \subseteq o.cidrs \intersect o.family
                           /\ o.kind = "removeRoutes" => o.todo = {}
    /\ o.pos = "delete" => \A r \in o.todo : r \in Route /\ Unwanted(o, r)
    /\ o.kind = "setRoutes" => o.pos # "removeTable"

RoutesProgress(s, o) ==
    /\ RoutesShape(o)
    /\ o.pos # "ok" => backend = "mikrotik"
    /\ ~ o.overlap => \A x \in Slot \ {s} : op[x].kind \notin RouteKinds
    /\ ~ o.overlap /\ backend = "mikrotik" => RoutesReached(o)

Progress(s, o) ==
    \/ o = Idle
    \/ ListProgress(o)
    \/ SaveInterfaceProgress(s, o) \/ DeleteInterfaceProgress(s, o)
    \/ SavePeerProgress(s, o) \/ DeletePeerProgress(s, o)
    \/ ServersProgress(s, o) \/ RoutesProgress(s, o)

ProgressInv ==
    /\ RouterType
    /\ op = [s \in Slot |-> op[s]] /\ \A s \in Slot : Progress(s, op[s])

\* What is known of an operation of each kind.
LEMMA KindOf ==
    ASSUME NEW s, NEW o, Progress(s, o)
    PROVE  /\ o.kind = "list" => ListProgress(o)
           /\ o.kind = "saveInterface" => SaveInterfaceProgress(s, o)
           /\ o.kind = "deleteInterface" => DeleteInterfaceProgress(s, o)
           /\ o.kind = "savePeer" => SavePeerProgress(s, o)
           /\ o.kind = "deletePeer" => DeletePeerProgress(s, o)
           /\ o.kind \in ServerKinds => ServersProgress(s, o)
           /\ o.kind \in RouteKinds => RoutesProgress(s, o)
           /\ o.kind = "idle" => o = Idle
<1>1. CASE o = Idle
  BY <1>1 DEF Idle, ServerKinds, RouteKinds
<1>2. CASE ListProgress(o)
  BY <1>2 DEF ListProgress, ListOp, ServerKinds, RouteKinds
<1>3. CASE SaveInterfaceProgress(s, o)
  <2>1. o.kind = "saveInterface"
    BY <1>3 DEF SaveInterfaceProgress, SaveInterfaceOp
  <2> QED BY <1>3, <2>1 DEF ServerKinds, RouteKinds
<1>4. CASE DeleteInterfaceProgress(s, o)
  BY <1>4 DEF DeleteInterfaceProgress, DeleteInterfaceOp, ServerKinds, RouteKinds
<1>5. CASE SavePeerProgress(s, o)
  <2>1. o.kind = "savePeer"
    BY <1>5 DEF SavePeerProgress, SavePeerOp
  <2> QED BY <1>5, <2>1 DEF ServerKinds, RouteKinds
<1>6. CASE DeletePeerProgress(s, o)
  BY <1>6 DEF DeletePeerProgress, DeletePeerOp, ServerKinds, RouteKinds
<1>7. CASE ServersProgress(s, o)
  <2>1. o.kind \in ServerKinds
    BY <1>7 DEF ServersProgress, ServersOp
  <2> QED BY <1>7, <2>1 DEF ServerKinds, RouteKinds
<1>8. CASE RoutesProgress(s, o)
  <2>1. o.kind \in RouteKinds
    BY <1>8 DEF RoutesProgress, RoutesShape, RoutesOp
  <2> QED BY <1>8, <2>1 DEF ServerKinds, RouteKinds
<1> QED BY <1>1, <1>2, <1>3, <1>4, <1>5, <1>6, <1>7, <1>8 DEF Progress

\* A step of s changes what s has locked, and routes if it works on them.
Confined(s) ==
    /\ UNCHANGED backend
    /\ \A m \in Mutex, x \in Slot \ {s} : lock[m] = x => lock'[m] = x
    /\ device' = device \/ lock["interface"] = s
    /\ peer' = peer \/ lock["peer"] = s
    /\ dns' = dns \/ lock["core"] = s
    /\ UNCHANGED <<tables, routes>> \/ op[s].kind \in RouteKinds

LEMMA OthersKeep ==
    ASSUME ProgressInv, NEW s \in Slot, NEW x \in Slot \ {s}, NEW o, o = op[x], Confined(s),
           \A y \in Slot : op'[y].kind \in RouteKinds => op[y].kind \in RouteKinds
    PROVE  Progress(x, o)'
<1>1. Progress(x, o)
  BY DEF ProgressInv
<1>2. CASE o = Idle \/ ListProgress(o)
  BY <1>2 DEF Progress, ListProgress
<1>3. CASE SaveInterfaceProgress(x, o) \/ DeleteInterfaceProgress(x, o)
  <2>1. lock["interface"] = x
    BY <1>3 DEF SaveInterfaceProgress, DeleteInterfaceProgress
  <2>2. device' = device /\ lock'["interface"] = x /\ UNCHANGED backend
    BY <2>1 DEF Confined, Mutex
  <2> QED BY <1>3, <2>2
          DEF Progress, SaveInterfaceProgress, DeleteInterfaceProgress, Saved
<1>4. CASE SavePeerProgress(x, o) \/ DeletePeerProgress(x, o)
  <2>1. lock["peer"] = x
    BY <1>4 DEF SavePeerProgress, DeletePeerProgress
  <2>2. peer' = peer /\ lock'["peer"] = x /\ UNCHANGED backend
    BY <2>1 DEF Confined, Mutex
  <2> QED BY <1>4, <2>2 DEF Progress, SavePeerProgress, DeletePeerProgress
<1>5. CASE ServersProgress(x, o)
  <2>1. dns' = dns /\ lock'["core"] = x /\ UNCHANGED backend
    BY <1>5 DEF Confined, Mutex, ServersProgress
  <2> QED BY <1>5, <2>1 DEF Progress, ServersProgress
<1>6. CASE RoutesProgress(x, o)
  <2>1. ~ o.overlap => /\ UNCHANGED <<backend, tables, routes>>
                       /\ \A y \in Slot \ {x} : op'[y].kind \notin RouteKinds
    BY <1>6 DEF RoutesProgress, Confined
  <2>2. ~ o.overlap /\ backend' = "mikrotik" => RoutesReached(o)'
    BY <1>6, <2>1 DEF RoutesProgress, RoutesReached, Cleared, Served
  <2>3. RoutesProgress(x, o)'
    BY <1>6, <2>1, <2>2 DEF RoutesProgress, Confined
  <2> QED BY <2>3 DEF Progress
<1> QED BY <1>1, <1>2, <1>3, <1>4, <1>5, <1>6 DEF Progress

\* ... so the invariant follows from what s itself has done.
LEMMA StepKeeps ==
    ASSUME ProgressInv, NEW s \in Slot, NEW o2, op' = [op EXCEPT ![s] = o2], Confined(s),
           RouterType', Progress(s, o2)', o2.kind \in RouteKinds => op[s].kind \in RouteKinds
    PROVE  ProgressInv'
<1>1. /\ op' = [x \in Slot |-> op'[x]] /\ op'[s] = o2
      /\ \A x \in Slot \ {s} : op'[x] = op[x]
  BY DEF ProgressInv
<1>2. \A y \in Slot : op'[y].kind \in RouteKinds => op[y].kind \in RouteKinds
  BY <1>1
<1>3. ASSUME NEW x \in Slot PROVE Progress(x, op[x])'
  <2>1. CASE x = s
    BY <1>1, <2>1
  <2>2. CASE x # s
    <3>1. PICK o : o = op[x]
      OBVIOUS
    <3>2. Progress(x, o)'
      BY <1>2, <2>2, <3>1, OthersKeep
    <3> QED BY <1>1, <2>2, <3>1, <3>2
  <2> QED BY <2>1, <2>2
<1> QED BY <1>1, <1>3 DEF ProgressInv

\* A step that asks the device nothing, or only reads.
LEMMA ReadingStep ==
    ASSUME ProgressInv, NEW s \in Slot, NEW o2, op' = [op EXCEPT ![s] = o2],
           UNCHANGED <<backend, router, lock>>, Progress(s, o2),
           o2.kind \in RouteKinds => op[s].kind \in RouteKinds
    PROVE  ProgressInv'
<1>1. Confined(s) /\ RouterType'
  BY DEF Confined, ProgressInv, RouterType, router
<1>2. \A x \in Slot \ {s} : op'[x] = op[x]
  BY DEF ProgressInv
<1>3. Progress(s, o2)'
  <2> USE DEF router
  <2>1. CASE RoutesProgress(s, o2)
    <3>1. RoutesReached(o2) => RoutesReached(o2)'
      BY DEF RoutesReached, Cleared, Served
    <3>2. RoutesProgress(s, o2)'
      BY <1>2, <2>1, <3>1 DEF RoutesProgress
    <3> QED BY <3>2 DEF Progress
  <2>2. CASE ~ RoutesProgress(s, o2)
    BY <2>2 DEF Progress, ListProgress, SaveInterfaceProgress, DeleteInterfaceProgress, Saved,
                SavePeerProgress, DeletePeerProgress, ServersProgress
  <2> QED BY <2>1, <2>2
<1> QED BY <1>1, <1>3, StepKeeps

\* An error ends an operation: nothing is claimed for it.
LEMMA ErrorStep ==
    ASSUME ProgressInv, NEW s \in Slot, op[s] # Idle, op[s].pos # "ok", Then(s, "error"),
           Confined(s), RouterType', UNCHANGED lock
    PROVE  ProgressInv'
<1>1. PICK o : o = op[s]
  OBVIOUS
<1>2. PICK o2 : o2 = [o EXCEPT !.pos = "error"]
  OBVIOUS
<1>3. op' = [op EXCEPT ![s] = o2]
  BY <1>1, <1>2 DEF Then
<1>4. Progress(s, o) /\ o # Idle
  BY <1>1 DEF ProgressInv
<1>5. \A x \in Slot \ {s} : op'[x] = op[x]
  BY <1>3 DEF ProgressInv
<1>6. Progress(s, o2)' /\ o2.kind = o.kind
  <2>1. CASE ListProgress(o)
    <3>1. o2 \in ListOp /\ o2.pos = "error" /\ o2.kind = o.kind
          /\ o2.failed = o.failed /\ o2.got = o.got /\ o2.todo = o.todo /\ o2.running = o.running
      BY <1>2, <2>1 DEF ListProgress, ListOp
    <3> QED BY <2>1, <3>1 DEF Progress, ListProgress
  <2>2. CASE SaveInterfaceProgress(s, o)
    <3>1. o2 \in SaveInterfaceOp /\ o2.pos = "error" /\ o2.kind = o.kind
      BY <1>2, <2>2 DEF SaveInterfaceProgress, SaveInterfaceOp
    <3> QED BY <2>2, <3>1 DEF Progress, SaveInterfaceProgress
  <2>3. CASE DeleteInterfaceProgress(s, o)
    <3>1. o2 \in DeleteInterfaceOp /\ o2.pos = "error" /\ o2.kind = o.kind
      BY <1>2, <2>3 DEF DeleteInterfaceProgress, DeleteInterfaceOp
    <3> QED BY <2>3, <3>1 DEF Progress, DeleteInterfaceProgress
  <2>4. CASE SavePeerProgress(s, o)
    <3>1. o2 \in SavePeerOp /\ o2.pos = "error" /\ o2.kind = o.kind
      BY <1>2, <2>4 DEF SavePeerProgress, SavePeerOp
    <3> QED BY <2>4, <3>1 DEF Progress, SavePeerProgress
  <2>5. CASE DeletePeerProgress(s, o)
    <3>1. o2 \in DeletePeerOp /\ o2.pos = "error" /\ o2.kind = o.kind
      BY <1>2, <2>5 DEF DeletePeerProgress, DeletePeerOp
    <3> QED BY <2>5, <3>1 DEF Progress, DeletePeerProgress
  <2>6. CASE ServersProgress(s, o)
    <3>1. o2 \in ServersOp /\ o2.pos = "error" /\ o2.kind = o.kind
      BY <1>2, <2>6 DEF ServersProgress, ServersOp
    <3> QED BY <2>6, <3>1 DEF Progress, ServersProgress
  <2>7. CASE RoutesProgress(s, o)
    <3>1. /\ o2 \in RoutesOp /\ RoutesShape(o2) /\ o2.pos = "error" /\ o2.kind = o.kind
          /\ o2.overlap = o.overlap
      BY <1>2, <2>7 DEF RoutesProgress, RoutesShape, RoutesOp
    <3>2. backend' = "mikrotik"
      BY <1>1, <2>7 DEF RoutesProgress, Confined
    <3>3. RoutesReached(o2)'
      BY <3>1 DEF RoutesReached, AtRoutes
    <3>4. RoutesProgress(s, o2)'
      BY <1>5, <2>7, <3>1, <3>2, <3>3 DEF RoutesProgress
    <3> QED BY <3>1, <3>4 DEF Progress
  <2> QED BY <1>4, <2>1, <2>2, <2>3, <2>4, <2>5, <2>6, <2>7 DEF Progress
<1> QED BY <1>1, <1>3, <1>6, StepKeeps

\* ... a request that failed in particular
LEMMA FailedStep ==
    ASSUME ProgressInv, NEW s \in Slot, op[s] # Idle, op[s].pos # "ok", Then(s, "error"),
           UNCHANGED <<router, backend, lock>>
    PROVE  ProgressInv'
<1>1. Confined(s) /\ RouterType'
  BY DEF Confined, ProgressInv, RouterType, router
<1> QED BY <1>1, ErrorStep

\* A request that writes the interface or the peer, with its three outcomes.
LEMMA WritingStep ==
    ASSUME ProgressInv, NEW s \in Slot, op[s] # Idle, op[s].pos # "ok",
           NEW effect, NEW next, Writes(s, effect, next), Steps,
           effect => Confined(s) /\ RouterType',
           NEW o2, o2 = [op[s] EXCEPT !.pos = next], effect => Progress(s, o2)',
           o2.kind = op[s].kind
    PROVE  ProgressInv'
<1>1. CASE effect /\ Then(s, next)
  <2>1. op' = [op EXCEPT ![s] = o2]
    BY <1>1 DEF Then
  <2> QED BY <1>1, <2>1, StepKeeps
<1>2. CASE effect /\ Then(s, "error")
  BY <1>2, ErrorStep DEF Steps
<1>3. CASE UNCHANGED router /\ Then(s, "error")
  BY <1>3, FailedStep DEF Steps
<1> QED BY <1>1, <1>2, <1>3 DEF Writes, RequestFails, AnswerIsLost

LEMMA ListSteps ==
    ASSUME ProgressInv, NEW s \in Slot,
           \/ \E n \in Name : LoadWorkerStarts(s, n) \/ LoadWorkerEnds(s, n)
           \/ GetInterfacesEnds(s)
    PROVE  ProgressInv'
<1>1. PICK o : o = op[s]
  OBVIOUS
<1>2. o.kind = "list" /\ o.pos = "loading" /\ ListProgress(o)
  BY <1>1, KindOf DEF LoadWorkerStarts, LoadWorkerEnds, GetInterfacesEnds, At, ProgressInv
<1>3. UNCHANGED <<backend, router, lock>>
  BY DEF LoadWorkerStarts, LoadWorkerEnds, GetInterfacesEnds, Steps, Reads, ReadFails
<1>4. ASSUME NEW o2, op' = [op EXCEPT ![s] = o2], ListProgress(o2) PROVE ProgressInv'
  <2>1. o2.kind \notin RouteKinds
    BY <1>4 DEF ListProgress, ListOp, RouteKinds
  <2> QED BY <1>3, <1>4, <2>1, ReadingStep DEF Progress
<1>5. ASSUME NEW n \in Name, LoadWorkerStarts(s, n) PROVE ProgressInv'
  <2>1. PICK o2 : o2 = [o EXCEPT !.todo = o.todo \ {n},
                                 !.running = IF o.failed THEN o.running ELSE o.running \union {n}]
    OBVIOUS
  <2>2. op' = [op EXCEPT ![s] = o2]
    BY <1>1, <1>5, <1>2, <2>1 DEF LoadWorkerStarts, Goto, ListProgress, ListOp
  <2>3. ListProgress(o2)
    BY <1>2, <2>1 DEF ListProgress, ListOp
  <2> QED BY <1>4, <2>2, <2>3
<1>6. ASSUME NEW n \in Name, LoadWorkerEnds(s, n) PROVE ProgressInv'
  <2>1. PICK o2 : /\ op' = [op EXCEPT ![s] = o2] /\ n \in o.running
                  /\ \/ o2 = [o EXCEPT !.running = o.running \ {n}, !.got = o.got \union {n}]
                     \/ o2 = [o EXCEPT !.running = o.running \ {n}, !.failed = TRUE]
    BY <1>1, <1>2, <1>6 DEF LoadWorkerEnds, Goto, ListProgress, ListOp
  <2>2. /\ o2 \in ListOp /\ o2.pos = "loading" /\ o2.todo = o.todo
        /\ ~ o2.failed => /\ ~ o.failed /\ o2.running = o.running \ {n}
                          /\ o2.got = o.got \union {n}
    <3>1. CASE o2 = [o EXCEPT !.running = o.running \ {n}, !.got = o.got \union {n}]
      BY <1>2, <3>1 DEF ListProgress, ListOp
    <3>2. CASE o2 = [o EXCEPT !.running = o.running \ {n}, !.failed = TRUE]
      BY <1>2, <3>2 DEF ListProgress, ListOp
    <3> QED BY <2>1, <3>1, <3>2
  <2>3. ListProgress(o2)
    BY <1>2, <2>1, <2>2 DEF ListProgress
  <2> QED BY <1>4, <2>1, <2>3
<1>7. CASE GetInterfacesEnds(s)
  <2>1. PICK o2 : o2 = [o EXCEPT !.pos = IF o.failed THEN "error" ELSE "ok"]
    OBVIOUS
  <2>2. op' = [op EXCEPT ![s] = o2] /\ o.todo = {} /\ o.running = {}
    BY <1>1, <1>7, <2>1 DEF GetInterfacesEnds, Then
  <2>3. /\ o2 \in ListOp /\ o2.got = o.got /\ o2.todo = {} /\ o2.running = {}
        /\ o2.failed = o.failed
        /\ o2.pos = "ok" => ~ o.failed
    BY <1>2, <2>1, <2>2 DEF ListProgress, ListOp
  <2>4. ListProgress(o2)
    BY <1>2, <2>2, <2>3 DEF ListProgress
  <2> QED BY <1>4, <2>2, <2>4
<1> QED BY <1>5, <1>6, <1>7

\* What a step of the operation that holds the mutex of the interface may change.
LEMMA DeviceChange ==
    ASSUME ProgressInv, NEW s \in Slot, lock["interface"] = s, Steps,
           NEW d \in DeviceType, SetDevice(d)
    PROVE  Confined(s) /\ RouterType' /\ device' = d
  BY DEF Confined, Steps, SetDevice, ProgressInv, RouterType

LEMMA SaveInterfaceRequests ==
    ASSUME ProgressInv, NEW s \in Slot,
           QueryInterface(s) \/ CreateInterface(s) \/ LoadInterfaceData(s) \/ UpdateInterface(s)
           \/ LoadIpAddresses(s) \/ AddressesDone(s)
    PROVE  ProgressInv'
<1>1. PICK o : o = op[s]
  OBVIOUS
<1>2. /\ o.kind = "saveInterface" /\ SaveInterfaceProgress(s, o) /\ Steps
      /\ o # Idle /\ o.pos # "ok"
  BY <1>1, KindOf DEF QueryInterface, CreateInterface, LoadInterfaceData, UpdateInterface,
                      LoadIpAddresses, AddressesDone, At, ProgressInv, Idle
<1>3. /\ o \in SaveInterfaceOp /\ lock["interface"] = s /\ device \in DeviceType
      /\ backend \in Backends
  BY <1>2 DEF SaveInterfaceProgress, ProgressInv, RouterType
<1>4. ASSUME NEW o2, op' = [op EXCEPT ![s] = o2], UNCHANGED router, SaveInterfaceProgress(s, o2)
      PROVE ProgressInv'
  <2>1. o2.kind \notin RouteKinds
    BY <1>4 DEF SaveInterfaceProgress, SaveInterfaceOp, RouteKinds
  <2> QED BY <1>2, <1>4, <2>1, ReadingStep DEF Progress, Steps
<1>5. ASSUME UNCHANGED router, Then(s, "error") PROVE ProgressInv'
  BY <1>1, <1>2, <1>5, FailedStep DEF Steps
<1>6. CASE QueryInterface(s)
  <2>1. CASE Reads /\ Goto(s, [o EXCEPT !.pos = IF device.present THEN "load" ELSE "create",
                                        !.found = TRUE])
    <3>1. PICK o2 : o2 = [o EXCEPT !.pos = IF device.present THEN "load" ELSE "create",
                                   !.found = TRUE]
      OBVIOUS
    <3>2. op' = [op EXCEPT ![s] = o2] /\ UNCHANGED router
      BY <2>1, <3>1 DEF Goto, Reads
    <3>3. SaveInterfaceProgress(s, o2)
      BY <1>3, <3>1 DEF SaveInterfaceProgress, SaveInterfaceOp
    <3> QED BY <1>4, <3>2, <3>3
  <2>2. CASE ReadFails /\ Then(s, "create")
    <3>1. PICK o2 : o2 = [o EXCEPT !.pos = "create"]
      OBVIOUS
    <3>2. op' = [op EXCEPT ![s] = o2] /\ UNCHANGED router
      BY <1>1, <2>2, <3>1 DEF Then, ReadFails
    <3>3. SaveInterfaceProgress(s, o2)
      BY <1>3, <3>1 DEF SaveInterfaceProgress, SaveInterfaceOp
    <3> QED BY <1>4, <3>2, <3>3
  <2> QED BY <1>1, <1>6, <2>1, <2>2 DEF QueryInterface
<1>7. CASE CreateInterface(s)
  <2>1. CASE device.present
    BY <1>5, <1>7, <2>1 DEF CreateInterface
  <2>2. CASE ~ device.present
    <3>1. PICK next : /\ next = IF backend = "mikrotik" /\ ~ o.found THEN "error" ELSE "load"
                      /\ next \in {"error", "load"}
      OBVIOUS
    <3>2. PICK o2 : o2 = [o EXCEPT !.pos = next]
      OBVIOUS
    <3>3. NewInterface \in DeviceType /\ NewInterface.present
      BY DEF NewInterface, DeviceType
    <3>4. Writes(s, SetDevice(NewInterface), next)
      BY <1>1, <1>7, <2>2, <3>1 DEF CreateInterface
    <3>5. SetDevice(NewInterface) => Confined(s) /\ RouterType' /\ device' = NewInterface
      BY <1>2, <1>3, <3>3, DeviceChange
    <3>6. /\ o2 \in SaveInterfaceOp /\ o2.pos = next /\ o2.kind = o.kind
      BY <1>3, <3>1, <3>2 DEF SaveInterfaceOp
    <3>7. SetDevice(NewInterface) => Progress(s, o2)'
      BY <1>2, <1>3, <3>1, <3>3, <3>5, <3>6 DEF Progress, SaveInterfaceProgress, Steps
    <3> QED BY <1>1, <1>2, <3>2, <3>4, <3>5, <3>6, <3>7, WritingStep
  <2> QED BY <2>1, <2>2
<1>8. CASE LoadInterfaceData(s)
  <2>1. CASE UNCHANGED router /\ Then(s, "update")
    <3>1. PICK o2 : o2 = [o EXCEPT !.pos = "update"]
      OBVIOUS
    <3>2. op' = [op EXCEPT ![s] = o2] /\ o.pos = "load"
      BY <1>1, <1>8, <2>1, <3>1 DEF Then, LoadInterfaceData, At
    <3>3. SaveInterfaceProgress(s, o2)
      BY <1>2, <3>1, <3>2 DEF SaveInterfaceProgress, SaveInterfaceOp
    <3> QED BY <1>4, <2>1, <3>2, <3>3
  <2> QED BY <1>5, <1>8, <2>1 DEF LoadInterfaceData, Reads, ReadFails
<1>9. CASE UpdateInterface(s)
  <2>1. PICK d, next, o2 :
            /\ d = [device EXCEPT !.settings = o.want.settings,
                                  !.addresses = AddressesInRequest(o.want)]
            /\ next = IF backend = "mikrotik" THEN "addresses" ELSE "ok"
            /\ o2 = [o EXCEPT !.pos = next]
    OBVIOUS
  <2>2. Writes(s, SetDevice(d), next) /\ device.present
    BY <1>1, <1>2, <1>9, <2>1 DEF UpdateInterface, At, SaveInterfaceProgress
  <2>3. /\ device \in [present: {TRUE}, settings: Settings \union {"default"},
                       addresses: SUBSET Address]
        /\ o.want \in WantedInterface
    <3>1. device # Absent
      BY <2>2 DEF Absent
    <3>2. o.want \in WantedInterface
      BY <1>3 DEF SaveInterfaceOp
    <3> QED BY <1>3, <3>1, <3>2 DEF DeviceType
  <2>4. /\ AddressesInRequest(o.want) \in SUBSET Address
        /\ backend = "pfsense" /\ o.want.addresses # {} =>
             AddressesInRequest(o.want) = o.want.addresses
    BY <2>3 DEF AddressesInRequest, WantedInterface
  <2>5. /\ d \in DeviceType /\ d.present /\ d.settings = o.want.settings
        /\ d.addresses = AddressesInRequest(o.want)
    BY <2>1, <2>3, <2>4 DEF DeviceType, WantedInterface
  <2>6. SetDevice(d) => Confined(s) /\ RouterType' /\ device' = d
    BY <1>2, <1>3, <2>5, DeviceChange
  <2>7. o2 \in SaveInterfaceOp /\ o2.pos = next /\ o2.kind = o.kind /\ o2.want = o.want
    BY <1>3, <2>1 DEF SaveInterfaceOp
  <2>8. ASSUME SetDevice(d) PROVE SaveInterfaceProgress(s, o2)'
    <3>1. Saved(o2)' /\ device' = d /\ UNCHANGED <<backend, lock>>
      BY <1>2, <2>5, <2>6, <2>7, <2>8 DEF Saved, Steps
    <3>2. CASE backend = "mikrotik"
      BY <1>3, <2>1, <2>7, <3>1, <3>2 DEF SaveInterfaceProgress
    <3>3. CASE backend = "pfsense"
      BY <1>3, <2>1, <2>4, <2>5, <2>7, <3>1, <3>3 DEF SaveInterfaceProgress
    <3> QED BY <1>3, <3>2, <3>3 DEF Backends
  <2>9. SetDevice(d) => Progress(s, o2)'
    BY <2>8 DEF Progress
  <2>10. o2 = [op[s] EXCEPT !.pos = next] /\ o2.kind = op[s].kind
    BY <1>1, <2>1, <2>7
  <2> QED BY <1>1, <1>2, <2>2, <2>6, <2>9, <2>10, WritingStep
<1>10. CASE LoadIpAddresses(s)
  <2>1. CASE Reads /\ Goto(s, [o EXCEPT !.pos = "change",
                                        !.obsolete = device.addresses \ o.want.addresses,
                                        !.new = o.want.addresses \ device.addresses])
    <3>1. PICK o2 : o2 = [o EXCEPT !.pos = "change",
                                   !.obsolete = device.addresses \ o.want.addresses,
                                   !.new = o.want.addresses \ device.addresses]
      OBVIOUS
    <3>2. op' = [op EXCEPT ![s] = o2] /\ UNCHANGED router /\ o.pos = "addresses"
      BY <1>1, <1>10, <2>1, <3>1 DEF Goto, Reads, LoadIpAddresses, At
    <3>3. Saved(o) /\ backend = "mikrotik"
      BY <1>2, <3>2 DEF SaveInterfaceProgress
    <3>4. device.addresses \in SUBSET Address /\ o.want.addresses \in SUBSET Address
      <4>1. device # Absent
        BY <3>3 DEF Saved, Absent
      <4>2. o.want \in WantedInterface
        BY <1>3 DEF SaveInterfaceOp
      <4> QED BY <1>3, <4>1, <4>2 DEF DeviceType, WantedInterface
    <3>5. SaveInterfaceProgress(s, o2)
      BY <1>3, <3>1, <3>3, <3>4 DEF SaveInterfaceProgress, SaveInterfaceOp, Saved
    <3> QED BY <1>4, <3>2, <3>5
  <2> QED BY <1>1, <1>5, <1>10, <2>1 DEF LoadIpAddresses, ReadFails
<1>11. CASE AddressesDone(s)
  <2>1. PICK o2 : o2 = [o EXCEPT !.pos = "ok"]
    OBVIOUS
  <2>2. /\ op' = [op EXCEPT ![s] = o2] /\ UNCHANGED router
        /\ o.pos = "change" /\ o.obsolete = {} /\ o.new = {}
    BY <1>1, <1>11, <2>1 DEF Then, AddressesDone, At
  <2>3. Saved(o) /\ device.addresses = o.want.addresses
    BY <1>2, <2>2 DEF SaveInterfaceProgress
  <2>4. SaveInterfaceProgress(s, o2)
    BY <1>3, <2>1, <2>3 DEF SaveInterfaceProgress, SaveInterfaceOp, Saved
  <2> QED BY <1>4, <2>2, <2>4
<1> QED BY <1>6, <1>7, <1>8, <1>9, <1>10, <1>11

LEMMA SaveInterfaceAddresses ==
    ASSUME ProgressInv, NEW s \in Slot, NEW a \in Address,
           DeleteAddress(s, a) \/ CreateAddress(s, a)
    PROVE  ProgressInv'
<1>1. PICK o : o = op[s]
  OBVIOUS
<1>2. /\ o.kind = "saveInterface" /\ o.pos = "change" /\ SaveInterfaceProgress(s, o) /\ Steps
      /\ o # Idle
  BY <1>1, KindOf DEF DeleteAddress, CreateAddress, At, ProgressInv, Idle
<1>3. /\ o \in SaveInterfaceOp /\ lock["interface"] = s /\ device \in DeviceType
      /\ backend = "mikrotik" /\ Saved(o)
      /\ o.obsolete = device.addresses \ o.want.addresses
      /\ o.new = o.want.addresses \ device.addresses
  BY <1>2 DEF SaveInterfaceProgress, ProgressInv, RouterType
<1>4. device \in [present: {TRUE}, settings: Settings \union {"default"},
                  addresses: SUBSET Address]
  <2>1. device # Absent
    BY <1>3 DEF Saved, Absent
  <2> QED BY <1>3, <2>1 DEF DeviceType
<1>5. ASSUME NEW d, NEW o2, d = [device EXCEPT !.addresses = d.addresses], d \in DeviceType,
             d.addresses \in SUBSET Address, SetDevice(d), op' = [op EXCEPT ![s] = o2],
             o2 \in SaveInterfaceOp, o2.pos = "change", o2.want = o.want,
             o2.obsolete = d.addresses \ o.want.addresses,
             o2.new = o.want.addresses \ d.addresses
      PROVE  ProgressInv'
  <2>1. Confined(s) /\ RouterType' /\ device' = d /\ UNCHANGED <<backend, lock>>
    BY <1>2, <1>3, <1>5, DeviceChange DEF Steps
  <2>2. d.present = device.present /\ d.settings = device.settings
    BY <1>4, <1>5
  <2>3. SaveInterfaceProgress(s, o2)'
    BY <1>3, <1>5, <2>1, <2>2 DEF SaveInterfaceProgress, Saved
  <2>4. o2.kind \notin RouteKinds
    BY <1>5 DEF SaveInterfaceOp, RouteKinds
  <2> QED BY <1>5, <2>1, <2>3, <2>4, StepKeeps DEF Progress
<1>6. ASSUME NEW d \in DeviceType, SetDevice(d), Then(s, "error") PROVE ProgressInv'
  <2>1. Confined(s) /\ RouterType' /\ UNCHANGED lock
    BY <1>2, <1>3, <1>6, DeviceChange DEF Steps
  <2> QED BY <1>1, <1>2, <1>6, <2>1, ErrorStep
<1>7. ASSUME UNCHANGED router, Then(s, "error") PROVE ProgressInv'
  BY <1>1, <1>2, <1>7, FailedStep DEF Steps
<1>8. CASE DeleteAddress(s, a)
  <2>1. PICK d, o2 : /\ d = [device EXCEPT !.addresses = device.addresses \ {a}]
                     /\ o2 = [o EXCEPT !.obsolete = o.obsolete \ {a}]
    OBVIOUS
  <2>2. /\ a \in o.obsolete
        /\ \/ SetDevice(d) /\ op' = [op EXCEPT ![s] = o2]
           \/ UNCHANGED router /\ Then(s, "error")
           \/ SetDevice(d) /\ Then(s, "error")
    BY <1>1, <1>3, <1>4, <1>8, <2>1 DEF DeleteAddress, Goto, RequestFails, SaveInterfaceOp
  <2>3. /\ d \in DeviceType /\ d = [device EXCEPT !.addresses = d.addresses]
        /\ d.addresses = device.addresses \ {a} /\ d.addresses \in SUBSET Address
    BY <1>4, <2>1 DEF DeviceType
  <2>4. /\ o2 \in SaveInterfaceOp /\ o2.pos = "change" /\ o2.want = o.want
        /\ o2.obsolete = o.obsolete \ {a} /\ o2.new = o.new
    BY <1>2, <1>3, <2>1 DEF SaveInterfaceOp
  <2>5. /\ o2.obsolete = d.addresses \ o.want.addresses
        /\ o2.new = o.want.addresses \ d.addresses
    BY <1>3, <2>2, <2>3, <2>4
  <2> QED BY <1>5, <1>6, <1>7, <2>2, <2>3, <2>4, <2>5
<1>9. CASE CreateAddress(s, a)
  <2>1. PICK d, o2 : /\ d = [device EXCEPT !.addresses = device.addresses \union {a}]
                     /\ o2 = [o EXCEPT !.new = o.new \ {a}]
    OBVIOUS
  <2>2. /\ a \in o.new
        /\ \/ SetDevice(d) /\ op' = [op EXCEPT ![s] = o2]
           \/ UNCHANGED router /\ Then(s, "error")
           \/ SetDevice(d) /\ Then(s, "error")
    BY <1>1, <1>3, <1>4, <1>9, <2>1 DEF CreateAddress, Goto, RequestFails, SaveInterfaceOp
  <2>3. /\ d \in DeviceType /\ d = [device EXCEPT !.addresses = d.addresses]
        /\ d.addresses = device.addresses \union {a} /\ d.addresses \in SUBSET Address
    BY <1>4, <2>1 DEF DeviceType
  <2>4. /\ o2 \in SaveInterfaceOp /\ o2.pos = "change" /\ o2.want = o.want
        /\ o2.obsolete = o.obsolete /\ o2.new = o.new \ {a}
    BY <1>2, <1>3, <2>1 DEF SaveInterfaceOp
  <2>5. /\ o2.obsolete = d.addresses \ o.want.addresses
        /\ o2.new = o.want.addresses \ d.addresses
    BY <1>3, <2>2, <2>3, <2>4
  <2> QED BY <1>5, <1>6, <1>7, <2>2, <2>3, <2>4, <2>5
<1> QED BY <1>8, <1>9

LEMMA DeleteInterfaceSteps ==
    ASSUME ProgressInv, NEW s \in Slot,
           DeleteInterfaceAddress(s) \/ DeleteInterfaceQuery(s) \/ DeleteInterfaceObject(s)
    PROVE  ProgressInv'
<1>1. PICK o : o = op[s]
  OBVIOUS
<1>2. /\ o.kind = "deleteInterface" /\ DeleteInterfaceProgress(s, o) /\ Steps
      /\ o # Idle /\ o.pos # "ok"
  BY <1>1, KindOf DEF DeleteInterfaceAddress, DeleteInterfaceQuery, DeleteInterfaceObject, At,
                      ProgressInv, Idle
<1>3. o \in DeleteInterfaceOp /\ lock["interface"] = s /\ device \in DeviceType
  BY <1>2 DEF DeleteInterfaceProgress, ProgressInv, RouterType
<1>4. ASSUME NEW next \in {"addresses", "query", "delete", "ok", "error"}, Then(s, next),
             UNCHANGED router, next = "ok" => ~ device.present
      PROVE  ProgressInv'
  <2>1. PICK o2 : o2 = [o EXCEPT !.pos = next]
    OBVIOUS
  <2>2. op' = [op EXCEPT ![s] = o2]
    BY <1>1, <1>4, <2>1 DEF Then
  <2>3. DeleteInterfaceProgress(s, o2)
    BY <1>3, <1>4, <2>1 DEF DeleteInterfaceProgress, DeleteInterfaceOp
  <2>4. o2.kind \notin RouteKinds
    BY <2>3 DEF DeleteInterfaceProgress, DeleteInterfaceOp, RouteKinds
  <2> QED BY <1>2, <1>4, <2>2, <2>3, <2>4, ReadingStep DEF Progress, Steps
<1>5. ASSUME NEW d \in DeviceType, NEW next \in {"addresses", "ok"}, Writes(s, SetDevice(d), next),
             next = "ok" => ~ d.present
      PROVE  ProgressInv'
  <2>1. PICK o2 : o2 = [o EXCEPT !.pos = next]
    OBVIOUS
  <2>2. o2 \in DeleteInterfaceOp /\ o2.kind = o.kind /\ o2.pos = next
    BY <1>3, <2>1 DEF DeleteInterfaceOp
  <2>3. SetDevice(d) => Confined(s) /\ RouterType' /\ device' = d
    BY <1>2, <1>3, DeviceChange
  <2>4. SetDevice(d) => Progress(s, o2)'
    BY <1>2, <1>3, <1>5, <2>2, <2>3 DEF Progress, DeleteInterfaceProgress, Steps
  <2> QED BY <1>1, <1>2, <1>5, <2>1, <2>2, <2>3, <2>4, WritingStep
<1>6. CASE DeleteInterfaceAddress(s)
  <2>1. CASE ~ device.present \/ device.addresses = {}
    BY <1>4, <1>6, <2>1 DEF DeleteInterfaceAddress
  <2>2. CASE device.present
    <3>1. device # Absent
      BY <2>2 DEF Absent
    <3>2. \A a \in device.addresses :
            [device EXCEPT !.addresses = device.addresses \ {a}] \in DeviceType
      BY <1>3, <3>1 DEF DeviceType
    <3>3. CASE device.addresses # {}
      <4>1. PICK a \in device.addresses :
              Writes(s, SetDevice([device EXCEPT !.addresses = device.addresses \ {a}]), "addresses")
        BY <1>3, <1>6, <2>2, <3>1, <3>3 DEF DeleteInterfaceAddress, DeviceType
      <4> QED BY <1>5, <3>2, <4>1
    <3> QED BY <2>1, <3>3
  <2> QED BY <2>1, <2>2
<1>7. CASE DeleteInterfaceQuery(s)
  <2>1. UNCHANGED router
    BY <1>7 DEF DeleteInterfaceQuery, Reads, ReadFails
  <2>2. PICK next \in {"delete", "ok", "error"} :
            Then(s, next) /\ (next = "ok" => ~ device.present)
    BY <1>7 DEF DeleteInterfaceQuery
  <2> QED BY <1>4, <2>1, <2>2
<1>8. CASE DeleteInterfaceObject(s)
  <2>1. Absent \in DeviceType /\ ~ Absent.present
    BY DEF DeviceType, Absent
  <2> QED BY <1>5, <1>8, <2>1 DEF DeleteInterfaceObject
<1> QED BY <1>6, <1>7, <1>8

LEMMA PeerChange ==
    ASSUME ProgressInv, NEW s \in Slot, lock["peer"] = s, Steps, NEW d \in PeerType, SetPeer(d)
    PROVE  Confined(s) /\ RouterType' /\ peer' = d
  BY DEF Confined, Steps, SetPeer, ProgressInv, RouterType

LEMMA SavePeerSteps ==
    ASSUME ProgressInv, NEW s \in Slot, QueryPeer(s) \/ CreatePeer(s) \/ UpdatePeer(s)
    PROVE  ProgressInv'
<1>1. PICK o : o = op[s]
  OBVIOUS
<1>2. /\ o.kind = "savePeer" /\ SavePeerProgress(s, o) /\ Steps /\ o # Idle /\ o.pos # "ok"
  BY <1>1, KindOf DEF QueryPeer, CreatePeer, UpdatePeer, At, ProgressInv, Idle
<1>3. o \in SavePeerOp /\ lock["peer"] = s /\ peer \in PeerType /\ backend \in Backends
  BY <1>2 DEF SavePeerProgress, ProgressInv, RouterType
<1>4. ASSUME NEW next \in {"create", "update", "error"}, Then(s, next), UNCHANGED router,
             next = "update" => peer.present
      PROVE  ProgressInv'
  <2>1. PICK o2 : o2 = [o EXCEPT !.pos = next]
    OBVIOUS
  <2>2. op' = [op EXCEPT ![s] = o2]
    BY <1>1, <1>4, <2>1 DEF Then
  <2>3. o2 \in SavePeerOp /\ o2.pos = next
    BY <1>3, <2>1 DEF SavePeerOp
  <2>4. SavePeerProgress(s, o2)
    BY <1>3, <1>4, <2>3 DEF SavePeerProgress
  <2>5. o2.kind \notin RouteKinds
    BY <2>3 DEF SavePeerOp, RouteKinds
  <2> QED BY <1>2, <1>4, <2>2, <2>4, <2>5, ReadingStep DEF Progress, Steps
<1>5. CASE QueryPeer(s)
  <2>1. PICK next \in {"create", "update"} :
            Then(s, next) /\ (next = "update" => peer.present)
    BY <1>5 DEF QueryPeer
  <2>2. UNCHANGED router
    BY <1>5 DEF QueryPeer, Reads, ReadFails
  <2> QED BY <1>4, <2>1, <2>2
<1>6. CASE CreatePeer(s)
  <2>1. CASE peer.present
    BY <1>4, <1>6, <2>1 DEF CreatePeer
  <2>2. CASE ~ peer.present
    <3>1. PICK o2 : o2 = [o EXCEPT !.pos = "update"]
      OBVIOUS
    <3>2. o2 \in SavePeerOp /\ o2.kind = o.kind /\ o2.pos = "update"
      BY <1>3, <3>1 DEF SavePeerOp
    <3>3. NewPeer \in PeerType /\ NewPeer.present
      BY DEF NewPeer, PeerType
    <3>4. SetPeer(NewPeer) => Confined(s) /\ RouterType' /\ peer' = NewPeer
      BY <1>2, <1>3, <3>3, PeerChange
    <3>5. SetPeer(NewPeer) => Progress(s, o2)'
      BY <1>2, <1>3, <3>2, <3>3, <3>4 DEF Progress, SavePeerProgress, Steps
    <3>6. Writes(s, SetPeer(NewPeer), "update")
      BY <1>6, <2>2 DEF CreatePeer
    <3>7. o2 = [op[s] EXCEPT !.pos = "update"] /\ o2.kind = op[s].kind
      BY <1>1, <3>1, <3>2
    <3> QED BY <1>1, <1>2, <3>4, <3>5, <3>6, <3>7, WritingStep
  <2> QED BY <2>1, <2>2
<1>7. CASE UpdatePeer(s)
  <2>1. PICK endpoint, d, o2 :
            /\ endpoint = IF backend = "pfsense" THEN PfsenseEndpoint(o.want)
                          ELSE IF o.want.responder THEN "" ELSE o.want.endpoint
            /\ d = [peer EXCEPT !.settings = o.want.settings, !.endpoint = endpoint]
            /\ o2 = [o EXCEPT !.pos = "ok"]
    OBVIOUS
  <2>2. Writes(s, SetPeer(d), "ok") /\ peer.present
    BY <1>1, <1>2, <1>7, <2>1 DEF UpdatePeer, At, SavePeerProgress
  <2>3. /\ peer \in [present: {TRUE}, settings: Settings \union {"default"},
                     endpoint: {"", "host"}]
        /\ o.want \in WantedPeer
    <3>1. peer # Absent
      BY <2>2 DEF Absent
    <3>2. o.want \in WantedPeer
      BY <1>3 DEF SavePeerOp
    <3> QED BY <1>3, <3>1, <3>2 DEF PeerType
  <2>4. /\ endpoint \in {"", "host"}
        /\ backend = "mikrotik" /\ o.want.responder => endpoint = ""
        /\ ~ o.want.responder /\ o.want.endpoint # "" => endpoint = o.want.endpoint
    BY <1>3, <2>1, <2>3 DEF PfsenseEndpoint, WantedPeer, Backends
  <2>5. /\ d \in PeerType /\ d.present /\ d.settings = o.want.settings
        /\ d.endpoint = endpoint
    BY <2>1, <2>3, <2>4 DEF PeerType, WantedPeer
  <2>6. SetPeer(d) => Confined(s) /\ RouterType' /\ peer' = d
    BY <1>2, <1>3, <2>5, PeerChange
  <2>7. o2 \in SavePeerOp /\ o2.pos = "ok" /\ o2.kind = o.kind /\ o2.want = o.want
    BY <1>3, <2>1 DEF SavePeerOp
  <2>8. ASSUME SetPeer(d) PROVE Progress(s, o2)'
    <3>1. peer' = d /\ UNCHANGED <<backend, lock>>
      BY <1>2, <2>6, <2>8 DEF Steps
    <3>2. SavePeerProgress(s, o2)'
      BY <1>3, <2>4, <2>5, <2>7, <3>1 DEF SavePeerProgress
    <3> QED BY <3>2 DEF Progress
  <2>9. o2 = [op[s] EXCEPT !.pos = "ok"] /\ o2.kind = op[s].kind
    BY <1>1, <2>1, <2>7
  <2> QED BY <1>1, <1>2, <2>2, <2>6, <2>8, <2>9, WritingStep
<1> QED BY <1>5, <1>6, <1>7

LEMMA DeletePeerSteps ==
    ASSUME ProgressInv, NEW s \in Slot, DeletePeerQuery(s) \/ DeletePeerObject(s)
    PROVE  ProgressInv'
<1>1. PICK o : o = op[s]
  OBVIOUS
<1>2. /\ o.kind = "deletePeer" /\ DeletePeerProgress(s, o) /\ Steps /\ o # Idle /\ o.pos # "ok"
  BY <1>1, KindOf DEF DeletePeerQuery, DeletePeerObject, At, ProgressInv, Idle
<1>3. o \in DeletePeerOp /\ lock["peer"] = s
  BY <1>2 DEF DeletePeerProgress
<1>4. CASE DeletePeerQuery(s)
  <2>1. PICK next \in {"delete", "ok", "error"} :
            Then(s, next) /\ (next = "ok" => ~ peer.present)
    BY <1>4 DEF DeletePeerQuery
  <2>2. UNCHANGED router
    BY <1>4 DEF DeletePeerQuery, Reads, ReadFails
  <2>3. PICK o2 : o2 = [o EXCEPT !.pos = next]
    OBVIOUS
  <2>4. op' = [op EXCEPT ![s] = o2]
    BY <1>1, <2>1, <2>3 DEF Then
  <2>5. DeletePeerProgress(s, o2)
    BY <1>3, <2>1, <2>3 DEF DeletePeerProgress, DeletePeerOp
  <2>6. o2.kind \notin RouteKinds
    BY <2>5 DEF DeletePeerProgress, DeletePeerOp, RouteKinds
  <2> QED BY <1>2, <2>2, <2>4, <2>5, <2>6, ReadingStep DEF Progress, Steps
<1>5. CASE DeletePeerObject(s)
  <2>1. PICK o2 : o2 = [o EXCEPT !.pos = "ok"]
    OBVIOUS
  <2>2. o2 \in DeletePeerOp /\ o2.kind = o.kind
    BY <1>3, <2>1 DEF DeletePeerOp
  <2>3. Absent \in PeerType /\ ~ Absent.present
    BY DEF PeerType, Absent
  <2>4. SetPeer(Absent) => Confined(s) /\ RouterType' /\ peer' = Absent
    BY <1>2, <1>3, <2>3, PeerChange
  <2>5. SetPeer(Absent) => Progress(s, o2)'
    BY <1>2, <1>3, <2>2, <2>3, <2>4 DEF Progress, DeletePeerProgress, Steps
  <2>6. Writes(s, SetPeer(Absent), "ok")
    BY <1>5 DEF DeletePeerObject
  <2> QED BY <1>1, <1>2, <2>1, <2>2, <2>4, <2>5, <2>6, WritingStep
<1> QED BY <1>4, <1>5

LEMMA ServersSteps ==
    ASSUME ProgressInv, NEW s \in Slot, GetServers(s) \/ SetServerList(s)
    PROVE  ProgressInv'
<1>1. PICK o : o = op[s]
  OBVIOUS
<1>2. o.kind \in ServerKinds /\ ServersProgress(s, o) /\ Steps /\ o # Idle /\ o.pos # "ok"
  BY <1>1, KindOf DEF GetServers, SetServerList, ProgressInv, Idle, ServerKinds
<1>3. o \in ServersOp /\ lock["core"] = s /\ dns \subseteq Server
  BY <1>2 DEF ServersProgress, ProgressInv, RouterType
<1>4. CASE GetServers(s)
  <2>1. CASE ReadFails /\ Then(s, "error")
    BY <1>1, <1>2, <2>1, FailedStep DEF ReadFails, Steps
  <2>2. CASE Reads /\ Goto(s, [o EXCEPT !.pos = "set", !.read = dns])
    <3>1. PICK o2 : o2 = [o EXCEPT !.pos = "set", !.read = dns]
      OBVIOUS
    <3>2. op' = [op EXCEPT ![s] = o2] /\ UNCHANGED router
      BY <2>2, <3>1 DEF Goto, Reads
    <3>3. o2 \in ServersOp /\ o2.pos = "set" /\ o2.read = dns /\ o2.kind \notin RouteKinds
      BY <1>3, <3>1 DEF ServersOp, ServerKinds, RouteKinds
    <3>4. ServersProgress(s, o2)
      BY <1>3, <3>3 DEF ServersProgress
    <3> QED BY <1>2, <3>2, <3>3, <3>4, ReadingStep DEF Progress, Steps
  <2> QED BY <1>1, <1>4, <2>1, <2>2 DEF GetServers
<1>5. CASE SetServerList(s)
  <2>1. PICK merged, o2 :
            /\ merged = IF o.kind = "setDNS" THEN o.read \union o.servers ELSE o.read \ o.servers
            /\ o2 = [o EXCEPT !.pos = "ok"]
    OBVIOUS
  <2>2. Writes(s, SetServers(merged), "ok") /\ o.pos = "set" /\ merged \subseteq Server
    BY <1>1, <1>3, <1>5, <2>1 DEF SetServerList, ServersOp
  <2>3. SetServers(merged) => Confined(s) /\ RouterType' /\ dns' = merged
    BY <1>2, <1>3, <2>2 DEF Confined, Steps, SetServers, ProgressInv, RouterType
  <2>4. /\ o2 \in ServersOp /\ o2.pos = "ok" /\ o2.kind = o.kind /\ o2.servers = o.servers
    BY <1>3, <2>1 DEF ServersOp
  <2>5. ASSUME SetServers(merged) PROVE Progress(s, o2)'
    <3>1. dns' = merged /\ UNCHANGED lock
      BY <1>2, <2>3, <2>5 DEF Steps
    <3>2. ServersProgress(s, o2)'
      BY <1>3, <2>1, <2>4, <3>1 DEF ServersProgress
    <3> QED BY <3>2 DEF Progress
  <2>6. o2 = [op[s] EXCEPT !.pos = "ok"] /\ o2.kind = op[s].kind
    BY <1>1, <2>1, <2>4
  <2> QED BY <1>1, <1>2, <2>2, <2>3, <2>5, <2>6, WritingStep
<1> QED BY <1>4, <1>5

\* A step of an operation on routes.
LEMMA RoutesStep ==
    ASSUME ProgressInv, NEW s \in Slot, NEW o, o = op[s], o.kind \in RouteKinds, o.pos # "ok",
           NEW o2, op' = [op EXCEPT ![s] = o2], UNCHANGED <<backend, lock, device, peer, dns>>,
           routes' \in [Route -> Nat], RoutesShape(o2), o2.overlap = o.overlap,
           ~ o.overlap => RoutesReached(o2)'
    PROVE  ProgressInv'
<1>1. RoutesProgress(s, o) /\ backend = "mikrotik"
  BY KindOf DEF ProgressInv, RoutesProgress
<1>2. \A x \in Slot \ {s} : op'[x] = op[x]
  BY DEF ProgressInv
<1>3. RoutesProgress(s, o2)'
  BY <1>1, <1>2 DEF RoutesProgress, RoutesShape, Unwanted
<1>4. Confined(s) /\ RouterType'
  BY DEF Confined, ProgressInv, RouterType
<1> QED BY <1>3, <1>4, StepKeeps DEF Progress

LEMMA RoutesError ==
    ASSUME ProgressInv, NEW s \in Slot, NEW o, o = op[s], o.kind \in RouteKinds, o.pos # "ok",
           Then(s, "error"), UNCHANGED <<backend, lock, device, peer, dns>>,
           routes' \in [Route -> Nat]
    PROVE  ProgressInv'
<1>1. Confined(s) /\ RouterType'
  BY DEF Confined, ProgressInv, RouterType
<1>2. op[s] # Idle
  BY DEF Idle, RouteKinds
<1> QED BY <1>1, <1>2, ErrorStep

\* Operations with the same goal find the same routes unwanted and missing.
LEMMA SameGoal ==
    ASSUME NEW o, NEW o2, o2.kind = o.kind, o2.cidrs = o.cidrs, o2.table = o.table,
           NEW cidrs, NEW except
    PROVE  /\ \A r : Unwanted(o2, r) <=> Unwanted(o, r)
           /\ Cleared(o2, cidrs, except) <=> Cleared(o, cidrs, except)
           /\ Served(o2, cidrs, except) <=> Served(o, cidrs, except)
  BY DEF Unwanted, Cleared, Served

LEMMA RoutesTables ==
    ASSUME ProgressInv, NEW s \in Slot,
           GetRoutingTables(s) \/ CreateRoutingTable(s) \/ RemoveRoutingTable(s)
    PROVE  ProgressInv'
<1>1. PICK o : o = op[s]
  OBVIOUS
<1>2. /\ o.kind \in RouteKinds /\ RoutesProgress(s, o) /\ Steps /\ o.pos # "ok"
      /\ o.pos \in {"table", "createTable", "removeTable"}
  BY <1>1, KindOf DEF GetRoutingTables, CreateRoutingTable, RemoveRoutingTable, At, ProgressInv,
                      RouteKinds
<1>3. /\ RoutesShape(o) /\ o \in RoutesOp /\ routes \in [Route -> Nat]
      /\ ~ o.overlap => RoutesReached(o)
      /\ UNCHANGED <<backend, lock>>
  BY <1>2 DEF RoutesProgress, RoutesShape, ProgressInv, RouterType, Steps
<1>4. ASSUME NEW o2, op' = [op EXCEPT ![s] = o2], UNCHANGED <<device, peer, dns, routes>>,
             RoutesShape(o2), o2.overlap = o.overlap, ~ o.overlap => RoutesReached(o2)'
      PROVE  ProgressInv'
  BY <1>1, <1>2, <1>3, <1>4, RoutesStep
<1>5. ASSUME UNCHANGED <<device, peer, dns, routes>>, Then(s, "error") PROVE ProgressInv'
  BY <1>1, <1>2, <1>3, <1>5, RoutesError
<1>6. ASSUME NEW next \in {"query", "createTable", "ok"}, NEW o2, o2 = [o EXCEPT !.pos = next]
      PROVE  /\ o2 \in RoutesOp /\ o2.pos = next /\ o2.kind = o.kind /\ o2.table = o.table
             /\ o2.overlap = o.overlap /\ o2.family = o.family /\ o2.cidrs = o.cidrs
             /\ RoutesDone(o2) = IF next = "ok" THEN Cidr
                                 ELSE IF o.family = CidrV4 THEN {} ELSE CidrV4
             /\ Then(s, next) => op' = [op EXCEPT ![s] = o2]
  <2>1. /\ o2 \in RoutesOp /\ o2.pos = next /\ o2.kind = o.kind /\ o2.table = o.table
        /\ o2.overlap = o.overlap /\ o2.family = o.family /\ o2.cidrs = o.cidrs
    BY <1>3, <1>6 DEF RoutesOp
  <2> QED BY <1>1, <1>6, <2>1 DEF Then, RoutesDone
<1>7. ASSUME o.pos \in {"table", "createTable"}, Then(s, "query"), o.table \in tables',
             UNCHANGED <<device, peer, dns, routes>>
      PROVE  ProgressInv'
  <2>1. PICK o2 : o2 = [o EXCEPT !.pos = "query"]
    OBVIOUS
  <2>2. o.kind = "setRoutes" /\ o.family = CidrV4
    BY <1>3, <1>7 DEF RoutesShape
  <2>3. /\ o2 \in RoutesOp /\ o2.pos = "query" /\ o2.kind = o.kind /\ o2.table = o.table
        /\ o2.overlap = o.overlap /\ RoutesDone(o2) = {} /\ op' = [op EXCEPT ![s] = o2]
    BY <1>6, <1>7, <2>1, <2>2
  <2>4. RoutesShape(o2)
    BY <2>2, <2>3 DEF RoutesShape
  <2>5. RoutesReached(o2)'
    BY <1>7, <2>2, <2>3 DEF RoutesReached, RoutesDone, Cleared, Served
  <2> QED BY <1>4, <1>7, <2>3, <2>4, <2>5
<1>8. CASE GetRoutingTables(s)
  <2>1. UNCHANGED <<device, peer, dns, routes, tables>> /\ o.pos = "table"
    BY <1>1, <1>8 DEF GetRoutingTables, Reads, ReadFails, router, At
  <2>2. CASE o.table \in tables /\ Then(s, "query")
    BY <1>7, <2>1, <2>2
  <2>3. CASE Then(s, "createTable")
    <3>1. PICK o2 : o2 = [o EXCEPT !.pos = "createTable"]
      OBVIOUS
    <3>2. /\ o2 \in RoutesOp /\ o2.pos = "createTable" /\ o2.kind = o.kind
          /\ o2.overlap = o.overlap /\ o2.family = o.family /\ op' = [op EXCEPT ![s] = o2]
      BY <1>6, <2>3, <3>1
    <3>3. RoutesShape(o2)
      BY <1>3, <2>1, <3>2 DEF RoutesShape
    <3>4. RoutesReached(o2)'
      BY <3>2 DEF RoutesReached, AtRoutes
    <3> QED BY <1>4, <2>1, <3>2, <3>3, <3>4
  <2> QED BY <1>1, <1>5, <1>8, <2>1, <2>2, <2>3 DEF GetRoutingTables
<1>9. CASE CreateRoutingTable(s)
  <2>1. o.pos = "createTable"
    BY <1>1, <1>9 DEF CreateRoutingTable, At
  <2>2. CASE UNCHANGED router /\ Then(s, "error")
    BY <1>5, <2>2 DEF router
  <2>3. CASE SetTables(tables \union {o.table}) /\ Then(s, "query")
    BY <1>7, <2>1, <2>3 DEF SetTables
  <2>4. CASE SetTables(tables \union {o.table}) /\ Then(s, "error")
    BY <1>5, <2>4 DEF SetTables
  <2> QED BY <1>1, <1>9, <2>2, <2>3, <2>4 DEF CreateRoutingTable, Writes, RequestFails
<1>10. CASE RemoveRoutingTable(s)
  <2>1. o.pos = "removeTable" /\ o.kind = "removeRoutes"
    BY <1>1, <1>10 DEF RemoveRoutingTable, At
  <2>2. CASE UNCHANGED router /\ Then(s, "error")
    BY <1>5, <2>2 DEF router
  <2>3. CASE SetTables(tables \ {o.table}) /\ Then(s, "ok")
    <3>1. PICK o2 : o2 = [o EXCEPT !.pos = "ok"]
      OBVIOUS
    <3>2. /\ o2 \in RoutesOp /\ o2.pos = "ok" /\ o2.kind = o.kind /\ o2.table = o.table
          /\ o2.overlap = o.overlap /\ o2.cidrs = o.cidrs
          /\ RoutesDone(o2) = Cidr /\ op' = [op EXCEPT ![s] = o2]
      BY <1>6, <2>3, <3>1
    <3>3. RoutesShape(o2)
      BY <3>2 DEF RoutesShape
    <3>4. /\ tables' = tables \ {o.table}
          /\ UNCHANGED <<device, peer, dns, routes>>
      BY <2>3 DEF SetTables
    <3>5. ASSUME ~ o.overlap PROVE RoutesReached(o2)'
      <4>1. Cleared(o, Cidr, {}) /\ RoutesDone(o) = Cidr
        BY <1>3, <2>1, <3>5 DEF RoutesReached, RoutesDone, AtRoutes
      <4>2. Cleared(o2, Cidr, {})' /\ RoutesDone(o2)' = Cidr
        BY <3>2, <3>4, <4>1, SameGoal DEF Cleared, RoutesDone
      <4>3. o2.kind = "removeRoutes" /\ Served(o2, Cidr, {})'
        BY <2>1, <3>2 DEF Served
      <4> QED BY <3>2, <3>4, <4>2, <4>3 DEF RoutesReached
    <3> QED BY <1>4, <3>2, <3>3, <3>4, <3>5
  <2>4. CASE SetTables(tables \ {o.table}) /\ Then(s, "error")
    BY <1>5, <2>4 DEF SetTables
  <2> QED BY <1>1, <1>10, <2>2, <2>3, <2>4 DEF RemoveRoutingTable, Writes, RequestFails
<1> QED BY <1>8, <1>9, <1>10

LEMMA RoutesRequests ==
    ASSUME ProgressInv, NEW s \in Slot, op[s].kind \in RouteKinds,
           \/ QueryRoutes(s) \/ RoutesCreated(s) \/ FamilyDone(s)
           \/ \E c \in Cidr : CreateRoute(s, c)
           \/ \E r \in Route : DeleteRoute(s, r)
    PROVE  ProgressInv'
<1>1. PICK o : o = op[s]
  OBVIOUS
<1>2. /\ o.kind \in RouteKinds /\ RoutesProgress(s, o) /\ Steps /\ o.pos # "ok"
      /\ o.pos \in {"query", "create", "delete"}
  BY <1>1, KindOf DEF QueryRoutes, RoutesCreated, FamilyDone, CreateRoute, DeleteRoute, ProgressInv
<1>3. /\ RoutesShape(o) /\ o \in RoutesOp /\ routes \in [Route -> Nat]
      /\ ~ o.overlap => RoutesReached(o)
      /\ UNCHANGED <<backend, lock>>
  BY <1>2 DEF RoutesProgress, RoutesShape, ProgressInv, RouterType, Steps
<1>4. ~ o.overlap => /\ Cleared(o, RoutesDone(o), {}) /\ Served(o, RoutesDone(o), {})
                     /\ o.kind = "setRoutes" => o.table \in tables
                     /\ RoutesDone(o) = IF o.family = CidrV4 THEN {} ELSE CidrV4
  BY <1>2, <1>3 DEF RoutesReached, AtRoutes, RoutesDone
<1>5. ASSUME NEW o2, op' = [op EXCEPT ![s] = o2], UNCHANGED <<device, peer, dns>>,
             routes' \in [Route -> Nat],
             RoutesShape(o2), o2.overlap = o.overlap, ~ o.overlap => RoutesReached(o2)'
      PROVE  ProgressInv'
  BY <1>1, <1>2, <1>3, <1>5, RoutesStep
<1>6. ASSUME UNCHANGED <<device, peer, dns>>, routes' \in [Route -> Nat], Then(s, "error")
      PROVE ProgressInv'
  BY <1>1, <1>2, <1>3, <1>6, RoutesError
<1>7. ASSUME UNCHANGED router, Then(s, "error") PROVE ProgressInv'
  BY <1>3, <1>6, <1>7 DEF router
<1>8. CASE QueryRoutes(s)
  <2> DEFINE there == {r \in Route : r.cidr \in op[s].family /\ routes[r] > 0}
             absent == {c \in op[s].cidrs \intersect op[s].family :
                           \A r \in there : ~ (r.cidr = c /\ r.table = op[s].table)}
             create == IF op[s].kind = "removeRoutes" THEN {} ELSE absent
  <2>0. \/ Reads /\ Goto(s, [op[s] EXCEPT !.pos = "create", !.read = there, !.todo = create])
        \/ ReadFails /\ Then(s, "error")
    BY <1>8 DEF QueryRoutes
  <2>1. PICK read, missing, todo, o2 :
            /\ read = there /\ missing = absent /\ todo = create
            /\ o2 = [op[s] EXCEPT !.pos = "create", !.read = there, !.todo = create]
    OBVIOUS
  <2>2. /\ o2 = [o EXCEPT !.pos = "create", !.read = read, !.todo = todo]
        /\ read = {r \in Route : r.cidr \in o.family /\ routes[r] > 0}
        /\ missing = {c \in o.cidrs \intersect o.family :
                         \A r \in read : ~ (r.cidr = c /\ r.table = o.table)}
        /\ todo = IF o.kind = "removeRoutes" THEN {} ELSE missing
    BY <1>1, <2>1
  <2> HIDE DEF there, absent, create
  <2>3. CASE Reads /\ op' = [op EXCEPT ![s] = o2]
    <3>1. read \subseteq Route /\ todo \subseteq Cidr /\ todo \subseteq o.cidrs \intersect o.family
      BY <1>3, <2>2 DEF RoutesOp
    <3>2. /\ o2 \in RoutesOp /\ o2.pos = "create" /\ o2.kind = o.kind /\ o2.table = o.table
          /\ o2.overlap = o.overlap /\ o2.cidrs = o.cidrs /\ o2.family = o.family
          /\ o2.read = read /\ o2.todo = todo
      BY <1>3, <2>2, <3>1 DEF RoutesOp
    <3>3. RoutesShape(o2)
      BY <2>2, <3>1, <3>2 DEF RoutesShape
    <3>4. ASSUME ~ o.overlap PROVE RoutesReached(o2)
      <4>1. RoutesDone(o2) = RoutesDone(o)
        BY <1>2, <3>2 DEF RoutesDone
      <4>2. Cleared(o2, RoutesDone(o2), {}) /\ Served(o2, RoutesDone(o2), {})
        BY <1>4, <3>2, <3>4, <4>1, SameGoal
      <4>3. Cleared(o2, o2.family, o2.read)
        BY <2>2, <3>2 DEF Cleared
      <4>4. Served(o2, o2.family, o2.todo)
        <5>1. ASSUME o2.kind = "setRoutes", NEW c \in (o2.cidrs \intersect o2.family) \ o2.todo
              PROVE  \E r \in Route : r.cidr = c /\ r.table = o2.table /\ routes[r] > 0
          <6>1. c \in o.cidrs \intersect o.family /\ c \notin missing
            BY <2>2, <3>2, <5>1
          <6>2. PICK r \in read : r.cidr = c /\ r.table = o.table
            BY <2>2, <6>1
          <6> QED BY <2>2, <3>2, <6>2
        <5> QED BY <5>1 DEF Served
      <4> QED BY <1>4, <3>2, <3>4, <4>2, <4>3, <4>4 DEF RoutesReached
    <3>5. RoutesReached(o2) => RoutesReached(o2)'
      BY <2>3 DEF RoutesReached, Cleared, Served, Reads, router
    <3> QED BY <1>3, <1>5, <2>3, <3>2, <3>3, <3>4, <3>5 DEF Reads, router
  <2>4. CASE ReadFails /\ Then(s, "error")
    BY <1>7, <2>4 DEF ReadFails
  <2>5. (Reads /\ op' = [op EXCEPT ![s] = o2]) \/ (ReadFails /\ Then(s, "error"))
    BY <2>0, <2>1 DEF Goto
  <2> QED BY <2>3, <2>4, <2>5
<1>9. ASSUME NEW c \in Cidr, CreateRoute(s, c) PROVE ProgressInv'
  <2>1. PICK route, o2 : /\ route = StaticRoute(c, o.table)
                         /\ o2 = [o EXCEPT !.todo = o.todo \ {c}]
    OBVIOUS
  <2>2. /\ o.pos = "create" /\ c \in o.todo
        /\ \/ SetRouteCount(route, routes[route] + 1) /\ op' = [op EXCEPT ![s] = o2]
           \/ UNCHANGED router /\ Then(s, "error")
           \/ SetRouteCount(route, routes[route] + 1) /\ Then(s, "error")
    BY <1>1, <1>3, <1>9, <2>1 DEF CreateRoute, Goto, RequestFails, RoutesOp
  <2>3. /\ o.kind = "setRoutes" /\ c \in o.cidrs \intersect o.family
        /\ o.todo \subseteq o.cidrs \intersect o.family
    BY <1>2, <1>3, <2>2 DEF RoutesShape, RouteKinds
  <2>4. /\ route \in Route /\ route.cidr = c /\ route.table = o.table
    BY <1>3, <2>1 DEF StaticRoute, Route, RoutesOp
  <2>5. /\ o2 \in RoutesOp /\ o2.pos = "create" /\ o2.kind = o.kind /\ o2.table = o.table
        /\ o2.overlap = o.overlap /\ o2.cidrs = o.cidrs /\ o2.family = o.family
        /\ o2.read = o.read /\ o2.todo = o.todo \ {c}
    BY <1>3, <2>1, <2>2 DEF RoutesOp
  <2>6. RoutesShape(o2)
    BY <2>3, <2>5 DEF RoutesShape
  <2>7. ASSUME SetRouteCount(route, routes[route] + 1)
        PROVE  /\ UNCHANGED <<device, peer, dns, tables>> /\ routes' \in [Route -> Nat]
               /\ \A r \in Route : routes'[r] >= routes[r]
               /\ \A r \in Route : r # route => routes'[r] = routes[r]
               /\ routes'[route] > 0
    BY <1>3, <2>4, <2>7 DEF SetRouteCount
  <2>8. ASSUME SetRouteCount(route, routes[route] + 1), ~ o.overlap PROVE RoutesReached(o2)'
    <3>1. /\ Served(o, o.family, o.todo) /\ Cleared(o, o.family, o.read)
      BY <1>3, <2>2, <2>8 DEF RoutesReached
    <3>2. RoutesDone(o2) = RoutesDone(o)
      BY <2>2, <2>5 DEF RoutesDone
    <3>3. ~ Unwanted(o, route)
      BY <2>3, <2>4 DEF Unwanted
    <3>4. ASSUME NEW cidrs, NEW except, Cleared(o, cidrs, except)
          PROVE  \A r \in Route : r.cidr \in cidrs /\ Unwanted(o2, r) /\ routes'[r] > 0 => r \in except
      BY <2>5, <2>7, <2>8, <3>3, <3>4 DEF Cleared, Unwanted
    <3>5. ASSUME NEW cidrs, NEW except, Served(o, cidrs, except)
          PROVE  \A k \in (o2.cidrs \intersect cidrs) \ except :
                    \E r \in Route : r.cidr = k /\ r.table = o2.table /\ routes'[r] > 0
      <4>1. \A r \in Route : routes[r] > 0 => routes'[r] > 0
        BY <1>3, <2>7, <2>8
      <4> QED BY <2>3, <2>5, <3>5, <4>1 DEF Served
    <3>6. \A k \in (o2.cidrs \intersect o2.family) \ o2.todo :
             \E r \in Route : r.cidr = k /\ r.table = o2.table /\ routes'[r] > 0
      <4>1. ASSUME NEW k \in (o2.cidrs \intersect o2.family) \ o2.todo, k # c
            PROVE  k \in (o2.cidrs \intersect o.family) \ o.todo
        BY <2>5, <4>1
      <4> QED BY <2>4, <2>5, <2>7, <2>8, <3>1, <3>5, <4>1
    <3>7. /\ Cleared(o2, RoutesDone(o2), {})' /\ Served(o2, RoutesDone(o2), {})'
      <4>1. Cleared(o, RoutesDone(o2), {}) /\ Served(o, RoutesDone(o2), {})
        BY <1>4, <2>8, <3>2
      <4>2. PICK done : done = RoutesDone(o2)
        OBVIOUS
      <4>3. done = RoutesDone(o2)'
        BY <4>2 DEF RoutesDone
      <4>4. \A r \in Route : r.cidr \in done /\ Unwanted(o2, r) /\ routes'[r] > 0 => r \in {}
        BY <3>4, <4>1, <4>2
      <4>5. Cleared(o2, done, {})'
        BY <4>4 DEF Cleared, Unwanted
      <4>6. \A k \in (o2.cidrs \intersect done) \ {} :
               \E r \in Route : r.cidr = k /\ r.table = o2.table /\ routes'[r] > 0
        BY <3>5, <4>1, <4>2
      <4>7. Served(o2, done, {})'
        BY <4>6 DEF Served
      <4> QED BY <4>3, <4>5, <4>7
    <3>8. Cleared(o2, o2.family, o2.read)' /\ Served(o2, o2.family, o2.todo)'
      BY <2>5, <3>1, <3>4, <3>6 DEF Cleared, Served, Unwanted
    <3> QED BY <1>4, <2>3, <2>5, <2>7, <2>8, <3>7, <3>8 DEF RoutesReached
  <2>9. CASE UNCHANGED router /\ Then(s, "error")
    BY <1>7, <2>9
  <2>10. CASE SetRouteCount(route, routes[route] + 1) /\ Then(s, "error")
    BY <1>6, <2>7, <2>10
  <2>11. CASE SetRouteCount(route, routes[route] + 1) /\ op' = [op EXCEPT ![s] = o2]
    BY <1>5, <2>5, <2>6, <2>7, <2>8, <2>11
  <2> QED BY <2>2, <2>9, <2>10, <2>11
<1>10. CASE RoutesCreated(s)
  <2>1. PICK todo, o2 : /\ todo = Outdated(s, o.read)
                        /\ o2 = [o EXCEPT !.pos = "delete", !.todo = todo]
    OBVIOUS
  <2>2. /\ op' = [op EXCEPT ![s] = o2] /\ UNCHANGED router
        /\ o.pos = "create" /\ o.todo = {}
    BY <1>1, <1>10, <2>1 DEF RoutesCreated, Goto
  <2>3. todo = {r \in o.read : Unwanted(o, r)} /\ todo \subseteq Route
    BY <1>1, <1>3, <2>1 DEF Outdated, Unwanted, RoutesOp
  <2>4. /\ o2 \in RoutesOp /\ o2.pos = "delete" /\ o2.kind = o.kind /\ o2.table = o.table
        /\ o2.overlap = o.overlap /\ o2.cidrs = o.cidrs /\ o2.family = o.family /\ o2.todo = todo
    BY <1>3, <2>1, <2>3 DEF RoutesOp
  <2>5. RoutesShape(o2)
    BY <2>3, <2>4, SameGoal DEF RoutesShape
  <2>6. ASSUME ~ o.overlap PROVE RoutesReached(o2)
    <3>1. /\ Served(o, o.family, {}) /\ Cleared(o, o.family, o.read)
      BY <1>3, <2>2, <2>6 DEF RoutesReached
    <3>2. RoutesDone(o2) = RoutesDone(o)
      BY <2>2, <2>4 DEF RoutesDone
    <3>3. Cleared(o, o.family, todo)
      BY <2>3, <3>1 DEF Cleared
    <3>4. /\ Cleared(o2, RoutesDone(o2), {}) /\ Served(o2, RoutesDone(o2), {})
          /\ Cleared(o2, o2.family, o2.todo) /\ Served(o2, o2.family, {})
      BY <1>4, <2>4, <2>6, <3>1, <3>2, <3>3, SameGoal
    <3> QED BY <1>4, <2>4, <2>6, <3>4 DEF RoutesReached
  <2>7. RoutesReached(o2) => RoutesReached(o2)'
    BY <2>2 DEF RoutesReached, Cleared, Served, router
  <2> QED BY <1>3, <1>5, <2>2, <2>4, <2>5, <2>6, <2>7 DEF router
<1>11. ASSUME NEW route \in Route, DeleteRoute(s, route) PROVE ProgressInv'
  <2>1. PICK o2 : o2 = [o EXCEPT !.todo = o.todo \ {route}]
    OBVIOUS
  <2>2. /\ o.pos = "delete" /\ route \in o.todo
        /\ \/ SetRouteCount(route, 0) /\ op' = [op EXCEPT ![s] = o2]
           \/ UNCHANGED router /\ Then(s, "error")
           \/ SetRouteCount(route, 0) /\ Then(s, "error")
    BY <1>1, <1>3, <1>11, <2>1 DEF DeleteRoute, Goto, RequestFails, RoutesOp
  <2>3. Unwanted(o, route)
    BY <1>3, <2>2 DEF RoutesShape
  <2>4. /\ o2 \in RoutesOp /\ o2.pos = "delete" /\ o2.kind = o.kind /\ o2.table = o.table
        /\ o2.overlap = o.overlap /\ o2.cidrs = o.cidrs /\ o2.family = o.family
        /\ o2.todo = o.todo \ {route}
    BY <1>3, <2>1, <2>2 DEF RoutesOp
  <2>5. RoutesShape(o2)
    BY <1>3, <2>2, <2>4, SameGoal DEF RoutesShape
  <2>6. ASSUME SetRouteCount(route, 0)
        PROVE  /\ UNCHANGED <<device, peer, dns, tables>> /\ routes' \in [Route -> Nat]
               /\ \A r \in Route : r # route => routes'[r] = routes[r]
               /\ routes'[route] = 0
    BY <1>3, <2>6 DEF SetRouteCount
  <2>7. ASSUME SetRouteCount(route, 0), ~ o.overlap PROVE RoutesReached(o2)'
    <3>1. /\ Served(o, o.family, {}) /\ Cleared(o, o.family, o.todo)
      BY <1>3, <2>2, <2>7 DEF RoutesReached
    <3>2. RoutesDone(o2) = RoutesDone(o)
      BY <2>2, <2>4 DEF RoutesDone
    <3>3. ASSUME NEW cidrs, NEW except, Cleared(o, cidrs, except)
          PROVE  \A r \in Route : r.cidr \in cidrs /\ Unwanted(o2, r) /\ routes'[r] > 0
                                    => r \in except \ {route}
      BY <2>4, <2>6, <2>7, <3>3 DEF Cleared, Unwanted
    <3>4. ASSUME NEW cidrs, Served(o, cidrs, {}), o2.kind = "setRoutes"
          PROVE  \A k \in o2.cidrs \intersect cidrs :
                    \E r \in Route : r.cidr = k /\ r.table = o2.table /\ routes'[r] > 0
      <4>1. SUFFICES ASSUME NEW k \in o2.cidrs \intersect cidrs
                     PROVE  \E r \in Route : r.cidr = k /\ r.table = o2.table /\ routes'[r] > 0
        OBVIOUS
      <4>2. PICK r \in Route : r.cidr = k /\ r.table = o.table /\ routes[r] > 0
        BY <2>4, <3>4 DEF Served
      <4>3. r # route
        BY <2>3, <2>4, <3>4, <4>2 DEF Unwanted
      <4> QED BY <2>4, <2>6, <2>7, <4>2, <4>3
    <3>5. /\ Cleared(o2, RoutesDone(o2), {})' /\ Served(o2, RoutesDone(o2), {})'
      BY <1>4, <2>7, <3>2, <3>3, <3>4 DEF Cleared, Served, Unwanted, RoutesDone
    <3>6. Cleared(o2, o2.family, o2.todo)' /\ Served(o2, o2.family, {})'
      BY <2>4, <3>1, <3>3, <3>4 DEF Cleared, Served, Unwanted
    <3> QED BY <1>4, <2>4, <2>6, <2>7, <3>5, <3>6 DEF RoutesReached
  <2>8. CASE UNCHANGED router /\ Then(s, "error")
    BY <1>7, <2>8
  <2>9. CASE SetRouteCount(route, 0) /\ Then(s, "error")
    BY <1>6, <2>6, <2>9
  <2>10. CASE SetRouteCount(route, 0) /\ op' = [op EXCEPT ![s] = o2]
    BY <1>5, <2>4, <2>5, <2>6, <2>7, <2>10
  <2> QED BY <2>2, <2>8, <2>9, <2>10
<1>12. CASE FamilyDone(s)
  <2>1. PICK next, o2 :
            /\ next = IF o.family = CidrV4 THEN "query"
                      ELSE IF o.kind = "removeRoutes" /\ o.table # Main THEN "removeTable" ELSE "ok"
            /\ o2 = [o EXCEPT !.read = {}, !.family = CidrV6, !.pos = next]
    OBVIOUS
  <2>2. /\ op' = [op EXCEPT ![s] = o2] /\ UNCHANGED router
        /\ o.pos = "delete" /\ o.todo = {}
    BY <1>1, <1>12, <2>1 DEF FamilyDone, Goto
  <2>3. /\ o2 \in RoutesOp /\ o2.pos = next /\ o2.kind = o.kind /\ o2.table = o.table
        /\ o2.overlap = o.overlap /\ o2.cidrs = o.cidrs /\ o2.family = CidrV6
    BY <1>3, <2>1 DEF RoutesOp
  <2>4. RoutesShape(o2)
    BY <2>1, <2>3 DEF RoutesShape
  <2>5. ASSUME ~ o.overlap PROVE RoutesReached(o2)
    <3>1. /\ Served(o, o.family, {}) /\ Cleared(o, o.family, {})
      BY <1>3, <2>2, <2>5 DEF RoutesReached
    <3>2. Cleared(o, RoutesDone(o2), {}) /\ Served(o, RoutesDone(o2), {})
      <4>1. CASE o.family = CidrV4
        <5>1. RoutesDone(o2) \in {{}, CidrV4}
          BY <2>1, <2>3, <4>1 DEF RoutesDone
        <5> QED BY <3>1, <4>1, <5>1 DEF Cleared, Served
      <4>2. CASE o.family # CidrV4
        <5>1. o.family = CidrV6 /\ RoutesDone(o) = CidrV4 /\ RoutesDone(o2) = CidrV4 \union CidrV6
          BY <1>3, <1>4, <2>1, <2>3, <2>5, <4>2 DEF RoutesDone, RoutesOp, Cidr
        <5> QED BY <1>4, <2>5, <3>1, <5>1 DEF Cleared, Served
      <4> QED BY <4>1, <4>2
    <3>3. Cleared(o2, RoutesDone(o2), {}) /\ Served(o2, RoutesDone(o2), {})
      BY <2>3, <3>2, SameGoal
    <3>4. o2.pos \in {"query", "removeTable", "ok"}
          /\ (o2.pos = "ok" /\ o2.kind = "removeRoutes" => o2.table \notin tables \ {Main})
      BY <2>1, <2>3
    <3> QED BY <1>4, <2>3, <2>5, <3>3, <3>4 DEF RoutesReached
  <2>6. RoutesReached(o2) => RoutesReached(o2)'
    BY <2>2 DEF RoutesReached, Cleared, Served, router
  <2> QED BY <1>3, <1>5, <2>2, <2>3, <2>4, <2>5, <2>6 DEF router
<1> QED BY <1>8, <1>9, <1>10, <1>11, <1>12

\* An operation begins.
LEMMA StartStep ==
    ASSUME ProgressInv, NEW s \in Slot, NEW rec, Start(s, rec), Confined(s), RouterType',
           Progress(s, rec)', rec.kind \notin RouteKinds
    PROVE  ProgressInv'
  BY StepKeeps DEF Start, Goto

LEMMA StartLockedStep ==
    ASSUME ProgressInv, NEW s \in Slot, NEW m \in Mutex, NEW rec, StartLocked(s, m, rec)
    PROVE  Confined(s) /\ RouterType' /\ lock'[m] = s /\ UNCHANGED <<backend, router>>
<1>1. UNCHANGED <<backend, router>> /\ lock[m] = Free /\ lock' = [lock EXCEPT ![m] = s]
  BY DEF StartLocked, Start
<1>2. /\ lock' \in [Mutex -> Slot \union {Free}] /\ lock'[m] = s
      /\ \A n \in Mutex, x \in Slot \ {s} : lock[n] = x => lock'[n] = x
  BY <1>1, FreeAssumption DEF ProgressInv, RouterType
<1> QED BY <1>1, <1>2 DEF Confined, ProgressInv, RouterType, router

LEMMA RoutingBegins ==
    ASSUME ProgressInv, NEW s \in Slot, NEW kind \in RouteKinds, Routing(s, kind)
    PROVE  ProgressInv'
<1> DEFINE New(cidrs, t) ==
              [kind |-> kind, cidrs |-> cidrs, table |-> t, overlap |-> Overlap(s),
               family |-> CidrV4, read |-> {}, todo |-> {},
               pos |-> IF ~ ManagesRoutes THEN "ok"
                       ELSE IF kind = "setRoutes" THEN "table" ELSE "query"]
<1>0. PICK cidrs \in SUBSET Cidr, t \in Table \union {Main} :
        op' = [x \in Slot |-> IF x = s THEN New(cidrs, t)
                              ELSE IF op[x].kind \in RouteKinds
                                   THEN [op[x] EXCEPT !.overlap = TRUE] ELSE op[x]]
  BY Zenon DEF Routing
<1>1. PICK rec :
        /\ rec = New(cidrs, t)
        /\ op' = [x \in Slot |-> IF x = s THEN rec
                                 ELSE IF op[x].kind \in RouteKinds
                                      THEN [op[x] EXCEPT !.overlap = TRUE] ELSE op[x]]
  BY <1>0
<1>2. UNCHANGED <<backend, router, lock>> /\ op[s] = Idle
  BY DEF Routing
<1>3. RouterType' /\ backend \in Backends
  BY <1>2 DEF ProgressInv, RouterType, router
<1>4. ASSUME NEW x \in Slot \ {s}, op[x].kind \in RouteKinds
      PROVE  Progress(x, op[x])' /\ op'[x].kind = op[x].kind
  <2>1. PICK o, o2 : o = op[x] /\ o2 = [o EXCEPT !.overlap = TRUE]
    OBVIOUS
  <2>2. op'[x] = o2 /\ RoutesProgress(x, o)
    BY <1>1, <1>4, <2>1, KindOf DEF ProgressInv
  <2>3. /\ o2 \in RoutesOp /\ o2.overlap = TRUE /\ o2.kind = o.kind /\ o2.pos = o.pos
        /\ o2.todo = o.todo /\ o2.cidrs = o.cidrs /\ o2.family = o.family /\ o2.table = o.table
    BY <2>1, <2>2 DEF RoutesProgress, RoutesShape, RoutesOp
  <2>4. RoutesShape(o2)
    BY <2>2, <2>3, SameGoal DEF RoutesProgress, RoutesShape
  <2>5. RoutesProgress(x, o2)'
    BY <1>2, <2>2, <2>3, <2>4 DEF RoutesProgress, RoutesShape, Unwanted
  <2> QED BY <2>1, <2>2, <2>3, <2>5 DEF Progress
<1>5. ASSUME NEW x \in Slot \ {s}, op[x].kind \notin RouteKinds
      PROVE  Progress(x, op[x])' /\ op'[x].kind = op[x].kind
  <2>1. PICK o : o = op[x]
    OBVIOUS
  <2>2. op'[x] = o /\ Progress(x, o) /\ ~ RoutesProgress(x, o)
    BY <1>1, <1>5, <2>1 DEF ProgressInv, RoutesProgress, RoutesShape, RoutesOp
  <2>3. Progress(x, o)'
    BY <1>2, <2>2 DEF router, Progress, ListProgress, SaveInterfaceProgress,
         DeleteInterfaceProgress, Saved, SavePeerProgress, DeletePeerProgress, ServersProgress
  <2> QED BY <2>1, <2>2, <2>3
<1>6. Progress(s, op[s])'
  <2>1. op'[s] = rec /\ Overlap(s) \in BOOLEAN
    BY <1>1 DEF Overlap
  <2>2. /\ rec \in RoutesOp /\ rec.overlap = Overlap(s) /\ rec.kind = kind /\ rec.family = CidrV4
        /\ rec.pos = "ok" => backend = "pfsense"
        /\ rec.pos # "ok" => backend # "pfsense"
        /\ rec.pos = "table" => kind = "setRoutes"
        /\ rec.pos = "query" => kind = "removeRoutes"
        /\ rec.pos \in {"ok", "table", "query"}
    BY <1>1, <2>1 DEF RoutesOp, ManagesRoutes, RouteKinds
  <2>3. RoutesShape(rec)
    BY <2>2 DEF RoutesShape
  <2>4. ~ rec.overlap => \A x \in Slot \ {s} : op'[x].kind \notin RouteKinds
    BY <1>4, <1>5, <2>2 DEF Overlap
  <2>5. backend = "mikrotik" => RoutesReached(rec)'
    <3>1. CASE rec.pos = "table"
      BY <3>1 DEF RoutesReached, AtRoutes
    <3>2. CASE rec.pos = "query"
      BY <2>2, <3>2 DEF RoutesReached, RoutesDone, Cleared, Served
    <3> QED BY <2>2, <3>1, <3>2
  <2>6. RoutesProgress(s, rec)'
    BY <1>2, <1>3, <2>2, <2>3, <2>4, <2>5 DEF RoutesProgress, RoutesShape, Unwanted, Backends
  <2> QED BY <2>1, <2>6 DEF Progress
<1>7. op' = [x \in Slot |-> op'[x]]
  BY <1>1
<1> QED BY <1>3, <1>4, <1>5, <1>6, <1>7 DEF ProgressInv

LEMMA BeginsProgress ==
    ASSUME ProgressInv, NEW s \in Slot, Begins(s) PROVE ProgressInv'
<1>1. ASSUME NEW m \in Mutex, NEW rec, StartLocked(s, m, rec), rec.kind \notin RouteKinds,
             lock'[m] = s => Progress(s, rec)'
      PROVE  ProgressInv'
  BY <1>1, StartLockedStep, StartStep DEF StartLocked
<1>2. CASE GetInterfaces(s)
  <2>1. PICK rec : rec = [kind |-> "list", pos |-> "loading", todo |-> Name, running |-> {},
                          got |-> {}, failed |-> FALSE]
    OBVIOUS
  <2>2. Start(s, rec) /\ UNCHANGED lock
    BY <1>2, <2>1 DEF GetInterfaces
  <2>3. ListProgress(rec) /\ rec.kind \notin RouteKinds
    BY <2>1 DEF ListProgress, ListOp, RouteKinds
  <2>4. Confined(s) /\ RouterType'
    BY <2>2 DEF Start, Confined, ProgressInv, RouterType, router
  <2> QED BY <2>2, <2>3, <2>4, StartStep DEF Progress, ListProgress
<1>3. CASE SaveInterface(s)
  <2>1. PICK want, rec :
            /\ want \in WantedInterface
            /\ rec = [kind |-> "saveInterface", pos |-> "query", want |-> want,
                      found |-> FALSE, obsolete |-> {}, new |-> {}]
            /\ StartLocked(s, "interface", rec)
    BY <1>3 DEF SaveInterface
  <2>2. rec \in SaveInterfaceOp /\ rec.pos = "query" /\ rec.kind \notin RouteKinds
    BY <2>1 DEF SaveInterfaceOp, RouteKinds
  <2>3. lock'["interface"] = s => SaveInterfaceProgress(s, rec)'
    BY <2>2 DEF SaveInterfaceProgress
  <2> QED BY <1>1, <2>1, <2>2, <2>3 DEF Progress, Mutex
<1>4. CASE DeleteInterface(s)
  <2>1. PICK rec : rec = [kind |-> "deleteInterface",
                          pos |-> IF backend = "mikrotik" THEN "addresses" ELSE "query"]
    OBVIOUS
  <2>2. StartLocked(s, "interface", rec)
    BY <1>4, <2>1 DEF DeleteInterface
  <2>3. rec \in DeleteInterfaceOp /\ rec.pos # "ok" /\ rec.kind \notin RouteKinds
    BY <2>1 DEF DeleteInterfaceOp, RouteKinds
  <2>4. lock'["interface"] = s => DeleteInterfaceProgress(s, rec)'
    BY <2>3 DEF DeleteInterfaceProgress
  <2> QED BY <1>1, <2>2, <2>3, <2>4 DEF Progress, Mutex
<1>5. CASE SavePeer(s)
  <2>1. PICK want, rec :
            /\ want \in WantedPeer
            /\ rec = [kind |-> "savePeer", pos |-> "query", want |-> want]
            /\ StartLocked(s, "peer", rec)
    BY <1>5 DEF SavePeer
  <2>2. rec \in SavePeerOp /\ rec.pos = "query" /\ rec.kind \notin RouteKinds
    BY <2>1 DEF SavePeerOp, RouteKinds
  <2>3. lock'["peer"] = s => SavePeerProgress(s, rec)'
    BY <2>2 DEF SavePeerProgress
  <2> QED BY <1>1, <2>1, <2>2, <2>3 DEF Progress, Mutex
<1>6. CASE DeletePeer(s)
  <2>1. PICK rec : rec = [kind |-> "deletePeer", pos |-> "query"]
    OBVIOUS
  <2>2. StartLocked(s, "peer", rec)
    BY <1>6, <2>1 DEF DeletePeer
  <2>3. rec \in DeletePeerOp /\ rec.pos = "query" /\ rec.kind \notin RouteKinds
    BY <2>1 DEF DeletePeerOp, RouteKinds
  <2>4. lock'["peer"] = s => DeletePeerProgress(s, rec)'
    BY <2>3 DEF DeletePeerProgress
  <2> QED BY <1>1, <2>2, <2>3, <2>4 DEF Progress, Mutex
<1>7. ASSUME NEW kind \in ServerKinds, SetDNS(s, kind) PROVE ProgressInv'
  <2>1. PICK servers, rec :
            /\ servers \in {{x} : x \in Server}
            /\ rec = [kind |-> kind, servers |-> servers, read |-> {},
                      pos |-> IF ManagesServers THEN "get" ELSE "ok"]
            /\ StartLocked(s, "core", rec)
    BY <1>7 DEF SetDNS
  <2>2. /\ rec \in ServersOp /\ rec.pos # "set" /\ rec.kind \notin RouteKinds
        /\ rec.pos = "ok" => backend # "mikrotik"
    BY <1>7, <2>1 DEF ServersOp, RouteKinds, ServerKinds, ManagesServers
  <2>3. backend' = backend
    BY <2>1 DEF StartLocked, Start
  <2>4. lock'["core"] = s => ServersProgress(s, rec)'
    BY <2>2, <2>3 DEF ServersProgress
  <2> QED BY <1>1, <2>1, <2>2, <2>4 DEF Progress, Mutex
<1> QED BY <1>2, <1>3, <1>4, <1>5, <1>6, <1>7, RoutingBegins DEF Begins, ServerKinds, RouteKinds

LEMMA ReturnProgress ==
    ASSUME ProgressInv, NEW s \in Slot, Return(s) PROVE ProgressInv'
<1>1. /\ op' = [op EXCEPT ![s] = Idle] /\ UNCHANGED <<backend, router>>
      /\ lock' = [m \in Mutex |-> IF lock[m] = s THEN Free ELSE lock[m]]
  BY DEF Return, Goto
<1>2. Confined(s) /\ RouterType'
  BY <1>1 DEF Confined, ProgressInv, RouterType, router
<1>3. Progress(s, Idle)' /\ Idle.kind \notin RouteKinds
  BY DEF Progress, Idle, RouteKinds
<1> QED BY <1>1, <1>2, <1>3, StepKeeps

LEMMA InitProgress == ASSUME Init PROVE ProgressInv
<1>1. device \in DeviceType
  BY DEF Init, DeviceType, NewInterface
<1>2. routes \in [Route -> Nat]
  BY DEF Init
<1>3. \A s \in Slot : op[s] = Idle
  BY DEF Init
<1>4. peer \in PeerType /\ dns \subseteq Server /\ backend \in Backends
  BY DEF Init, PeerType, Backends
<1> QED BY <1>1, <1>2, <1>3, <1>4 DEF Init, ProgressInv, RouterType, Progress

\* What every operation has done so far, for every run of the operations.
THEOREM ProgressInvariant == Spec => []ProgressInv
<1>1. ProgressInv /\ [Next]_vars => ProgressInv'
  <2> SUFFICES ASSUME ProgressInv, [Next]_vars PROVE ProgressInv'
    OBVIOUS
  <2>1. CASE UNCHANGED vars
    <3>1. CASE Slot = {}
      BY <2>1, <3>1 DEF ProgressInv, RouterType, vars, router
    <3>2. ASSUME NEW s \in Slot PROVE ProgressInv'
      <4>1. PICK o : o = op[s]
        OBVIOUS
      <4>2. op' = [op EXCEPT ![s] = o] /\ Progress(s, o) /\ UNCHANGED <<backend, router, lock>>
        BY <2>1, <4>1 DEF ProgressInv, vars
      <4> QED BY <4>1, <4>2, ReadingStep
    <3> QED BY <3>1, <3>2
  <2>2. ASSUME NEW s \in Slot, GoesOn(s) PROVE ProgressInv'
    <3>1. QueryRoutes(s) \/ RoutesCreated(s) \/ FamilyDone(s)
          \/ (\E c \in Cidr : CreateRoute(s, c)) \/ (\E r \in Route : DeleteRoute(s, r))
          => op[s].kind \in RouteKinds
      BY DEF QueryRoutes, RoutesCreated, FamilyDone, CreateRoute, DeleteRoute
    <3> QED BY <2>2, <3>1, ListSteps, SaveInterfaceRequests, SaveInterfaceAddresses,
               DeleteInterfaceSteps, SavePeerSteps, DeletePeerSteps, ServersSteps, RoutesTables,
               RoutesRequests, ReturnProgress DEF GoesOn
  <2> QED BY <2>1, <2>2, BeginsProgress DEF Next
<1> QED BY <1>1, InitProgress, PTL DEF Spec

\* An operation that reports success has brought the device to the state that was
\* asked for, whatever was left half done before and whatever else runs (the save
\* and delete functions, SetDNS, UnsetDNS, SetRoutes and RemoveRoutes of both
\* controllers): for any number of operations, addresses, servers and routes.
THEOREM SuccessIsReal == Spec => []SuccessMeansDone
<1>1. ProgressInv => SuccessMeansDone
  <2> SUFFICES ASSUME ProgressInv, NEW s \in Slot, op[s] # Idle, op[s].pos = "ok"
               PROVE  Reached(s)
    BY DEF SuccessMeansDone
  <2>1. PICK o : o = op[s]
    OBVIOUS
  <2>2. Progress(s, o) /\ o # Idle /\ o.pos = "ok"
    BY <2>1 DEF ProgressInv
  <2>3. CASE ListProgress(o)
    BY <2>1, <2>2, <2>3 DEF ListProgress, ListOp, Reached
  <2>4. CASE SaveInterfaceProgress(s, o)
    <3>1. o.kind = "saveInterface"
      BY <2>4 DEF SaveInterfaceProgress, SaveInterfaceOp
    <3> QED BY <2>1, <2>2, <2>4, <3>1 DEF SaveInterfaceProgress, Saved, Reached
  <2>5. CASE DeleteInterfaceProgress(s, o)
    BY <2>1, <2>2, <2>5 DEF DeleteInterfaceProgress, DeleteInterfaceOp, Reached
  <2>6. CASE SavePeerProgress(s, o)
    <3>1. o.kind = "savePeer"
      BY <2>6 DEF SavePeerProgress, SavePeerOp
    <3> QED BY <2>1, <2>2, <2>6, <3>1 DEF SavePeerProgress, Reached
  <2>7. CASE DeletePeerProgress(s, o)
    BY <2>1, <2>2, <2>7 DEF DeletePeerProgress, DeletePeerOp, Reached
  <2>8. CASE ServersProgress(s, o)
    <3>1. o.kind = "setDNS" \/ o.kind = "unsetDNS"
      BY <2>8 DEF ServersProgress, ServersOp, ServerKinds
    <3> QED BY <2>1, <2>2, <2>8, <3>1 DEF ServersProgress, Reached
  <2>9. CASE RoutesProgress(s, o)
    <3>1. /\ o.kind \in {"setRoutes", "removeRoutes"} /\ o.cidrs \subseteq Cidr
          /\ o.table \in Table \union {Main}
      BY <2>9 DEF RoutesProgress, RoutesShape, RoutesOp, RouteKinds
    <3>2. ASSUME backend = "mikrotik", ~ o.overlap
          PROVE  /\ Cleared(o, Cidr, {}) /\ Served(o, Cidr, {})
                 /\ o.kind = "setRoutes" => o.table \in tables
                 /\ o.kind = "removeRoutes" => o.table \notin tables \ {Main}
      BY <2>2, <2>9, <3>2 DEF RoutesProgress, RoutesReached, RoutesDone, AtRoutes
    <3>3. routes \in [Route -> Nat]
      BY DEF ProgressInv, RouterType
    <3>4. CASE o.kind = "setRoutes"
      <4>1. ASSUME backend = "mikrotik", ~ o.overlap
            PROVE  /\ o.table \in tables
                   /\ \A c \in o.cidrs : \E r \in Route :
                        r.cidr = c /\ r.table = o.table /\ routes[r] > 0
                   /\ \A r \in Route : ~ r.dynamic /\ r.cidr \notin o.cidrs => routes[r] = 0
        <5>1. \A c \in o.cidrs : \E r \in Route :
                 r.cidr = c /\ r.table = o.table /\ routes[r] > 0
          BY <3>1, <3>2, <3>4, <4>1 DEF Served
        <5>2. ASSUME NEW r \in Route, ~ r.dynamic, r.cidr \notin o.cidrs PROVE routes[r] = 0
          <6>1. r.cidr \in Cidr /\ routes[r] \in Nat
            BY <3>3 DEF Route
          <6> QED BY <3>2, <3>4, <4>1, <5>2, <6>1 DEF Cleared, Unwanted
        <5> QED BY <3>2, <3>4, <4>1, <5>1, <5>2
      <4> QED BY <2>1, <3>4, <4>1 DEF Reached
    <3>5. CASE o.kind = "removeRoutes"
      <4>1. ASSUME backend = "mikrotik", ~ o.overlap, NEW c \in o.cidrs
            PROVE  routes[StaticRoute(c, o.table)] = 0
        <5>1. PICK r : r = StaticRoute(c, o.table)
          OBVIOUS
        <5>2. r \in Route /\ r.cidr = c /\ r.table = o.table /\ ~ r.dynamic /\ c \in Cidr
          BY <3>1, <5>1 DEF StaticRoute, Route
        <5>3. ~ (routes[r] > 0) /\ routes[r] \in Nat
          BY <3>2, <3>3, <3>5, <4>1, <5>2 DEF Cleared, Unwanted
        <5> QED BY <5>1, <5>3
      <4> QED BY <2>1, <3>2, <3>5, <4>1 DEF Reached
    <3> QED BY <3>1, <3>4, <3>5
  <2> QED BY <2>2, <2>3, <2>4, <2>5, <2>6, <2>7, <2>8, <2>9 DEF Progress
<1> QED BY <1>1, ProgressInvariant, PTL
==============================================================================
