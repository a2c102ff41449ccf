--------------------------- MODULE PeerStatusProofs ---------------------------
(***************************************************************************)
(* No row of a peer's status has the start of a session without the last   *)
(* handshake getSessionStartTime dereferences, and the receiver of the     *)
(* webhook knows the state of a peer when nothing is on the way: for any   *)
(* number of peers and workers, any intervals and any sizes of the queues. *)
(*                                                                         *)
(* The row alone does not show it: a session that goes on keeps its start  *)
(* while the handshake comes from counters the collector has read earlier. *)
(* So the invariant orders the three places a handshake is kept in: the    *)
(* start of the row's session, what the collector has read, what the       *)
(* device has now, and the clock.  The device may forget its handshake in  *)
(* between, which is the zero every comparison leaves out.                 *)
(*                                                                         *)
(* What the receiver knows is a matter of three places as well: a change   *)
(* is with its writer first, then in the queue of events, then told.  The  *)
(* second invariant follows it: at most one writer has a change of a peer  *)
(* to tell, what it tells is the state of the row, and when none has, the  *)
(* last event on the way, or what was told last, is that state.            *)
(***************************************************************************)
EXTENDS PeerStatus, TLAPS

Counters == [on: BOOLEAN, rx: Nat, tx: Nat, handshake: Nat]
StatusRow == [exists: {TRUE}, connected: BOOLEAN, pingable: BOOLEAN, rx: Nat,
              tx: Nat, handshake: Nat, session: Nat]
Collecting ==
    [pos: {"update"}, left: SUBSET Peer, read: [Peer -> Counters]]
    \union [pos: {"publish"}, left: SUBSET Peer, read: [Peer -> Counters],
            peer: Peer, connected: BOOLEAN]
Pinging == [pos: {"update", "publish"}, peer: Peer, ok: BOOLEAN]

TypeOK ==
    /\ clock \in Nat \ {0}
    /\ device \in [Peer -> Counters]
    /\ status \in [Peer -> {NoStatus} \union StatusRow]
    /\ collector \in {Waiting} \union Collecting
    /\ pinger \in [Worker -> {Waiting} \union Pinging]
    /\ pingJobs \in Seq(Peer)
    /\ enqueue \subseteq Peer /\ peers \subseteq Peer

\* a handshake nobody has, or one that is not older than t
NotBefore(h, t) == h = 0 \/ t <= h

Pending(p) == collector # Waiting /\ p \in collector.left

\* the row of p against the clock and the device
RowOrdered(p) ==
    status[p].exists =>
        /\ status[p].session <= clock
        /\ NotBefore(device[p].handshake, status[p].session)
        /\ status[p].session # 0 =>
            /\ status[p].handshake # 0
            /\ status[p].session <= status[p].handshake

\* what the collector has read against the clock, the device and the row
ReadOrdered(p) ==
    Pending(p) =>
        /\ collector.read[p].handshake <= clock
        /\ NotBefore(device[p].handshake, collector.read[p].handshake)
        /\ status[p].exists =>
            NotBefore(collector.read[p].handshake, status[p].session)

DeviceOrdered(p) == device[p].handshake <= clock

Ordered == \A p \in Peer : DeviceOrdered(p) /\ RowOrdered(p) /\ ReadOrdered(p)

IInv == TypeOK /\ Ordered

-----------------------------------------------------------------------------
(* The row of a peer. *)

\* StatusOf(p) is a row, and one without a session when there was none.
LEMMA StatusOfRow ==
    ASSUME TypeOK, NEW p \in Peer
    PROVE  /\ StatusOf(p) \in StatusRow
           /\ status[p].exists => StatusOf(p) = status[p]
           /\ ~ status[p].exists => StatusOf(p).session = 0
<1>1. status[p] = NoStatus \/ status[p] \in StatusRow
  BY DEF TypeOK
<1>2. NewStatus \in StatusRow /\ NewStatus.session = 0
  BY DEF NewStatus, StatusRow
<1>3. CASE status[p] = NoStatus
  BY <1>2, <1>3 DEF StatusOf, NoStatus
<1>4. CASE status[p] \in StatusRow
  BY <1>4 DEF StatusOf, StatusRow
<1> QED BY <1>1, <1>3, <1>4

\* CalcConnected changes one field.
LEMMA SetConnected ==
    ASSUME NEW s \in StatusRow
    PROVE  LET new == [s EXCEPT !.connected = CalcConnected(s)]
           IN  /\ new \in StatusRow
               /\ new.session = s.session /\ new.handshake = s.handshake
<1>1. CalcConnected(s) \in BOOLEAN
  BY DEF CalcConnected
<1> QED BY <1>1 DEF StatusRow

\* What the collector writes.
LEMMA CollectedRow ==
    ASSUME NEW s \in StatusRow, NEW r \in Counters
    PROVE  /\ Collected(s, r) \in StatusRow
           /\ Collected(s, r).handshake = r.handshake
           /\ \/ Collected(s, r).session = 0
              \/ r.handshake # 0 /\ Collected(s, r).session \in {r.handshake, s.session}
<1> DEFINE new == [s EXCEPT !.session = GetSessionStartTime(s, r), !.rx = r.rx,
                            !.tx = r.tx, !.handshake = r.handshake]
<1>1. /\ GetSessionStartTime(s, r) \in Nat
      /\ \/ GetSessionStartTime(s, r) = 0
         \/ r.handshake # 0 /\ GetSessionStartTime(s, r) \in {r.handshake, s.session}
  BY DEF GetSessionStartTime, StatusRow, Counters
<1>2. /\ new \in StatusRow
      /\ new.session = GetSessionStartTime(s, r) /\ new.handshake = r.handshake
  BY <1>1 DEF StatusRow, Counters
<1>3. Collected(s, r) = [new EXCEPT !.connected = CalcConnected(new)]
  BY DEF Collected
<1> HIDE DEF new
<1> QED BY <1>1, <1>2, <1>3, SetConnected

\* What a ping worker writes.
LEMMA PingedRow ==
    ASSUME NEW s \in StatusRow, NEW ok \in BOOLEAN
    PROVE  /\ Pinged(s, ok) \in StatusRow
           /\ Pinged(s, ok).session = s.session
           /\ Pinged(s, ok).handshake = s.handshake
<1> DEFINE new == [s EXCEPT !.pingable = ok]
<1>1. new \in StatusRow /\ new.session = s.session /\ new.handshake = s.handshake
  BY DEF StatusRow
<1>2. Pinged(s, ok) = [new EXCEPT !.connected = CalcConnected(new)]
  BY DEF Pinged
<1> HIDE DEF new
<1> QED BY <1>1, <1>2, SetConnected

-----------------------------------------------------------------------------
(* Types. *)

\* NextPeer is a state of the collector.
LEMMA NextPeerType ==
    ASSUME NEW left \in SUBSET Peer, NEW read \in [Peer -> Counters]
    PROVE  /\ NextPeer(left, read) \in {Waiting} \union Collecting
           /\ NextPeer(left, read) # Waiting =>
                /\ NextPeer(left, read).left = left
                /\ NextPeer(left, read).read = read
  BY DEF NextPeer, Waiting, Collecting

\* A collector that is at one of its steps has its fields.
LEMMA CollectorFields ==
    ASSUME TypeOK
    PROVE  /\ collector.pos \in {"update", "publish"} => collector # Waiting
           /\ collector # Waiting =>
                /\ collector.left \in SUBSET Peer
                /\ collector.read \in [Peer -> Counters]
  BY DEF TypeOK, Waiting, Collecting

LEMMA CollectorType ==
    ASSUME TypeOK, Collector PROVE TypeOK'
<1>1. CASE CollectPeerData
  <2>1. {p \in Peer : device[p].on} \in SUBSET Peer /\ device \in [Peer -> Counters]
    BY DEF TypeOK
  <2>2. collector' \in {Waiting} \union Collecting
    BY <1>1, <2>1, NextPeerType DEF CollectPeerData
  <2> QED BY <1>1, <2>2 DEF CollectPeerData, TypeOK, world, pings
<1>2. CASE CollectorPublishes
  <2>1. collector' \in {Waiting} \union Collecting
    BY <1>2, CollectorFields, NextPeerType DEF CollectorPublishes
  <2> QED BY <1>2, <2>1 DEF CollectorPublishes, TypeOK, world, pings
<1>3. ASSUME NEW p \in Peer, CollectPeer(p) PROVE TypeOK'
  <2> DEFINE new == Collected(StatusOf(p), collector.read[p])
  <2>1. /\ collector # Waiting /\ collector.left \ {p} \in SUBSET Peer
        /\ collector.read \in [Peer -> Counters] /\ collector.read[p] \in Counters
    BY <1>3, CollectorFields DEF CollectPeer
  <2>2. new \in StatusRow
    BY <2>1, StatusOfRow, CollectedRow
  <2>3. status' \in [Peer -> {NoStatus} \union StatusRow]
    BY <1>3, <2>2 DEF CollectPeer, UpdatePeerStatus, TypeOK
  <2>4. new.connected \in BOOLEAN
    BY <2>2 DEF StatusRow
  <2>5. \/ collector' = NextPeer(collector.left \ {p}, collector.read)
        \/ collector' = [pos |-> "publish", left |-> collector.left \ {p},
                         read |-> collector.read, peer |-> p,
                         connected |-> new.connected]
    BY <1>3 DEF CollectPeer
  <2> HIDE DEF new
  <2>6. collector' \in {Waiting} \union Collecting
    BY <2>1, <2>4, <2>5, NextPeerType DEF Collecting
  <2> QED BY <1>3, <2>3, <2>6 DEF CollectPeer, TypeOK, world, pings
<1> QED BY <1>1, <1>2, <1>3 DEF Collector

LEMMA PingType ==
    ASSUME TypeOK, PingChecks PROVE TypeOK'
<1>1. CASE EnqueuePingChecks
  BY <1>1 DEF EnqueuePingChecks, TypeOK, world
<1>2. ASSUME NEW p \in Peer, SendPingJob(p) PROVE TypeOK'
  <2>1. pingJobs' \in Seq(Peer) /\ enqueue' \subseteq Peer
    BY <1>2 DEF SendPingJob, TypeOK
  <2> QED BY <1>2, <2>1 DEF SendPingJob, TypeOK, world
<1>3. ASSUME NEW w \in Worker, NEW ok \in BOOLEAN, IsPeerPingable(w, ok) PROVE TypeOK'
  <2>1. Head(pingJobs) \in Peer /\ pingJobs' \in Seq(Peer)
    BY <1>3 DEF IsPeerPingable, TypeOK
  <2>2. [pos |-> "update", peer |-> Head(pingJobs), ok |-> ok] \in Pinging
    BY <2>1 DEF Pinging
  <2>3. pinger' \in [Worker -> {Waiting} \union Pinging]
    BY <1>3, <2>2 DEF IsPeerPingable, TypeOK
  <2> QED BY <1>3, <2>1, <2>3 DEF IsPeerPingable, TypeOK, world
<1>4. ASSUME NEW w \in Worker, PingWorkerUpdates(w) PROVE TypeOK'
  <2> DEFINE p == pinger[w].peer
             new == Pinged(StatusOf(p), pinger[w].ok)
  <2>1. p \in Peer /\ pinger[w].ok \in BOOLEAN
    BY <1>4 DEF PingWorkerUpdates, TypeOK, Pinging, Waiting
  <2>2. new \in StatusRow
    BY <2>1, StatusOfRow, PingedRow
  <2>3. status' \in [Peer -> {NoStatus} \union StatusRow]
    BY <1>4, <2>2 DEF PingWorkerUpdates, UpdatePeerStatus, TypeOK
  <2>4. [pos |-> "publish", peer |-> p, ok |-> new.connected] \in Pinging
    BY <2>1, <2>2 DEF StatusRow, Pinging
  <2>5. \/ pinger' = [pinger EXCEPT ![w] = Waiting]
        \/ pinger' = [pinger EXCEPT ![w] =
                        [pos |-> "publish", peer |-> p, ok |-> new.connected]]
    BY <1>4 DEF PingWorkerUpdates
  <2> HIDE DEF new, p
  <2>6. pinger' \in [Worker -> {Waiting} \union Pinging]
    BY <2>4, <2>5 DEF TypeOK
  <2> QED BY <1>4, <2>3, <2>6 DEF PingWorkerUpdates, TypeOK, world
<1>5. ASSUME NEW w \in Worker, PingWorkerPublishes(w) PROVE TypeOK'
  BY <1>5 DEF PingWorkerPublishes, TypeOK, world
<1> QED BY <1>1, <1>2, <1>3, <1>4, <1>5 DEF PingChecks

LEMMA WorldType ==
    ASSUME TypeOK, World PROVE TypeOK'
<1> USE DEF Outside, pings
<1>1. CASE DeviceRestarts
  <2>1. \A p \in Peer : device[p].on \in BOOLEAN
    BY DEF TypeOK, Counters
  <2>2. device' \in [Peer -> Counters]
    BY <1>1, <2>1 DEF DeviceRestarts, Off, Counters
  <2> QED BY <1>1, <2>2 DEF DeviceRestarts, TypeOK
<1>2. CASE Tick
  BY <1>2 DEF Tick, TypeOK
<1>3. ASSUME NEW p \in Peer, Traffic(p) PROVE TypeOK'
  <2>1. PICK rx \in 0 .. 1, tx \in 0 .. 1, h \in {device[p].handshake, clock} :
            device' = [device EXCEPT ![p] = [on |-> TRUE, rx |-> device[p].rx + rx,
                                             tx |-> device[p].tx + tx, handshake |-> h]]
    BY <1>3 DEF Traffic, TypeOK
  <2>2. device[p].rx + rx \in Nat /\ device[p].tx + tx \in Nat /\ h \in Nat
    BY <2>1 DEF TypeOK, Counters
  <2>3. [on |-> TRUE, rx |-> device[p].rx + rx, tx |-> device[p].tx + tx,
         handshake |-> h] \in Counters
    BY <2>2 DEF Counters
  <2>4. device' \in [Peer -> Counters]
    BY <2>1, <2>3 DEF TypeOK
  <2> QED BY <1>3, <2>4 DEF Traffic, TypeOK
<1>4. ASSUME NEW p \in Peer, SavePeer(p) PROVE TypeOK'
  <2>1. device[p] \in Counters
    BY DEF TypeOK
  <2>2. device' \in [Peer -> Counters]
    BY <1>4, <2>1 DEF SavePeer, TypeOK, Counters
  <2> QED BY <1>4, <2>2 DEF SavePeer, TypeOK
<1>5. ASSUME NEW p \in Peer, UnlinkPeer(p) PROVE TypeOK'
  <2>1. device' \in [Peer -> Counters]
    BY <1>5 DEF UnlinkPeer, TypeOK, Off, Counters
  <2> QED BY <1>5, <2>1 DEF UnlinkPeer, TypeOK
<1>6. ASSUME NEW p \in Peer, DeletePeer(p) PROVE TypeOK'
  BY <1>6 DEF DeletePeer, TypeOK
<1>7. ASSUME NEW p \in Peer, HandlePeerIdentifierChangeEvent(p) PROVE TypeOK'
  BY <1>7 DEF HandlePeerIdentifierChangeEvent, TypeOK
<1> QED BY <1>1, <1>2, <1>3, <1>4, <1>5, <1>6, <1>7 DEF World
\* The webhook changes nothing of all this.
LEMMA WebhookFrame ==
    ASSUME HandlePeerStateChangeEvent
    PROVE  UNCHANGED <<device, peers, status, collector, pinger, enqueue, pingJobs, clock>>
  BY DEF HandlePeerStateChangeEvent, world, pings

LEMMA NextType ==
    ASSUME TypeOK, [Next]_vars PROVE TypeOK'
<1>1. CASE HandlePeerStateChangeEvent
  BY <1>1, WebhookFrame DEF TypeOK
<1>2. CASE UNCHANGED vars
  BY <1>2 DEF vars, TypeOK
<1> QED BY <1>1, <1>2, CollectorType, PingType, WorldType DEF Next

LEMMA InitType ==
    ASSUME Init PROVE TypeOK
<1>1. [Off EXCEPT !.on = TRUE] \in Counters
  BY DEF Off, Counters
<1>2. <<>> \in Seq(Peer)
  OBVIOUS
<1> QED BY <1>1, <1>2 DEF Init, TypeOK

-----------------------------------------------------------------------------
(* The order of the handshakes. *)

\* Ordered speaks of four variables.
LEMMA OrderedFrame ==
    ASSUME Ordered, UNCHANGED <<device, status, collector, clock>>
    PROVE  Ordered'
  BY DEF Ordered, DeviceOrdered, RowOrdered, ReadOrdered, Pending

\* The types of what Ordered compares.
LEMMA OrderedTypes ==
    ASSUME TypeOK, NEW p \in Peer
    PROVE  /\ clock \in Nat /\ device[p].handshake \in Nat
           /\ status[p].exists => status[p].session \in Nat /\ status[p].handshake \in Nat
           /\ Pending(p) => collector.read[p] \in Counters
                           /\ collector.read[p].handshake \in Nat
<1>1. clock \in Nat /\ device[p].handshake \in Nat
  BY DEF TypeOK, Counters
<1>2. status[p] = NoStatus \/ status[p] \in StatusRow
  BY DEF TypeOK
<1>3. status[p].exists => status[p].session \in Nat /\ status[p].handshake \in Nat
  <2>1. CASE status[p] = NoStatus
    BY <2>1 DEF NoStatus
  <2>2. CASE status[p] \in StatusRow
    BY <2>2 DEF StatusRow
  <2> QED BY <1>2, <2>1, <2>2
<1>4. ASSUME Pending(p)
      PROVE  collector.read[p] \in Counters /\ collector.read[p].handshake \in Nat
  <2>1. collector.read \in [Peer -> Counters]
    BY <1>4, CollectorFields DEF Pending
  <2> QED BY <2>1 DEF Counters
<1> QED BY <1>1, <1>3, <1>4

\* The transaction of the collector: the new row is between the old one and what was read.
LEMMA CollectPeerOrdered ==
    ASSUME IInv, NEW q \in Peer, CollectPeer(q) PROVE Ordered'
<1> USE DEF IInv
<1> DEFINE old == StatusOf(q)
           read == collector.read[q]
           new == Collected(old, read)
<1>1. /\ Pending(q) /\ collector.left \in SUBSET Peer
      /\ collector.read \in [Peer -> Counters] /\ read \in Counters
  BY CollectorFields DEF CollectPeer, Pending
<1>2. old \in StatusRow
  BY StatusOfRow
<1>3. /\ status' = [status EXCEPT ![q] = new] \/ UNCHANGED status
      /\ UNCHANGED <<device, clock>>
      /\ \/ collector' = NextPeer(collector.left \ {q}, collector.read)
         \/ /\ collector'.left = collector.left \ {q}
            /\ collector'.read = collector.read
  BY DEF CollectPeer, UpdatePeerStatus, world
<1>4. collector' # Waiting => /\ collector'.left = collector.left \ {q}
                             /\ collector'.read = collector.read
  BY <1>1, <1>3, NextPeerType
<1>5. /\ new \in StatusRow /\ new.handshake = read.handshake
      /\ new.session = 0 \/ (read.handshake # 0 /\ new.session \in {read.handshake, old.session})
  BY <1>1, <1>2, CollectedRow
<1>6. /\ old.session \in Nat /\ old.session <= clock
      /\ NotBefore(device[q].handshake, old.session)
      /\ NotBefore(read.handshake, old.session)
  <2>1. CASE status[q].exists
    BY <1>1, <2>1, StatusOfRow, OrderedTypes DEF Ordered, RowOrdered, ReadOrdered
  <2>2. CASE ~ status[q].exists
    BY <1>1, <2>2, StatusOfRow, OrderedTypes DEF NotBefore
  <2> QED BY <2>1, <2>2
<1>7. /\ read.handshake \in Nat /\ read.handshake <= clock
      /\ NotBefore(device[q].handshake, read.handshake)
      /\ clock \in Nat /\ device[q].handshake \in Nat
  BY <1>1, OrderedTypes DEF Ordered, ReadOrdered
<1> HIDE DEF new, old, read
<1>8. status'[q] \in {new, status[q]} /\ \A p \in Peer \ {q} : status'[p] = status[p]
  BY <1>3 DEF TypeOK
<1>9. ASSUME NEW p \in Peer PROVE (DeviceOrdered(p) /\ RowOrdered(p) /\ ReadOrdered(p))'
  <2>1. CASE p = q
    <3>1. RowOrdered(p)'
      <4>1. CASE status'[q] = new
        BY <1>3, <1>5, <1>6, <1>7, <2>1, <4>1 DEF RowOrdered, NotBefore
      <4>2. CASE status'[q] = status[q]
        BY <1>3, <2>1, <4>2 DEF Ordered, RowOrdered
      <4> QED BY <1>8, <4>1, <4>2
    <3>2. ReadOrdered(p)'
      BY <1>4, <2>1 DEF ReadOrdered, Pending
    <3> QED BY <1>3, <3>1, <3>2 DEF Ordered, DeviceOrdered
  <2>2. CASE p # q
    <3>1. status'[p] = status[p]
      BY <1>8, <2>2
    <3>2. Pending(p)' => Pending(p) /\ collector'.read[p] = collector.read[p]
      BY <1>1, <1>4 DEF Pending
    <3> QED BY <1>3, <3>1, <3>2 DEF Ordered, DeviceOrdered, RowOrdered, ReadOrdered
  <2> QED BY <2>1, <2>2
<1> QED BY <1>9 DEF Ordered

LEMMA CollectorOrdered ==
    ASSUME IInv, Collector PROVE Ordered'
<1> USE DEF IInv
<1>1. CASE CollectPeerData
  <2>1. /\ UNCHANGED <<device, status, clock>>
        /\ collector' # Waiting => collector'.read = device
    BY <1>1, NextPeerType DEF CollectPeerData, world, TypeOK
  <2>2. ASSUME NEW p \in Peer PROVE ReadOrdered(p)'
    BY <2>1, OrderedTypes DEF Ordered, DeviceOrdered, RowOrdered, ReadOrdered, Pending, NotBefore
  <2> QED BY <2>1, <2>2 DEF Ordered, DeviceOrdered, RowOrdered
<1>2. CASE CollectorPublishes
  <2>1. /\ UNCHANGED <<device, status, clock>> /\ collector # Waiting
        /\ collector' # Waiting => collector'.left = collector.left /\ collector'.read = collector.read
    BY <1>2, CollectorFields, NextPeerType DEF CollectorPublishes, world
  <2> QED BY <2>1 DEF Ordered, DeviceOrdered, RowOrdered, ReadOrdered, Pending
<1> QED BY <1>1, <1>2, CollectPeerOrdered DEF Collector

\* A ping worker leaves the start of the session and the handshake alone.
LEMMA PingOrdered ==
    ASSUME IInv, PingChecks PROVE Ordered'
<1> USE DEF IInv
<1>1. ASSUME NEW w \in Worker, PingWorkerUpdates(w) PROVE Ordered'
  <2> DEFINE q == pinger[w].peer
             new == Pinged(StatusOf(q), pinger[w].ok)
  <2>1. q \in Peer /\ pinger[w].ok \in BOOLEAN
    BY <1>1 DEF PingWorkerUpdates, TypeOK, Pinging, Waiting
  <2>2. /\ new.session = StatusOf(q).session /\ new.handshake = StatusOf(q).handshake
        /\ StatusOf(q).session \in Nat
    BY <2>1, StatusOfRow, PingedRow DEF StatusRow
  <2>3. /\ status' = [status EXCEPT ![q] = new] \/ UNCHANGED status
        /\ UNCHANGED <<device, collector, clock>>
    BY <1>1 DEF PingWorkerUpdates, UpdatePeerStatus, world
  <2>4. status'[q] \in {new, status[q]} /\ \A p \in Peer \ {q} : status'[p] = status[p]
    BY <2>1, <2>3 DEF TypeOK
  <2>5. /\ status[q].exists => StatusOf(q) = status[q]
        /\ ~ status[q].exists => StatusOf(q).session = 0
    BY <2>1, StatusOfRow
  <2> HIDE DEF new, q
  <2>6. ASSUME NEW p \in Peer, p = q PROVE RowOrdered(p)' /\ ReadOrdered(p)'
    <3>1. status[p].exists => /\ status'[p].session = status[p].session
                             /\ status'[p].handshake = status[p].handshake
      BY <2>2, <2>4, <2>5, <2>6
    <3>2. ~ status[p].exists => ~ status'[p].exists \/ status'[p].session = 0
      BY <2>2, <2>4, <2>5, <2>6
    <3>3. RowOrdered(p) /\ ReadOrdered(p)
      BY DEF Ordered
    <3>4. RowOrdered(p)'
      BY <2>3, <3>1, <3>2, <3>3, OrderedTypes DEF RowOrdered, NotBefore
    <3>5. ReadOrdered(p)'
      BY <2>3, <3>1, <3>2, <3>3, OrderedTypes DEF ReadOrdered, Pending, NotBefore
    <3> QED BY <3>4, <3>5
  <2>7. ASSUME NEW p \in Peer, p # q PROVE RowOrdered(p)' /\ ReadOrdered(p)'
    BY <2>3, <2>4, <2>7 DEF Ordered, RowOrdered, ReadOrdered, Pending
  <2> QED BY <2>3, <2>6, <2>7 DEF Ordered, DeviceOrdered
<1>2. CASE UNCHANGED <<device, status, collector, clock>>
  BY <1>2, OrderedFrame
<1>3. ASSUME NEW w \in Worker, \/ PingWorkerPublishes(w)
                               \/ \E ok \in BOOLEAN : IsPeerPingable(w, ok)
      PROVE  UNCHANGED <<device, status, collector, clock>>
  BY <1>3 DEF PingWorkerPublishes, IsPeerPingable, world
<1>4. ASSUME EnqueuePingChecks \/ \E p \in Peer : SendPingJob(p)
      PROVE  UNCHANGED <<device, status, collector, clock>>
  BY <1>4 DEF EnqueuePingChecks, SendPingJob, world
<1> QED BY <1>1, <1>2, <1>3, <1>4 DEF PingChecks

\* The handshake of a peer goes back to zero, or forward to the clock.
LEMMA DeviceStepOrdered ==
    ASSUME IInv, UNCHANGED <<status, collector, clock>>,
           \A p \in Peer : device'[p].handshake \in {0, device[p].handshake, clock}
    PROVE  Ordered'
<1> USE DEF IInv
<1>1. ASSUME NEW p \in Peer PROVE (DeviceOrdered(p) /\ RowOrdered(p) /\ ReadOrdered(p))'
  <2>1. DeviceOrdered(p)'
    BY OrderedTypes DEF Ordered, DeviceOrdered
  <2>2. RowOrdered(p)'
    BY OrderedTypes DEF Ordered, RowOrdered, NotBefore
  <2>3. ReadOrdered(p)'
    BY OrderedTypes DEF Ordered, ReadOrdered, Pending, NotBefore
  <2> QED BY <2>1, <2>2, <2>3
<1> QED BY <1>1 DEF Ordered

\* The status of a peer is removed.
LEMMA RemovedOrdered ==
    ASSUME IInv, NEW q \in Peer, UNCHANGED <<device, collector, clock>>,
           status' = [status EXCEPT ![q] = NoStatus]
    PROVE  Ordered'
<1> USE DEF IInv
<1>1. ~ status'[q].exists /\ \A p \in Peer \ {q} : status'[p] = status[p]
  BY DEF TypeOK, NoStatus
<1>2. ASSUME NEW p \in Peer PROVE RowOrdered(p)' /\ ReadOrdered(p)'
  <2>1. CASE p = q
    BY <1>1, <2>1 DEF Ordered, RowOrdered, ReadOrdered, Pending
  <2>2. CASE p # q
    BY <1>1, <2>2 DEF Ordered, RowOrdered, ReadOrdered, Pending
  <2> QED BY <2>1, <2>2
<1> QED BY <1>2 DEF Ordered, DeviceOrdered

LEMMA WorldOrdered ==
    ASSUME IInv, World PROVE Ordered'
<1> USE DEF IInv, Outside
<1>1. CASE DeviceRestarts
  <2>1. \A p \in Peer : device'[p].handshake = 0
    BY <1>1 DEF DeviceRestarts, Off
  <2> QED BY <1>1, <2>1, DeviceStepOrdered DEF DeviceRestarts
<1>2. CASE Tick
  <2>1. clock' = clock + 1 /\ UNCHANGED <<device, status, collector>>
    BY <1>2 DEF Tick
  <2>2. ASSUME NEW p \in Peer PROVE (DeviceOrdered(p) /\ RowOrdered(p) /\ ReadOrdered(p))'
    BY <2>1, OrderedTypes DEF Ordered, DeviceOrdered, RowOrdered, ReadOrdered, Pending
  <2> QED BY <2>2 DEF Ordered
<1>3. ASSUME NEW q \in Peer, Traffic(q) PROVE Ordered'
  <2>1. PICK rx \in 0 .. 1, tx \in 0 .. 1, h \in {device[q].handshake, clock} :
            device' = [device EXCEPT ![q] = [on |-> TRUE, rx |-> device[q].rx + rx,
                                             tx |-> device[q].tx + tx, handshake |-> h]]
    BY <1>3 DEF Traffic, TypeOK
  <2>2. \A p \in Peer : device'[p].handshake \in {0, device[p].handshake, clock}
    BY <2>1 DEF TypeOK
  <2> QED BY <1>3, <2>2, DeviceStepOrdered DEF Traffic
<1>4. ASSUME NEW q \in Peer, SavePeer(q) PROVE Ordered'
  <2>1. \A p \in Peer : device'[p].handshake = device[p].handshake
    BY <1>4 DEF SavePeer, TypeOK, Counters
  <2> QED BY <1>4, <2>1, DeviceStepOrdered DEF SavePeer
<1>5. ASSUME NEW q \in Peer, UnlinkPeer(q) PROVE Ordered'
  <2>1. \A p \in Peer : device'[p].handshake \in {0, device[p].handshake}
    BY <1>5 DEF UnlinkPeer, TypeOK, Off
  <2> QED BY <1>5, <2>1, DeviceStepOrdered DEF UnlinkPeer
<1>6. ASSUME NEW q \in Peer, DeletePeer(q) PROVE Ordered'
  BY <1>6, RemovedOrdered DEF DeletePeer
<1>7. ASSUME NEW q \in Peer, HandlePeerIdentifierChangeEvent(q) PROVE Ordered'
  BY <1>7, RemovedOrdered, OrderedFrame DEF HandlePeerIdentifierChangeEvent
<1> QED BY <1>1, <1>2, <1>3, <1>4, <1>5, <1>6, <1>7 DEF World

LEMMA InitOrdered ==
    ASSUME Init PROVE Ordered
<1>1. ASSUME NEW p \in Peer PROVE DeviceOrdered(p)
  BY DEF Init, DeviceOrdered, Off
<1>2. ASSUME NEW p \in Peer PROVE RowOrdered(p) /\ ReadOrdered(p)
  BY DEF Init, RowOrdered, ReadOrdered, Pending, NoStatus
<1> QED BY <1>1, <1>2 DEF Ordered

-----------------------------------------------------------------------------
(* The theorems. *)

\* The invariant of every run of the collector, the workers, the webhook and the device.
THEOREM Invariance == Spec => []IInv
<1>1. Init => IInv
  BY InitType, InitOrdered DEF IInv
<1>2. IInv /\ [Next]_vars => IInv'
  <2> SUFFICES ASSUME IInv, [Next]_vars PROVE IInv'
    OBVIOUS
  <2>1. TypeOK'
    BY NextType DEF IInv
  <2>2. ASSUME HandlePeerStateChangeEvent PROVE Ordered'
    BY <2>2, WebhookFrame, OrderedFrame DEF IInv
  <2>3. ASSUME UNCHANGED vars PROVE Ordered'
    BY <2>3, OrderedFrame DEF IInv, vars
  <2>4. Ordered'
    BY <2>2, <2>3, CollectorOrdered, PingOrdered, WorldOrdered DEF Next, IInv
  <2> QED BY <2>1, <2>4 DEF IInv
<1> QED BY <1>1, <1>2, PTL DEF Spec

\* The code (getSessionStartTime, statistics.go) follows the pointer to the last
\* handshake of a row with the start of a session: it is never nil.
THEOREM SessionsHaveHandshakes == Spec => []SessionHasHandshake
<1>1. IInv => SessionHasHandshake
  BY DEF IInv, Ordered, RowOrdered, SessionHasHandshake
<1> QED BY <1>1, Invariance, PTL

-----------------------------------------------------------------------------
(* What the receiver of the webhook knows. *)

Event == [peer: Peer, connected: BOOLEAN]

ToldType == events \in Seq(Event) /\ seen \in [Peer -> BOOLEAN]

\* whoever has changed the state of a peer and has yet to tell it
CollectorTells(p) == collector.pos = "publish" /\ collector.peer = p
Untold(p) == CollectorTells(p) \/ Worked(p) # {}

OneTeller(p) ==
    /\ \A v, w \in Worked(p) : v = w
    /\ CollectorTells(p) => Worked(p) = {}

TellsTruth(p) ==
    /\ CollectorTells(p) => collector.connected = Connected(p)
    /\ \A w \in Worked(p) : pinger[w].ok = Connected(p)

\* the last event on the way, or what was told last, is the state of the peer
About(p) == {i \in 1 .. Len(events) : events[i].peer = p}
Last(p, i) == i \in About(p) /\ \A j \in About(p) : j <= i
LastWord(p) ==
    ~ Untold(p) =>
        \/ About(p) = {} /\ seen[p] = Connected(p)
        \/ \E i \in About(p) : Last(p, i) /\ events[i].connected = Connected(p)

KnownOf(p) ==
    p \notin excused => /\ OneTeller(p) /\ TellsTruth(p) /\ LastWord(p)
                        /\ p \notin peers => status[p] = NoStatus /\ ~ Untold(p)

KnownInv == ToldType /\ \A p \in Peer : KnownOf(p)

\* A step that concerns other peers only.
LEMMA OtherPeer ==
    ASSUME NEW p \in Peer, KnownOf(p), p \notin excused, UNCHANGED events, seen'[p] = seen[p],
           Connected(p)' = Connected(p),
           CollectorTells(p)' = CollectorTells(p),
           CollectorTells(p) => collector'.connected = collector.connected,
           Worked(p)' = Worked(p), \A w \in Worked(p) : pinger'[w].ok = pinger[w].ok,
           p \notin peers' => p \notin peers /\ status'[p] = status[p]
    PROVE  KnownOf(p)'
<1>1. OneTeller(p)' /\ TellsTruth(p)'
  BY DEF KnownOf, OneTeller, TellsTruth
<1>2. LastWord(p)'
  BY DEF KnownOf, LastWord, Untold, About, Last
<1> QED BY <1>1, <1>2 DEF KnownOf, Untold

\* The state of a peer was changed by somebody who is about to tell it.
LEMMA NewTeller ==
    ASSUME NEW p \in Peer, p \in peers',
           \/ /\ CollectorTells(p)' /\ Worked(p)' = {}
              /\ collector'.connected = Connected(p)'
           \/ /\ ~ CollectorTells(p)'
              /\ \E w \in Worker : Worked(p)' = {w} /\ pinger'[w].ok = Connected(p)'
    PROVE  KnownOf(p)'
  BY DEF KnownOf, OneTeller, TellsTruth, LastWord, Untold

\* An event joins the queue, or leaves it.
LEMMA AboutAppended ==
    ASSUME events \in Seq(Event), NEW e \in Event, events' = Append(events, e), NEW p \in Peer
    PROVE  /\ About(p)' = IF e.peer = p THEN About(p) \union {Len(events) + 1} ELSE About(p)
           /\ \A i \in About(p) : i \in 1 .. Len(events) /\ events'[i] = events[i]
           /\ events'[Len(events) + 1] = e
<1>1. /\ Len(events') = Len(events) + 1 /\ Len(events) \in Nat
      /\ \A i \in 1 .. Len(events) : events'[i] = events[i]
      /\ events'[Len(events) + 1] = e
  OBVIOUS
<1> QED BY <1>1 DEF About

LEMMA AboutTaken ==
    ASSUME events \in Seq(Event), events # <<>>, events' = Tail(events), NEW p \in Peer
    PROVE  /\ \A i \in Nat : i \in About(p)' <=> i # 0 /\ i + 1 \in About(p)
           /\ \A i \in About(p)' : events'[i] = events[i + 1]
           /\ 1 \in About(p) <=> Head(events).peer = p
           /\ About(p) \subseteq Nat \ {0} /\ About(p)' \subseteq Nat
<1>1. /\ Len(events') = Len(events) - 1 /\ Len(events) \in Nat /\ Len(events) # 0
      /\ \A i \in 1 .. Len(events') : events'[i] = events[i + 1]
      /\ Head(events) = events[1]
  OBVIOUS
<1> QED BY <1>1 DEF About

\* Whoever publishes what he knows of q: his word becomes the last.
LEMMA Told ==
    ASSUME ToldType, TypeOK, NEW p \in Peer, NEW e \in Event, KnownOf(p), p \notin excused,
           events' = Append(events, e), UNCHANGED <<seen, status, peers>>,
           e.peer # p => /\ CollectorTells(p)' = CollectorTells(p)
                         /\ CollectorTells(p) => collector'.connected = collector.connected
                         /\ Worked(p)' = Worked(p) /\ \A w \in Worked(p) : pinger'[w].ok = pinger[w].ok,
           e.peer = p => ~ Untold(p)' /\ e.connected = Connected(p)
    PROVE  KnownOf(p)'
<1>1. /\ About(p)' = IF e.peer = p THEN About(p) \union {Len(events) + 1} ELSE About(p)
      /\ \A i \in About(p) : i \in 1 .. Len(events) /\ events'[i] = events[i]
      /\ events'[Len(events) + 1] = e
  BY AboutAppended DEF ToldType
<1>2. Connected(p)' = Connected(p) /\ Len(events) \in Nat
  BY DEF Connected, ToldType
<1>3. CASE e.peer # p
  <2>1. OneTeller(p)' /\ TellsTruth(p)'
    BY <1>2, <1>3 DEF KnownOf, OneTeller, TellsTruth
  <2>2. LastWord(p)'
    BY <1>1, <1>2, <1>3 DEF KnownOf, LastWord, Untold, Last
  <2> QED BY <1>3, <2>1, <2>2 DEF KnownOf, Untold
<1>4. CASE e.peer = p
  <2>1. OneTeller(p)' /\ TellsTruth(p)'
    BY <1>4 DEF OneTeller, TellsTruth, Untold
  <2>2. PICK n \in Nat : n = Len(events) + 1
    BY <1>2
  <2>3. /\ n \in About(p)' /\ events'[n].connected = Connected(p)'
        /\ \A j \in About(p)' : j <= n
    BY <1>1, <1>2, <1>4, <2>2
  <2>4. LastWord(p)'
    BY <2>3 DEF LastWord, Last
  <2> QED BY <2>1, <2>4, <1>4 DEF KnownOf
<1> QED BY <1>3, <1>4

\* What a row that is written makes of the states.
LEMMA WrittenRow ==
    ASSUME TypeOK, NEW q \in Peer, NEW new \in StatusRow, status' = [status EXCEPT ![q] = new]
    PROVE  /\ Connected(q)' = new.connected /\ Connected(q) = StatusOf(q).connected
           /\ \A p \in Peer \ {q} : Connected(p)' = Connected(p) /\ status'[p] = status[p]
<1>1. status'[q] = new /\ \A p \in Peer \ {q} : status'[p] = status[p]
  BY DEF TypeOK
<1>2. new.exists /\ new.connected \in BOOLEAN
  BY DEF StatusRow
<1>4. Connected(q)' = new.connected
  BY <1>1, <1>2 DEF Connected
<1>5. CASE ~ status[q].exists
  <2>1. StatusOf(q).connected = FALSE
    BY <1>5 DEF StatusOf, NewStatus
  <2> QED BY <1>1, <1>4, <1>5, <2>1 DEF Connected
<1>6. CASE status[q].exists
  <2>1. status[q] # NoStatus
    BY <1>6 DEF NoStatus
  <2>2. status[q].connected \in BOOLEAN
    BY <2>1 DEF TypeOK, StatusRow
  <2> QED BY <1>1, <1>4, <1>6, <2>2 DEF Connected, StatusOf
<1> QED BY <1>1, <1>4, <1>5, <1>6 DEF Connected

\* The transaction: what it makes of the states, and who is excused.
LEMMA UpdateEffect ==
    ASSUME TypeOK, NEW q \in Peer, NEW new \in StatusRow, NEW announced \in BOOLEAN,
           NEW others \in BOOLEAN, UpdatePeerStatus(q, new, announced, others)
    PROVE  /\ \A p \in Peer \ {q} : Connected(p)' = Connected(p) /\ status'[p] = status[p]
           /\ excused \subseteq excused' /\ excused' \subseteq excused \union {q}
           /\ q \notin excused' /\ announced => q \in peers /\ ~ others /\ Connected(q)' = new.connected
           /\ q \notin excused' /\ ~ announced =>
                /\ Connected(q)' = Connected(q)
                /\ q \notin peers => status'[q] = status[q]
<1> DEFINE changed == StateChanged(StatusOf(q), new)
<1>1. CASE /\ announced => changed
           /\ excused' = IF announced THEN excused \union {q} ELSE excused
           /\ Change /\ UNCHANGED status
  <2>1. \A p \in Peer : Connected(p)' = Connected(p) /\ status'[p] = status[p]
    BY <1>1 DEF Connected
  <2>2. announced => q \in excused'
    BY <1>1
  <2> HIDE DEF changed
  <2> QED BY <1>1, <2>1, <2>2
<1>2. CASE /\ announced = changed
           /\ status' = [status EXCEPT ![q] = new]
           /\ excused' = IF q \notin peers \/ (changed /\ others)
                         THEN excused \union {q} ELSE excused
           /\ UNCHANGED changes
  <2>1. /\ Connected(q)' = new.connected /\ Connected(q) = StatusOf(q).connected
        /\ \A p \in Peer \ {q} : Connected(p)' = Connected(p) /\ status'[p] = status[p]
    BY <1>2, WrittenRow
  <2>2. ~ changed => Connected(q)' = Connected(q)
    BY <2>1 DEF StateChanged
  <2>3. q \notin excused' => q \in peers /\ (changed => ~ others)
    BY <1>2
  <2>4. excused \subseteq excused' /\ excused' \subseteq excused \union {q}
    BY <1>2
  <2>5. announced <=> changed
    BY <1>2
  <2> HIDE DEF changed
  <2> QED BY <2>1, <2>2, <2>3, <2>4, <2>5
<1> QED BY <1>1, <1>2 DEF UpdatePeerStatus

\* The collector at its places, and what it tells.
LEMMA CollectorTalk ==
    ASSUME NEW left, NEW read, NEW q \in Peer, NEW c \in BOOLEAN
    PROVE  /\ Waiting.pos # "publish" /\ NextPeer(left, read).pos # "publish"
           /\ [pos |-> "publish", left |-> left, read |-> read, peer |-> q,
               connected |-> c].pos = "publish"
  BY DEF NextPeer, Waiting

LEMMA CollectPeerKnown ==
    ASSUME TypeOK, KnownInv, NEW q \in Peer, CollectPeer(q) PROVE KnownInv'
<1> DEFINE old == StatusOf(q)
           new == Collected(old, collector.read[q])
           left == collector.left \ {q}
<1>1. /\ collector # Waiting /\ collector.read[q] \in Counters
      /\ collector.pos = "update"
  BY CollectorFields DEF CollectPeer
<1>2. new \in StatusRow /\ new.connected \in BOOLEAN
  BY <1>1, StatusOfRow, CollectedRow DEF StatusRow
<1>3. PICK announced \in BOOLEAN :
          /\ UpdatePeerStatus(q, new, announced, Worked(q) # {})
          /\ UNCHANGED <<events, seen, peers, pinger>>
          /\ collector' = IF announced
                          THEN [pos |-> "publish", left |-> left, read |-> collector.read,
                                peer |-> q, connected |-> new.connected]
                          ELSE NextPeer(left, collector.read)
  BY DEF CollectPeer, world, pings
<1> HIDE DEF old, new, left
<1>4. /\ \A p \in Peer : Worked(p)' = Worked(p) /\ ~ CollectorTells(p)
      /\ \A p \in Peer \ {q} : ~ CollectorTells(p)'
      /\ ~ announced => ~ CollectorTells(q)'
      /\ announced => CollectorTells(q)' /\ collector'.connected = new.connected
  <2>1. ~ announced => collector'.pos # "publish"
    BY <1>3, CollectorTalk, <1>2
  <2>2. announced => /\ collector'.pos = "publish" /\ collector'.peer = q
                     /\ collector'.connected = new.connected
    BY <1>3
  <2> QED BY <1>1, <1>3, <2>1, <2>2 DEF CollectorTells, Worked
<1>5. \A p \in Peer \ {q} : Connected(p)' = Connected(p) /\ status'[p] = status[p]
  BY <1>2, <1>3, UpdateEffect
<1>6. q \notin excused' =>
        /\ q \notin excused
        /\ announced => q \in peers /\ Worked(q) = {} /\ Connected(q)' = new.connected
        /\ ~ announced => Connected(q)' = Connected(q) /\ (q \notin peers => status'[q] = status[q])
  BY <1>2, <1>3, UpdateEffect
<1>7. ASSUME NEW p \in Peer, p \notin excused' PROVE KnownOf(p)'
  <2>1. p \notin excused /\ KnownOf(p)
    BY <1>3, <1>7, UpdateEffect, <1>2 DEF KnownInv
  <2>2. CASE p # q
    <3>1. p \notin peers' => p \notin peers /\ status'[p] = status[p]
      BY <1>3, <1>5, <2>2
    <3>2. CollectorTells(p)' = CollectorTells(p) /\ ~ CollectorTells(p)
      BY <1>4, <2>2 DEF CollectorTells
    <3>3. Connected(p)' = Connected(p) /\ Worked(p)' = Worked(p)
      BY <1>4, <1>5, <2>2
    <3> QED BY <1>3, <2>1, <3>1, <3>2, <3>3, OtherPeer
  <2>3. CASE p = q /\ announced
    <3>1. q \in peers' /\ Worked(q)' = {} /\ Connected(q)' = new.connected
      BY <1>3, <1>4, <1>6, <1>7, <2>3
    <3> QED BY <1>4, <2>3, <3>1, NewTeller
  <2>4. CASE p = q /\ ~ announced
    <3>1. Connected(q)' = Connected(q) /\ (q \notin peers' => q \notin peers /\ status'[q] = status[q])
      BY <1>3, <1>6, <1>7, <2>4
    <3>2. CollectorTells(q)' = CollectorTells(q) /\ ~ CollectorTells(q)
      BY <1>4, <2>4 DEF CollectorTells
    <3>3. Worked(q)' = Worked(q)
      BY <1>4
    <3> QED BY <1>3, <2>1, <2>4, <3>1, <3>2, <3>3, OtherPeer
  <2> QED BY <2>2, <2>3, <2>4
<1>8. ToldType'
  BY <1>3 DEF KnownInv, ToldType
<1> QED BY <1>7, <1>8 DEF KnownInv, KnownOf

LEMMA CollectorPublishesKnown ==
    ASSUME TypeOK, KnownInv, CollectorPublishes PROVE KnownInv'
<1> DEFINE e == [peer |-> collector.peer, connected |-> collector.connected]
           q == collector.peer
<1>1. /\ collector.pos = "publish" /\ q \in Peer /\ e \in Event
      /\ UNCHANGED <<status, peers, seen, pinger>>
      /\ collector'.pos # "publish"
  <2>1. collector \in Collecting /\ collector.pos = "publish"
    BY DEF CollectorPublishes, TypeOK, Waiting
  <2>2. q \in Peer /\ collector.connected \in BOOLEAN
    BY <2>1 DEF Collecting
  <2> QED BY <2>1, <2>2, CollectorTalk DEF CollectorPublishes, Event, world, pings
<1>2. /\ e.peer = q /\ e.connected = collector.connected
      /\ \/ q \in peers /\ events' = Append(events, e) /\ UNCHANGED excused
         \/ q \notin peers /\ UNCHANGED <<events, excused>>
         \/ excused' = excused \union {q} /\ UNCHANGED events
  BY DEF CollectorPublishes
<1>3. /\ \A p \in Peer : Worked(p)' = Worked(p) /\ ~ CollectorTells(p)'
      /\ \A p \in Peer \ {q} : ~ CollectorTells(p)
      /\ CollectorTells(q)
  BY <1>1 DEF CollectorTells, Worked
<1> HIDE DEF e, q
<1>4. ASSUME NEW p \in Peer, p \notin excused' PROVE KnownOf(p)'
  <2>1. p \notin excused /\ KnownOf(p)
    BY <1>2, <1>4 DEF KnownInv
  <2>2. CASE q \in peers /\ events' = Append(events, e) /\ UNCHANGED excused
    <3>1. events' = Append(events, e)
      BY <2>2
    <3>2. CASE p # q
      <4>1. CollectorTells(p)' = CollectorTells(p) /\ ~ CollectorTells(p)
        BY <1>3, <3>2 DEF CollectorTells
      <4> QED BY <1>1, <1>2, <1>3, <2>1, <3>1, <3>2, <4>1, Told DEF KnownInv
    <3>3. CASE p = q
      <4>1. ~ Untold(p)' /\ e.connected = Connected(p)
        BY <1>2, <1>3, <2>1, <3>3 DEF KnownOf, Untold, OneTeller, TellsTruth
      <4> QED BY <1>1, <1>2, <2>1, <3>1, <3>3, <4>1, Told DEF KnownInv
    <3> QED BY <3>2, <3>3
  <2>3. CASE UNCHANGED events /\ (q \notin peers \/ q \in excused')
    <3>1. /\ UNCHANGED <<events, seen, status, peers, pinger>>
          /\ Connected(p)' = Connected(p)
      BY <1>1, <2>3 DEF Connected
    <3>2. p # q
      BY <1>3, <1>4, <2>1, <2>3 DEF KnownOf, Untold
    <3>3. CollectorTells(p)' = CollectorTells(p) /\ ~ CollectorTells(p)
      BY <1>3, <3>2 DEF CollectorTells
    <3> QED BY <1>3, <2>1, <3>1, <3>3, OtherPeer
  <2> QED BY <1>2, <2>2, <2>3
<1>5. ToldType'
  BY <1>1, <1>2 DEF KnownInv, ToldType
<1> QED BY <1>4, <1>5 DEF KnownInv, KnownOf

\* A step that changes nobody's state and has nothing to tell.
LEMMA SameTellers ==
    ASSUME KnownInv, UNCHANGED <<events, seen, status, excused, collector, pinger>>,
           \A p \in Peer : p \notin peers' => p \notin peers
    PROVE  KnownInv'
<1>1. ASSUME NEW p \in Peer, p \notin excused' PROVE KnownOf(p)'
  <2>1. /\ p \notin excused /\ KnownOf(p)
        /\ Connected(p)' = Connected(p) /\ CollectorTells(p)' = CollectorTells(p)
        /\ Worked(p)' = Worked(p) /\ seen'[p] = seen[p]
        /\ p \notin peers' => p \notin peers /\ status'[p] = status[p]
    BY <1>1 DEF KnownInv, Connected, CollectorTells, Worked
  <2> QED BY <2>1, OtherPeer
<1>2. ToldType'
  BY DEF KnownInv, ToldType
<1> QED BY <1>1, <1>2 DEF KnownInv, KnownOf

LEMMA PingWorkerUpdatesKnown ==
    ASSUME TypeOK, KnownInv, NEW v \in Worker, PingWorkerUpdates(v) PROVE KnownInv'
<1>0. /\ pinger[v].peer \in Peer /\ pinger[v].ok \in BOOLEAN /\ pinger[v].pos = "update"
  BY DEF PingWorkerUpdates, TypeOK, Pinging, Waiting
<1>1. PICK q \in Peer, ok \in BOOLEAN : q = pinger[v].peer /\ ok = pinger[v].ok
  BY <1>0
<1> DEFINE old == StatusOf(q)
           new == Pinged(old, ok)
           others == Worked(q) # {} \/ CollectorTells(q)
<1>2. new \in StatusRow /\ new.connected \in BOOLEAN
  BY <1>1, StatusOfRow, PingedRow DEF StatusRow
<1>3. PICK announced \in BOOLEAN :
          /\ UpdatePeerStatus(q, new, announced, others)
          /\ UNCHANGED <<events, seen, peers, collector>>
          /\ pinger' = [pinger EXCEPT ![v] = IF announced
                                            THEN [pos |-> "publish", peer |-> q, ok |-> new.connected]
                                            ELSE Waiting]
  BY <1>1 DEF PingWorkerUpdates, world, CollectorTells
<1> HIDE DEF old, new
<1>4. /\ \A p \in Peer \ {q} : Connected(p)' = Connected(p) /\ status'[p] = status[p]
      /\ excused \subseteq excused'
      /\ q \notin excused' /\ announced =>
            q \in peers /\ Worked(q) = {} /\ ~ CollectorTells(q) /\ Connected(q)' = new.connected
      /\ q \notin excused' /\ ~ announced =>
            Connected(q)' = Connected(q) /\ (q \notin peers => status'[q] = status[q])
  <2> HIDE DEF others
  <2>1. UpdatePeerStatus(q, new, announced, others)
    BY <1>3
  <2>2. others <=> Worked(q) # {} \/ CollectorTells(q)
    BY DEF others
  <2> QED BY <1>2, <2>1, <2>2, UpdateEffect
<1>5. /\ \A w \in Worker \ {v} : pinger'[w] = pinger[w]
      /\ ~ announced => pinger'[v].pos # "publish"
      /\ announced => /\ pinger'[v].pos = "publish" /\ pinger'[v].peer = q
                      /\ pinger'[v].ok = new.connected
  BY <1>3 DEF TypeOK, Waiting
<1>6. /\ \A p \in Peer : v \notin Worked(p) /\ \A w \in Worked(p) : pinger'[w] = pinger[w]
      /\ \A p \in Peer \ {q} : Worked(p)' = Worked(p)
      /\ ~ announced => Worked(q)' = Worked(q)
      /\ announced => Worked(q)' = Worked(q) \union {v}
  BY <1>0, <1>1, <1>5 DEF Worked
<1>7. \A p \in Peer : CollectorTells(p)' = CollectorTells(p)
  BY <1>3 DEF CollectorTells
<1>8. ASSUME NEW p \in Peer, p \notin excused' PROVE KnownOf(p)'
  <2>1. p \notin excused /\ KnownOf(p)
    BY <1>4, <1>8 DEF KnownInv
  <2>2. CASE p # q
    <3>1. p \notin peers' => p \notin peers /\ status'[p] = status[p]
      BY <1>3, <1>4, <2>2
    <3>2. Connected(p)' = Connected(p) /\ Worked(p)' = Worked(p)
      BY <1>4, <1>6, <2>2
    <3> QED BY <1>3, <1>6, <1>7, <2>1, <3>1, <3>2, OtherPeer
  <2>3. CASE p = q /\ announced
    <3>1. /\ q \in peers' /\ Worked(q)' = {v} /\ ~ CollectorTells(q)'
          /\ Connected(q)' = new.connected
      BY <1>3, <1>4, <1>6, <1>7, <1>8, <2>3
    <3> QED BY <1>5, <2>3, <3>1, NewTeller
  <2>4. CASE p = q /\ ~ announced
    <3>1. /\ Connected(q)' = Connected(q) /\ Worked(q)' = Worked(q)
          /\ q \notin peers' => q \notin peers /\ status'[q] = status[q]
      BY <1>3, <1>4, <1>6, <1>8, <2>4
    <3> QED BY <1>3, <1>6, <1>7, <2>1, <2>4, <3>1, OtherPeer
  <2> QED BY <2>2, <2>3, <2>4
<1>9. ToldType'
  BY <1>3 DEF KnownInv, ToldType
<1> QED BY <1>8, <1>9 DEF KnownInv, KnownOf

LEMMA PingWorkerPublishesKnown ==
    ASSUME TypeOK, KnownInv, NEW v \in Worker, PingWorkerPublishes(v) PROVE KnownInv'
<1>0. pinger[v].peer \in Peer /\ pinger[v].ok \in BOOLEAN /\ pinger[v].pos = "publish"
  BY DEF PingWorkerPublishes, TypeOK, Pinging, Waiting
<1>1. PICK q \in Peer, e \in Event :
          q = pinger[v].peer /\ e = [peer |-> q, connected |-> pinger[v].ok]
  BY <1>0 DEF Event
<1>2. /\ UNCHANGED <<status, peers, seen, collector, excused>>
      /\ events' = Append(events, e) /\ e.peer = q /\ e.connected = pinger[v].ok
      /\ pinger' = [pinger EXCEPT ![v] = Waiting]
  BY <1>1 DEF PingWorkerPublishes, world
<1>3. /\ \A w \in Worker \ {v} : pinger'[w] = pinger[w]
      /\ pinger'[v].pos # "publish" /\ v \in Worked(q)
  BY <1>0, <1>1, <1>2 DEF TypeOK, Waiting, Worked
<1>4. /\ \A p \in Peer \ {q} : Worked(p)' = Worked(p) /\ \A w \in Worked(p) : pinger'[w] = pinger[w]
      /\ Worked(q)' = Worked(q) \ {v}
  BY <1>0, <1>1, <1>3 DEF Worked
<1>5. \A p \in Peer : CollectorTells(p)' = CollectorTells(p)
  BY <1>2 DEF CollectorTells
<1>6. ASSUME NEW p \in Peer, p \notin excused' PROVE KnownOf(p)'
  <2>1. p \notin excused /\ KnownOf(p)
    BY <1>2, <1>6 DEF KnownInv
  <2>2. CASE p # q
    BY <1>1, <1>2, <1>4, <1>5, <2>1, <2>2, Told DEF KnownInv
  <2>3. CASE p = q
    <3>1. ~ Untold(p)' /\ e.connected = Connected(p)
      BY <1>2, <1>3, <1>4, <1>5, <2>1, <2>3 DEF KnownOf, Untold, OneTeller, TellsTruth
    <3> QED BY <1>1, <1>2, <2>1, <2>3, <3>1, Told DEF KnownInv
  <2> QED BY <2>2, <2>3
<1>7. ToldType'
  BY <1>1, <1>2 DEF KnownInv, ToldType
<1> QED BY <1>6, <1>7 DEF KnownInv, KnownOf

LEMMA PingKnown ==
    ASSUME TypeOK, KnownInv, PingChecks PROVE KnownInv'
<1>1. CASE EnqueuePingChecks
  BY <1>1, SameTellers DEF EnqueuePingChecks, world
<1>2. ASSUME NEW p \in Peer, SendPingJob(p) PROVE KnownInv'
  BY <1>2, SameTellers DEF SendPingJob, world
<1>3. ASSUME NEW v \in Worker, NEW ok \in BOOLEAN, IsPeerPingable(v, ok) PROVE KnownInv'
  <2>1. /\ UNCHANGED <<status, peers, seen, collector, excused, events>>
        /\ \A w \in Worker \ {v} : pinger'[w] = pinger[w]
        /\ pinger'[v].pos # "publish" /\ pinger[v].pos # "publish"
    BY <1>3 DEF IsPeerPingable, world, TypeOK
  <2>2. \A p \in Peer : Worked(p)' = Worked(p) /\ \A w \in Worked(p) : pinger'[w] = pinger[w]
    BY <2>1 DEF Worked
  <2>3. ASSUME NEW p \in Peer, p \notin excused' PROVE KnownOf(p)'
    <3>1. /\ p \notin excused /\ KnownOf(p) /\ Connected(p)' = Connected(p)
          /\ CollectorTells(p)' = CollectorTells(p)
      BY <2>1, <2>3 DEF KnownInv, Connected, CollectorTells
    <3> QED BY <2>1, <2>2, <3>1, OtherPeer
  <2>4. ToldType'
    BY <2>1 DEF KnownInv, ToldType
  <2> QED BY <2>3, <2>4 DEF KnownInv, KnownOf
<1> QED BY <1>1, <1>2, <1>3, PingWorkerUpdatesKnown, PingWorkerPublishesKnown DEF PingChecks

\* The receiver is told the first event, or never will be.
LEMMA WebhookKnown ==
    ASSUME TypeOK, KnownInv, HandlePeerStateChangeEvent PROVE KnownInv'
<1>1. PICK e \in Event : e = Head(events) /\ Len(events) \in Nat
  BY DEF HandlePeerStateChangeEvent, KnownInv, ToldType
<1>2. /\ events # <<>> /\ events' = Tail(events)
      /\ UNCHANGED <<peers, status, collector, pinger>>
      /\ \/ seen' = [seen EXCEPT ![e.peer] = e.connected] /\ excused' = excused
         \/ excused' = excused \union {e.peer} /\ seen' = seen
  BY <1>1 DEF HandlePeerStateChangeEvent, world, pings
<1>3. ToldType'
  <2>1. events' \in Seq(Event) /\ e.peer \in Peer /\ e.connected \in BOOLEAN
    BY <1>2 DEF KnownInv, ToldType, Event
  <2> QED BY <1>2, <2>1 DEF KnownInv, ToldType
<1>4. ASSUME NEW p \in Peer, p \notin excused' PROVE KnownOf(p)'
  <2>1. p \notin excused /\ KnownOf(p) /\ Connected(p)' = Connected(p)
    BY <1>2, <1>4 DEF KnownInv, Connected
  <2>2. Untold(p)' = Untold(p) /\ OneTeller(p)' /\ TellsTruth(p)'
    BY <1>2, <2>1 DEF KnownOf, Untold, CollectorTells, Worked, OneTeller, TellsTruth
  <2>3. /\ \A i \in Nat : i \in About(p)' <=> i # 0 /\ i + 1 \in About(p)
        /\ \A i \in About(p)' : events'[i] = events[i + 1]
        /\ 1 \in About(p) <=> e.peer = p
        /\ About(p) \subseteq Nat \ {0} /\ About(p)' \subseteq Nat
        /\ e = events[1]
    <3>1. events \in Seq(Event) /\ events # <<>> /\ events' = Tail(events)
      BY <1>2 DEF KnownInv, ToldType
    <3>2. e = events[1]
      BY <1>1, <3>1
    <3> QED BY <1>1, <3>1, <3>2, AboutTaken
  <2>4. ASSUME ~ Untold(p)
        PROVE  \/ About(p)' = {} /\ seen'[p] = Connected(p)'
               \/ \E i \in About(p)' : /\ \A j \in About(p)' : j <= i
                                       /\ events'[i].connected = Connected(p)'
    <3>1. CASE About(p) = {} /\ seen[p] = Connected(p)
      <4>1. About(p)' = {} /\ e.peer # p
        BY <2>3, <3>1
      <4>2. seen'[p] = seen[p]
        BY <1>2, <4>1 DEF KnownInv, ToldType
      <4> QED BY <2>1, <3>1, <4>1, <4>2
    <3>2. ASSUME NEW i \in About(p), \A j \in About(p) : j <= i,
                 events[i].connected = Connected(p)
          PROVE  \/ About(p)' = {} /\ seen'[p] = Connected(p)'
                 \/ \E k \in About(p)' : /\ \A j \in About(p)' : j <= k
                                         /\ events'[k].connected = Connected(p)'
      <4>1. CASE i = 1
        <5>1. About(p)' = {} /\ e.peer = p
          BY <2>3, <3>2, <4>1
        <5>2. seen'[p] = e.connected
          BY <1>2, <1>4, <5>1 DEF KnownInv, ToldType
        <5> QED BY <2>1, <2>3, <3>2, <4>1, <5>1, <5>2
      <4>2. CASE i # 1
        <5>1. PICK k \in Nat : k # 0 /\ i = k + 1
          <6>1. i \in Nat /\ i > 1 /\ i - 1 \in Nat
            BY <2>3, <4>2
          <6> QED BY <6>1
        <5>2. k \in About(p)' /\ events'[k] = events[i]
          BY <2>3, <3>2, <5>1
        <5>3. \A j \in About(p)' : j <= k
          BY <2>3, <3>2, <5>1
        <5> QED BY <2>1, <3>2, <5>2, <5>3
      <4> QED BY <4>1, <4>2
    <3> QED BY <2>1, <2>4, <3>1, <3>2 DEF KnownOf, LastWord, Last
  <2>5. LastWord(p)'
    BY <2>2, <2>4 DEF LastWord, Last
  <2> QED BY <1>2, <2>1, <2>2, <2>5 DEF KnownOf
<1> QED BY <1>3, <1>4 DEF KnownInv, KnownOf

LEMMA WorldKnown ==
    ASSUME TypeOK, KnownInv, World PROVE KnownInv'
<1> USE DEF Outside
<1>1. CASE DeviceRestarts \/ Tick
  BY <1>1, SameTellers DEF DeviceRestarts, Tick, pings
<1>2. ASSUME NEW q \in Peer, Traffic(q) \/ SavePeer(q) \/ UnlinkPeer(q) PROVE KnownInv'
  <2>1. /\ UNCHANGED <<events, seen, status, excused, collector, pinger>>
        /\ \A p \in Peer : p \notin peers' => p \notin peers
    BY <1>2 DEF Traffic, SavePeer, UnlinkPeer, pings
  <2> QED BY <2>1, SameTellers
<1>3. ASSUME NEW q \in Peer, DeletePeer(q) PROVE KnownInv'
  <2>1. /\ peers' = peers \ {q} /\ status' = [status EXCEPT ![q] = NoStatus]
        /\ \/ /\ seen' = [seen EXCEPT ![q] = FALSE]
              /\ excused' = IF Announced(q) THEN excused \union {q} ELSE excused
           \/ excused' = excused \union {q} /\ UNCHANGED seen
        /\ UNCHANGED <<collector, pinger, events>>
    BY <1>3 DEF DeletePeer, pings
  <2>2. \A p \in Peer : CollectorTells(p)' = CollectorTells(p) /\ Worked(p)' = Worked(p)
    BY <2>1 DEF CollectorTells, Worked
  <2>3. ASSUME NEW p \in Peer, p \notin excused', p # q PROVE KnownOf(p)'
    <3>1. p \notin excused /\ KnownOf(p) /\ (p \notin peers' => p \notin peers)
      BY <2>1, <2>3 DEF KnownInv
    <3>2. status'[p] = status[p] /\ seen'[p] = seen[p] /\ Connected(p)' = Connected(p)
      BY <2>1, <2>3 DEF TypeOK, KnownInv, ToldType, Connected
    <3> QED BY <2>1, <2>2, <3>1, <3>2, OtherPeer
  <2>4. ASSUME q \notin excused' PROVE KnownOf(q)'
    <3>1. /\ status'[q] = NoStatus /\ seen'[q] = FALSE /\ Connected(q)' = FALSE
          /\ ~ Announced(q)
      BY <2>1, <2>4 DEF TypeOK, KnownInv, ToldType, Connected, NoStatus
    <3>2. ~ CollectorTells(q)' /\ Worked(q)' = {} /\ About(q)' = {}
      BY <2>1, <2>2, <3>1 DEF Announced, CollectorTells, Worked, About, Waiting
    <3> QED BY <3>1, <3>2 DEF KnownOf, OneTeller, TellsTruth, LastWord, Untold
  <2>5. ToldType'
    BY <2>1 DEF KnownInv, ToldType
  <2> QED BY <2>3, <2>4, <2>5 DEF KnownInv, KnownOf
<1>4. ASSUME NEW q \in Peer, HandlePeerIdentifierChangeEvent(q) PROVE KnownInv'
  <2>1. /\ \/ /\ status' = [status EXCEPT ![q] = NoStatus]
              /\ excused' = IF q \in peers THEN excused \union {q} ELSE excused
           \/ UNCHANGED <<status, excused>>
        /\ UNCHANGED <<peers, collector, pinger, events, seen>>
    BY <1>4 DEF HandlePeerIdentifierChangeEvent, pings
  <2>2. ASSUME NEW p \in Peer, p \notin excused' PROVE KnownOf(p)'
    <3>1. p \notin excused /\ KnownOf(p) /\ (p = q => p \notin peers \/ UNCHANGED status)
      BY <2>1, <2>2 DEF KnownInv
    <3>2. status'[p] = status[p]
      BY <2>1, <3>1 DEF TypeOK, KnownOf
    <3>3. /\ Connected(p)' = Connected(p) /\ CollectorTells(p)' = CollectorTells(p)
          /\ Worked(p)' = Worked(p)
      BY <2>1, <3>2 DEF Connected, CollectorTells, Worked
    <3> QED BY <2>1, <3>1, <3>2, <3>3, OtherPeer
  <2>3. ToldType'
    BY <2>1 DEF KnownInv, ToldType
  <2> QED BY <2>2, <2>3 DEF KnownInv, KnownOf
<1> QED BY <1>1, <1>2, <1>3, <1>4 DEF World

LEMMA CollectorKnown ==
    ASSUME TypeOK, KnownInv, Collector PROVE KnownInv'
<1>1. CASE CollectPeerData
  <2>1. /\ UNCHANGED <<status, peers, pinger, events, seen, excused>>
        /\ collector.pos # "publish" /\ collector'.pos # "publish"
    BY <1>1 DEF CollectPeerData, world, pings, Waiting, NextPeer
  <2>2. ASSUME NEW p \in Peer, p \notin excused' PROVE KnownOf(p)'
    <3>1. /\ p \notin excused /\ KnownOf(p) /\ Connected(p)' = Connected(p)
          /\ ~ CollectorTells(p) /\ CollectorTells(p)' = CollectorTells(p)
          /\ Worked(p)' = Worked(p)
      BY <2>1, <2>2 DEF KnownInv, Connected, CollectorTells, Worked
    <3> QED BY <2>1, <3>1, OtherPeer
  <2>3. ToldType'
    BY <2>1 DEF KnownInv, ToldType
  <2> QED BY <2>2, <2>3 DEF KnownInv, KnownOf
<1> QED BY <1>1, CollectPeerKnown, CollectorPublishesKnown DEF Collector

LEMMA InitKnown ==
    ASSUME Init PROVE KnownInv
<1>1. ToldType
  BY DEF Init, ToldType
<1>2. ASSUME NEW p \in Peer PROVE KnownOf(p)
  <2>1. ~ CollectorTells(p) /\ Worked(p) = {} /\ About(p) = {}
    BY DEF Init, CollectorTells, Worked, About, Waiting
  <2>2. seen[p] = FALSE /\ Connected(p) = FALSE /\ status[p] = NoStatus
    BY DEF Init, Connected, NoStatus
  <2> QED BY <2>1, <2>2 DEF KnownOf, OneTeller, TellsTruth, LastWord, Untold
<1> QED BY <1>1, <1>2 DEF KnownInv

\* Who has a change to tell, and what is on the way, for every run.
THEOREM KnownInvariant == Spec => []KnownInv
<1>1. Init => KnownInv
  BY InitKnown
<1>2. TypeOK /\ KnownInv /\ [Next]_vars => KnownInv'
  <2> SUFFICES ASSUME TypeOK, KnownInv, [Next]_vars PROVE KnownInv'
    OBVIOUS
  <2>1. CASE UNCHANGED vars
    BY <2>1, SameTellers DEF vars
  <2> QED BY <2>1, CollectorKnown, PingKnown, WebhookKnown, WorldKnown DEF Next
<1>3. IInv => TypeOK
  BY DEF IInv
<1> QED BY <1>1, <1>2, <1>3, Invariance, PTL DEF Spec

\* Whenever nothing is on its way, the receiver of the webhook knows whether a
\* peer is connected, for any number of peers, workers and events the bus
\* holds: both writers of a row (collectPeerData, pingWorker) publish what they
\* have changed.  This leaves out the peers changes of which overlapped, and
\* those for which a step failed: a transaction after it was noted down what to
\* announce, GetPeer, the webhook, the notice of a deletion.
THEOREM ReceiverIsTold == Spec => []ReceiverKnows
<1>1. IInv /\ KnownInv => ReceiverKnows
  <2> SUFFICES ASSUME IInv, KnownInv, NEW p \in peers \ excused, Quiet(p)
               PROVE  seen[p] = Connected(p)
    BY DEF ReceiverKnows
  <2>1. p \in Peer
    BY DEF IInv, TypeOK
  <2>2. ~ Untold(p) /\ About(p) = {}
    BY DEF Quiet, Untold, CollectorTells, About
  <2> QED BY <2>1, <2>2 DEF KnownInv, KnownOf, LastWord
<1> QED BY <1>1, Invariance, KnownInvariant, PTL
=============================================================================
