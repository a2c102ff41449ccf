------------------------------- MODULE EventBus -------------------------------
(***************************************************************************)
(* Who waits for whom around the event bus (vardius/message-bus, created   *)
(* in cmd/wg-portal/main.go:77).  Publish holds the bus's read lock while  *)
(* it puts the event in the queue of every subscriber, and blocks there    *)
(* when a queue is full.  Subscribe and Unsubscribe hold the write lock: a *)
(* writer that waits keeps new readers out until it was served.  Every     *)
(* subscription has a goroutine that drains its queue.                     *)
(*                                                                         *)
(* The goroutines: the LDAP sync that disables users ("sync"); the         *)
(* subscription that disables their peers ("users"), which publishes too;  *)
(* the audit recorder ("audit"), which writes its entries to the database; *)
(* the statistics collectors, which publish INSIDE a database transaction; *)
(* and the websockets of the user interface, which subscribe when they     *)
(* open and unsubscribe when they close.                                   *)
(*                                                                         *)
(* A websocket's two subscriptions are one here, a user has one peer, and  *)
(* of the events that the save of a peer publishes one after the other the *)
(* audit event stands for all.  Database errors are left to UserPeers and  *)
(* InterfaceSave.                                                          *)
(***************************************************************************)
EXTENDS Naturals, FiniteSets

CONSTANTS
    Client,         \* websockets
    Collector,      \* collectPeerData; collectInterfaceData loads no peers
    Cap,            \* size of the queue of each subscription
    Conns,          \* connections of the database pool
    MaxUser,        \* bound: users the sync disables
    None

Subscriber == {"users", "audit"} \cup Client
Publisher == {"sync", "users"} \cup Collector
Goroutine == Publisher \cup Subscriber

ASSUME NameAssumption ==
    /\ Client \cap ({"sync", "users", "audit"} \cup Collector) = {}
    /\ Collector \cap {"sync", "users", "audit"} = {}
    /\ None \notin Client
ASSUME BoundAssumption ==
    /\ Cap \in [Subscriber -> Nat \ {0}]
    /\ Conns \in Nat \ {0}
    /\ MaxUser \in Nat

VARIABLES
    at,         \* what each goroutine is doing
    left,       \* per publisher: the subscribers it has still to serve
    backlog,    \* per subscription: how many events wait
    subs,       \* the subscriptions the bus knows
    locker,     \* the websocket that has announced its write lock, or None
    tx,         \* the collectors inside a transaction (each holds a connection)
    socket,     \* the life of each websocket
    saved,      \* how many users the sync has disabled
    handled     \* for how many of them the peers are disabled

busVars == <<at, left, backlog, subs, locker, tx, socket, saved, handled>>

Doing == {"idle", "saving", "asking", "waiting", "sending", "committing",
          "loading", "writing"}

Readers == {p \in Publisher : at[p] = "sending"}
FreeConnection == Cardinality(tx) < Conns

\* The subscriptions of the topic p publishes to next: TopicUserDisabled,
\* TopicAuditPeerChanged, the statistics, or (outside the transaction, for the
\* changed state of a peer) a topic that no websocket has subscribed to.
Audience(p) ==
    CASE p = "sync"  -> {"users"}
      [] p = "users" -> {"audit"}
      [] p \in tx    -> Client
      [] OTHER       -> {}

BusInit ==
    /\ at = [g \in Goroutine |-> "idle"]
    /\ left = [p \in Publisher |-> {}]
    /\ backlog = [s \in Subscriber |-> 0]
    /\ subs = {"users", "audit"}
    /\ locker = None
    /\ tx = {}
    /\ socket = [c \in Client |-> "out"]
    /\ saved = 0
    /\ handled = 0

-----------------------------------------------------------------------------
(* The bus.                                                                *)

\* RLock: get the lock, or wait behind a writer that was announced.
RLock(p) ==
    /\ at[p] = "asking"
    /\ IF locker = None
         THEN /\ at' = [at EXCEPT ![p] = "sending"]
              /\ left' = [left EXCEPT ![p] = Audience(p) \cap subs]
         ELSE /\ at' = [at EXCEPT ![p] = "waiting"]
              /\ UNCHANGED left
    /\ UNCHANGED <<backlog, subs, locker, tx, socket, saved, handled>>

\* h.queue <- args: blocks while the queue is full, with the lock held.
Send(p) ==
    /\ at[p] = "sending"
    /\ \E s \in left[p] :
         /\ backlog[s] < Cap[s]
         /\ backlog' = [backlog EXCEPT ![s] = @ + 1]
         /\ left' = [left EXCEPT ![p] = @ \ {s}]
    /\ UNCHANGED <<at, subs, locker, tx, socket, saved, handled>>

\* Publish returns: RUnlock.
RUnlock(p) ==
    /\ at[p] = "sending"
    /\ left[p] = {}
    /\ at' = [at EXCEPT ![p] = IF p \in tx THEN "committing" ELSE "idle"]
    /\ UNCHANGED <<left, backlog, subs, locker, tx, socket, saved, handled>>

\* Lock: a websocket that opens or closes announces that it wants to write.
Announce(c) ==
    /\ socket[c] \in {"joining", "leaving"}
    /\ locker = None
    /\ locker' = c
    /\ UNCHANGED <<at, left, backlog, subs, tx, socket, saved, handled>>

\* The lock is released: whoever waited for it reads at once.
LetReadersIn ==
    /\ at' = [g \in Goroutine |-> IF at[g] = "waiting" THEN "sending" ELSE at[g]]
    /\ left' = [p \in Publisher |->
                  IF at[p] = "waiting" THEN Audience(p) \cap subs' ELSE left[p]]

ReSubscribe(c) ==
    \/ /\ socket[c] = "joining"
       /\ subs' = subs \cup {c}
       /\ socket' = [socket EXCEPT ![c] = "in"]
    \/ /\ socket[c] = "leaving"
       /\ subs' = subs \ {c}
       /\ socket' = [socket EXCEPT ![c] = "out"]

ChangeUnlocked(c) ==
    /\ locker = c
    /\ ReSubscribe(c)
    /\ locker' = None
    /\ LetReadersIn
    /\ UNCHANGED <<backlog, tx, saved, handled>>

ChangeAndWakeNobody(c) ==
    /\ locker = c
    /\ Readers = {}
    /\ ReSubscribe(c)
    /\ locker' = None
    /\ UNCHANGED <<at, left, backlog, tx, saved, handled>>

\* The readers have left: Subscribe adds the handler, Unsubscribe closes its
\* queue and removes it; then Unlock.
Change(c) ==
    /\ locker = c
    /\ Readers = {}
    /\ ReSubscribe(c)
    /\ locker' = None
    /\ LetReadersIn
    /\ UNCHANGED <<backlog, tx, saved, handled>>

TakeAllEvents(s) ==
    /\ at[s] = "idle"
    /\ backlog[s] > 0
    /\ backlog' = [backlog EXCEPT ![s] = 0]
    /\ at' = [at EXCEPT ![s] = IF s \in Client THEN "writing" ELSE "saving"]
    /\ UNCHANGED <<left, subs, locker, tx, socket, saved, handled>>

TakeEventWhileOpen(s) ==
    /\ at[s] = "idle"
    /\ backlog[s] > 0
    /\ s \in Client => socket[s] = "in"
    /\ backlog' = [backlog EXCEPT ![s] = @ - 1]
    /\ at' = [at EXCEPT ![s] = IF s \in Client THEN "writing" ELSE "saving"]
    /\ UNCHANGED <<left, subs, locker, tx, socket, saved, handled>>

\* The goroutine of a subscription takes an event and calls its handler.
TakeEvent(s) ==
    /\ at[s] = "idle"
    /\ backlog[s] > 0
    /\ backlog' = [backlog EXCEPT ![s] = @ - 1]
    /\ at' = [at EXCEPT ![s] = IF s \in Client THEN "writing" ELSE "saving"]
    /\ UNCHANGED <<left, subs, locker, tx, socket, saved, handled>>

-----------------------------------------------------------------------------
(* The goroutines.                                                         *)

\* disableMissingLdapUsers: saves the next user and publishes.
SaveUser ==
    /\ at["sync"] = "idle"
    /\ saved < MaxUser
    /\ FreeConnection
    /\ saved' = saved + 1
    /\ at' = [at EXCEPT !["sync"] = "asking"]
    /\ UNCHANGED <<left, backlog, subs, locker, tx, socket, handled>>

\* handleUserDisabledEvent: UpdatePeer saves the peer and publishes.
DisablePeer ==
    /\ at["users"] = "saving"
    /\ FreeConnection
    /\ handled' = handled + 1
    /\ at' = [at EXCEPT !["users"] = "asking"]
    /\ UNCHANGED <<left, backlog, subs, locker, tx, socket, saved>>

\* handlePeerEvent of the recorder: SaveAuditEntry.
SaveAuditEntry ==
    /\ at["audit"] = "saving"
    /\ FreeConnection
    /\ at' = [at EXCEPT !["audit"] = "idle"]
    /\ UNCHANGED <<left, backlog, subs, locker, tx, socket, saved, handled>>

\* UpdateInterfaceStatus, UpdatePeerStatus: the transaction starts, and the
\* update function publishes.
BeginTx(k) ==
    /\ at[k] = "idle"
    /\ FreeConnection
    /\ tx' = tx \cup {k}
    /\ at' = [at EXCEPT ![k] = "asking"]
    /\ UNCHANGED <<left, backlog, subs, locker, socket, saved, handled>>

\* The transaction is held open until the event is out as well.
CommitAtTheEnd(k) ==
    /\ at[k] = "committing"
    /\ \E next \in {"idle", "loading"} :
         /\ at' = [at EXCEPT ![k] = next]
         /\ tx' = IF next = "idle" THEN tx \ {k} ELSE tx
    /\ UNCHANGED <<left, backlog, subs, locker, socket, saved, handled>>

\* It ends; a peer that has come or gone is loaded for another event.
Commit(k) ==
    /\ at[k] = "committing"
    /\ tx' = tx \ {k}
    /\ \E next \in {"idle", "loading"} : at' = [at EXCEPT ![k] = next]
    /\ UNCHANGED <<left, backlog, subs, locker, socket, saved, handled>>

\* GetPeer; TopicPeerStateChanged follows.
LoadPeer(k) ==
    /\ at[k] = "loading"
    /\ FreeConnection
    /\ at' = [at EXCEPT ![k] = "asking"]
    /\ UNCHANGED <<left, backlog, subs, locker, tx, socket, saved, handled>>

\* WriteJSON returns, with or without an error.
WriteJSON(c) ==
    /\ at[c] = "writing"
    /\ at' = [at EXCEPT ![c] = "idle"]
    /\ UNCHANGED <<left, backlog, subs, locker, tx, socket, saved, handled>>

\* handleWebsocket starts (a new queue and goroutine: the old ones are done).
Connect(c) ==
    /\ socket[c] = "out"
    /\ backlog[c] = 0
    /\ at[c] = "idle"
    /\ socket' = [socket EXCEPT ![c] = "joining"]
    /\ UNCHANGED <<at, left, backlog, subs, locker, tx, saved, handled>>

\* The context is cancelled: the deferred Unsubscribe is called.
Disconnect(c) ==
    /\ socket[c] = "in"
    /\ socket' = [socket EXCEPT ![c] = "leaving"]
    /\ UNCHANGED <<at, left, backlog, subs, locker, tx, saved, handled>>

-----------------------------------------------------------------------------

BusNext ==
    \/ \E p \in Publisher : RLock(p) \/ Send(p) \/ RUnlock(p)
    \/ \E c \in Client : Announce(c) \/ Change(c)
    \/ \E s \in Subscriber : TakeEvent(s)
    \/ SaveUser \/ DisablePeer \/ SaveAuditEntry
    \/ \E k \in Collector : BeginTx(k) \/ Commit(k) \/ LoadPeer(k)
    \/ \E c \in Client : WriteJSON(c) \/ Connect(c) \/ Disconnect(c)

\* Every goroutine runs when it can.  Go serves blocked senders, waiting lock
\* holders and requests for a connection in order, so who can go on again and
\* again goes on at last (strong fairness).  A write to a websocket ends: the
\* client reads, or TCP gives up.  Nobody has to connect, leave or sync.
BusFairness ==
    /\ \A p \in Publisher : /\ WF_busVars(RLock(p)) /\ SF_busVars(Send(p))
                            /\ WF_busVars(RUnlock(p))
    /\ \A c \in Client : /\ SF_busVars(Announce(c)) /\ WF_busVars(Change(c))
                         /\ WF_busVars(WriteJSON(c))
    /\ \A s \in Subscriber : WF_busVars(TakeEvent(s))
    /\ SF_busVars(DisablePeer) /\ SF_busVars(SaveAuditEntry)
    /\ \A k \in Collector : WF_busVars(Commit(k)) /\ SF_busVars(LoadPeer(k))

BusSpec == BusInit /\ [][BusNext]_busVars /\ BusFairness

-----------------------------------------------------------------------------
(* Properties.                                                             *)

\* Every variable has its type, and no queue holds more than its size.
TypeOK ==
    /\ at \in [Goroutine -> Doing]
    /\ left \in [Publisher -> SUBSET Subscriber]
    /\ backlog \in [Subscriber -> Nat]
    /\ \A s \in Subscriber : backlog[s] <= Cap[s]
    /\ subs \subseteq Subscriber
    /\ locker \in Client \cup {None}
    /\ tx \subseteq Collector
    /\ socket \in [Client -> {"out", "joining", "in", "leaving"}]
    /\ saved \in 0..MaxUser
    /\ handled \in Nat

\* No event is sent to a subscription that is gone: Unsubscribe closes its
\* queue, and a send on a closed channel ends the portal.
NoSendOnClosed == \A p \in Publisher : left[p] \subseteq subs

\* The event the sync has not sent yet, and the one its handler works on.
Unsent == IF \/ at["sync"] \in {"asking", "waiting"}
             \/ at["sync"] = "sending" /\ "users" \in left["sync"] THEN 1 ELSE 0
InHand == IF at["users"] = "saving" THEN 1 ELSE 0

\* Between the sync and the peers no event is lost and none handled twice,
\* whoever subscribes or unsubscribes in between (ldap_sync.go:246,
\* wireguard.go:156).
EventsOnce == saved = handled + backlog["users"] + InHand + Unsent

\* The peers of every user the sync has disabled are disabled at last.
EventsHandled == \A n \in 1..MaxUser : (saved >= n) ~> (handled >= n)

\* A collector that publishes inside its transaction gets out of it, and its
\* connection goes back to the pool (statistics.go:141, 226).
TransactionsEnd == \A k \in Collector : (k \in tx) ~> (k \notin tx)

\* A websocket that is closed gets rid of its subscription.
ClientsLeave == \A c \in Client : (socket[c] = "leaving") ~> (socket[c] = "out")

=============================================================================
