------------------------------ MODULE EventProofs ------------------------------
(***************************************************************************)
(* The events of the portal, in two parts: the bus that carries them, and  *)
(* the route manager and the configuration files that follow them.         *)
(*                                                                         *)
(* The bus, for any number of websockets and collectors, any queue sizes   *)
(* and any number of users: nothing is sent to a closed queue, and no      *)
(* event of a disabled user is lost or handled twice.  The invariant is    *)
(* IInv.                                                                   *)
(*                                                                         *)
(* The followers, for any networks, tables and marks that TablesApart      *)
(* keeps apart, and any number of concurrent changes, failures and foreign *)
(* rules: once every event is handled, the kernel and the file agree with  *)
(* the rows.  The invariant, FollowInv, says what always holds of types,   *)
(* links and rules (BaseInv), and of a portal whose last change met it     *)
(* idle: that nobody else is at work while the change is (ChangeInv), and  *)
(* what the events that wait, the handler under way and the file amount to *)
(* afterwards (RouteInv, FileInv).                                         *)
(***************************************************************************)
EXTENDS EventBus, Followers, FiniteSetTheorems, TLAPS

-----------------------------------------------------------------------------
(* The bus. *)


\* The handlers of the portal stay subscribed, a websocket that is not open
\* is not, and who has announced the write lock is about to use it.
Subscribed ==
    /\ {"users", "audit"} \subseteq subs
    /\ \A c \in Client : socket[c] \in {"out", "joining"} => c \notin subs
    /\ locker # None => socket[locker] \in {"joining", "leaving"}

\* Who is not inside Publish has nothing left to send.
Serving == \A p \in Publisher : at[p] # "sending" => left[p] = {}

\* Only the sync sends to the handler that disables peers.
OneSource == \A p \in Publisher \ {"sync"} : "users" \notin left[p]

IInv == TypeOK /\ Subscribed /\ Serving /\ OneSource /\ NoSendOnClosed /\ EventsOnce

-----------------------------------------------------------------------------

\* What each publisher publishes to.
LEMMA TopicFacts ==
    ASSUME TypeOK
    PROVE  /\ \A p \in Publisher : Audience(p) \subseteq Subscriber
           /\ Audience("sync") = {"users"}
           /\ \A p \in Publisher \ {"sync"} : "users" \notin Audience(p)
  BY NameAssumption DEF TypeOK, Audience, Publisher, Subscriber

\* The initial state satisfies the invariant.
LEMMA InitInv == BusInit => IInv
  BY NameAssumption, BoundAssumption
     DEF BusInit, IInv, TypeOK, Subscribed, Serving, OneSource, NoSendOnClosed,
         EventsOnce, InHand, Unsent, Goroutine, Publisher, Subscriber, Doing

\* A publisher that gets the read lock, or waits behind a writer.
LEMMA RLockInv == ASSUME IInv, NEW p \in Publisher, RLock(p) PROVE IInv'
<1> USE DEF IInv, RLock
<1>1. TypeOK'
  BY TopicFacts DEF TypeOK, Doing, Goroutine
<1>2. Subscribed' /\ Serving' /\ OneSource' /\ NoSendOnClosed'
  BY TopicFacts DEF TypeOK, Subscribed, Serving, OneSource, NoSendOnClosed, Goroutine
<1>3. EventsOnce'
  <2>1. InHand' = InHand
    <3>1. p \in Goroutine /\ "users" \in Goroutine
      BY DEF Goroutine, Publisher
    <3>2. at'["users"] = "saving" <=> at["users"] = "saving"
      BY <3>1 DEF TypeOK
    <3> QED BY <3>2 DEF InHand
  <2>2. Unsent' = Unsent
    <3>1. CASE p = "sync"
      <4>1. CASE locker = None
        <5>1. at'["sync"] = "sending" /\ left'["sync"] = {"users"} \cap subs
          BY <3>1, <4>1, TopicFacts DEF TypeOK, Goroutine
        <5>2. at["sync"] = "asking" /\ "users" \in left'["sync"]
          BY <3>1, <5>1 DEF Subscribed
        <5> QED BY <5>1, <5>2 DEF Unsent
      <4>2. CASE locker # None
        BY <3>1, <4>2 DEF Unsent, TypeOK, Goroutine
      <4> QED BY <4>1, <4>2
    <3>2. CASE p # "sync"
      BY <3>2 DEF Unsent, TypeOK, Goroutine, Publisher
    <3> QED BY <3>1, <3>2
  <2> QED BY <2>1, <2>2 DEF EventsOnce
<1> QED BY <1>1, <1>2, <1>3

\* An event is put in a queue.
LEMMA SendInv == ASSUME IInv, NEW p \in Publisher, Send(p) PROVE IInv'
<1> PICK s \in left[p] :
      /\ backlog[s] < Cap[s]
      /\ backlog' = [backlog EXCEPT ![s] = @ + 1]
      /\ left' = [left EXCEPT ![p] = @ \ {s}]
  BY DEF Send
<1>0. /\ at[p] = "sending" /\ s \in Subscriber /\ p \in Goroutine
      /\ UNCHANGED <<at, subs, locker, tx, socket, saved, handled>>
  BY DEF Send, IInv, TypeOK, Goroutine
<1>1. TypeOK'
  <2>1. backlog' \in [Subscriber -> Nat] /\ \A t \in Subscriber : backlog'[t] <= Cap[t]
    <3>1. /\ backlog \in [Subscriber -> Nat] /\ Cap[s] \in Nat
          /\ \A t \in Subscriber : backlog[t] <= Cap[t]
      BY <1>0, BoundAssumption DEF IInv, TypeOK
    <3>2. backlog[s] + 1 \in Nat /\ backlog[s] + 1 <= Cap[s]
      BY <1>0, <3>1
    <3> QED BY <1>0, <3>1, <3>2
  <2>2. left' \in [Publisher -> SUBSET Subscriber]
    <3>1. left[p] \ {s} \in SUBSET Subscriber
      BY DEF IInv, TypeOK
    <3> QED BY <3>1 DEF IInv, TypeOK
  <2> QED BY <1>0, <2>1, <2>2 DEF IInv, TypeOK
<1>2. Subscribed' /\ Serving' /\ OneSource' /\ NoSendOnClosed'
  BY <1>0 DEF IInv, TypeOK, Subscribed, Serving, OneSource, NoSendOnClosed
<1>3. EventsOnce'
  <2>1. InHand' = InHand
    BY <1>0 DEF InHand
  <2>2. CASE s = "users"
    <3>1. p = "sync"
      BY <2>2 DEF IInv, OneSource
    <3>2. Unsent = 1 /\ Unsent' = 0
      BY <1>0, <2>2, <3>1 DEF Unsent, IInv, TypeOK
    <3>3. backlog'["users"] = backlog["users"] + 1
      BY <1>0, <2>2 DEF IInv, TypeOK
    <3> QED BY <1>0, <2>1, <3>2, <3>3, SMT DEF EventsOnce, IInv, TypeOK, InHand, Subscriber
  <2>3. CASE s # "users"
    <3>1. Unsent' = Unsent /\ backlog'["users"] = backlog["users"]
      BY <1>0, <2>3 DEF Unsent, IInv, TypeOK, Subscriber, Publisher
    <3> QED BY <1>0, <2>1, <3>1 DEF EventsOnce, IInv
  <2> QED BY <2>2, <2>3
<1> QED BY <1>1, <1>2, <1>3 DEF IInv

\* Publish returns.
LEMMA RUnlockInv == ASSUME IInv, NEW p \in Publisher, RUnlock(p) PROVE IInv'
<1>1. TypeOK'
  BY DEF IInv, RUnlock, TypeOK, Doing, Goroutine
<1>2. Subscribed' /\ Serving' /\ OneSource' /\ NoSendOnClosed'
  BY DEF IInv, RUnlock, TypeOK, Subscribed, Serving, OneSource, NoSendOnClosed, Goroutine
<1>3. InHand' = InHand /\ Unsent' = Unsent
  BY NameAssumption DEF IInv, RUnlock, TypeOK, InHand, Unsent, Goroutine, Publisher
<1> QED BY <1>1, <1>2, <1>3 DEF IInv, RUnlock, EventsOnce

\* Subscribe and Unsubscribe: no publisher holds the read lock, so nobody has
\* the closed queue in its list, and those who waited see the new handlers.
LEMMA SubscribeInv == ASSUME IInv, NEW c \in Client, Change(c) PROVE IInv'
<1>0. /\ \A p \in Publisher : at[p] # "sending" /\ left[p] = {}
      /\ c # "users" /\ c # "audit"
      /\ UNCHANGED <<backlog, tx, saved, handled>>
      /\ at' = [g \in Goroutine |-> IF at[g] = "waiting" THEN "sending" ELSE at[g]]
      /\ left' = [p \in Publisher |->
                    IF at[p] = "waiting" THEN Audience(p) \cap subs' ELSE left[p]]
      /\ locker' = None
  BY NameAssumption DEF IInv, Serving, Change, Readers, LetReadersIn
<1>1. /\ subs' \subseteq Subscriber /\ {"users", "audit"} \subseteq subs'
      /\ socket' \in [Client -> {"out", "joining", "in", "leaving"}]
      /\ \A d \in Client : socket'[d] \in {"out", "joining"} => d \notin subs'
  <2>0. ReSubscribe(c) /\ subs \subseteq Subscriber /\ c \in Subscriber
    BY DEF Change, IInv, TypeOK, Subscriber
  <2>1. CASE socket[c] = "joining"
    BY <1>0, <2>0, <2>1 DEF ReSubscribe, IInv, TypeOK, Subscribed
  <2>2. CASE socket[c] = "leaving"
    BY <1>0, <2>0, <2>2 DEF ReSubscribe, IInv, TypeOK, Subscribed
  <2> QED BY <2>0, <2>1, <2>2 DEF ReSubscribe
<1>2. TypeOK'
  BY <1>0, <1>1, TopicFacts DEF IInv, TypeOK, Doing
<1>3. Subscribed' /\ NoSendOnClosed'
  BY <1>0, <1>1 DEF Subscribed, NoSendOnClosed
<1>4. Serving' /\ OneSource'
  BY <1>0, TopicFacts DEF IInv, Serving, OneSource, Goroutine
<1>5. InHand' = InHand /\ Unsent' = Unsent
  <2>1. InHand' = InHand
    BY <1>0 DEF InHand, Goroutine, Publisher
  <2>2. CASE at["sync"] = "waiting"
    <3>1. at'["sync"] = "sending" /\ left'["sync"] = Audience("sync") \cap subs'
      BY <1>0, <2>2 DEF Goroutine, Publisher
    <3>2. "users" \in left'["sync"]
      BY <1>1, <3>1, TopicFacts DEF IInv
    <3> QED BY <2>1, <2>2, <3>1, <3>2 DEF Unsent
  <2>3. CASE at["sync"] # "waiting"
    <3>1. at'["sync"] = at["sync"] /\ left'["sync"] = left["sync"]
      BY <1>0, <2>3 DEF Goroutine, Publisher
    <3> QED BY <2>1, <3>1 DEF Unsent
  <2> QED BY <2>2, <2>3
<1> QED BY <1>0, <1>2, <1>3, <1>4, <1>5 DEF IInv, EventsOnce

\* A handler is called with the next event of its queue.
LEMMA TakeEventInv == ASSUME IInv, NEW s \in Subscriber, TakeEvent(s) PROVE IInv'
<1>0. s # "sync" /\ s \in Goroutine
  BY NameAssumption DEF Subscriber, Goroutine
<1>1. TypeOK'
  <2>1. /\ backlog' \in [Subscriber -> Nat]
        /\ \A t \in Subscriber : backlog'[t] <= Cap[t]
    <3>1. /\ backlog \in [Subscriber -> Nat] /\ Cap[s] \in Nat
          /\ \A t \in Subscriber : backlog[t] <= Cap[t]
          /\ backlog[s] > 0 /\ backlog' = [backlog EXCEPT ![s] = @ - 1]
      BY BoundAssumption DEF IInv, TypeOK, TakeEvent
    <3>2. backlog[s] - 1 \in Nat /\ backlog[s] - 1 <= Cap[s]
      BY <3>1
    <3> QED BY <3>1, <3>2
  <2>2. at' \in [Goroutine -> Doing]
    BY <1>0 DEF IInv, TakeEvent, TypeOK, Doing
  <2> QED BY <2>1, <2>2 DEF IInv, TakeEvent, TypeOK
<1>2. Subscribed' /\ Serving' /\ OneSource' /\ NoSendOnClosed'
  BY <1>0 DEF IInv, TakeEvent, TypeOK, Subscribed, Serving, OneSource, NoSendOnClosed
<1>3. Unsent' = Unsent
  BY <1>0 DEF IInv, TakeEvent, TypeOK, Unsent
<1>4. backlog'["users"] + InHand' = backlog["users"] + InHand
  <2>1. CASE s = "users"
    <3>1. InHand = 0 /\ InHand' = 1
      BY <1>0, <2>1, NameAssumption DEF IInv, TakeEvent, TypeOK, InHand
    <3>2. backlog'["users"] = backlog["users"] - 1 /\ backlog["users"] \in Nat
      BY <1>0, <2>1 DEF IInv, TakeEvent, TypeOK
    <3> QED BY <3>1, <3>2
  <2>2. CASE s # "users"
    <3>1. InHand' = InHand /\ backlog'["users"] = backlog["users"]
      BY <1>0, <2>2 DEF IInv, TakeEvent, TypeOK, InHand, Subscriber
    <3> QED BY <3>1
  <2> QED BY <2>1, <2>2
<1>5. EventsOnce'
  <2>1. /\ InHand \in Nat /\ InHand' \in Nat /\ Unsent \in Nat
        /\ backlog["users"] \in Nat /\ backlog'["users"] \in Nat
        /\ handled \in Nat /\ handled' = handled /\ saved' = saved
    BY <1>1 DEF IInv, InHand, Unsent, TypeOK, TakeEvent, Subscriber
  <2>2. saved = handled + backlog["users"] + InHand + Unsent
    BY DEF IInv, EventsOnce
  <2> QED BY <1>3, <1>4, <2>1, <2>2, SMT DEF EventsOnce
<1> QED BY <1>1, <1>2, <1>5 DEF IInv

\* The sync disables a user.
LEMMA SaveUserInv == ASSUME IInv, SaveUser PROVE IInv'
<1>1. TypeOK'
  BY BoundAssumption DEF IInv, SaveUser, TypeOK, Doing, Goroutine, Publisher
<1>2. Subscribed' /\ Serving' /\ OneSource' /\ NoSendOnClosed'
  BY DEF IInv, SaveUser, TypeOK, Subscribed, Serving, OneSource, NoSendOnClosed,
         Goroutine, Publisher
<1>3. InHand' = InHand /\ Unsent = 0 /\ Unsent' = 1
  BY DEF IInv, SaveUser, TypeOK, InHand, Unsent, Goroutine, Publisher
<1>4. /\ InHand \in Nat /\ backlog["users"] \in Nat /\ handled \in Nat
      /\ saved' = saved + 1 /\ backlog' = backlog /\ handled' = handled
      /\ saved = handled + backlog["users"] + InHand + Unsent
  BY DEF IInv, InHand, TypeOK, SaveUser, Subscriber, EventsOnce
<1>5. EventsOnce'
  BY <1>3, <1>4, SMT DEF EventsOnce
<1> QED BY <1>1, <1>2, <1>5 DEF IInv

\* The handler disables the peers of a user.
LEMMA DisablePeerInv == ASSUME IInv, DisablePeer PROVE IInv'
<1>1. TypeOK'
  BY DEF IInv, DisablePeer, TypeOK, Doing, Goroutine, Publisher
<1>2. Subscribed' /\ Serving' /\ OneSource' /\ NoSendOnClosed'
  BY DEF IInv, DisablePeer, TypeOK, Subscribed, Serving, OneSource, NoSendOnClosed,
         Goroutine, Publisher
<1>3. Unsent' = Unsent /\ InHand = 1 /\ InHand' = 0
  BY DEF IInv, DisablePeer, TypeOK, InHand, Unsent, Goroutine, Publisher
<1>4. /\ Unsent \in Nat /\ backlog["users"] \in Nat /\ handled \in Nat
      /\ handled' = handled + 1 /\ backlog' = backlog /\ saved' = saved
      /\ saved = handled + backlog["users"] + InHand + Unsent
  BY DEF IInv, Unsent, TypeOK, DisablePeer, Subscriber, EventsOnce
<1>5. EventsOnce'
  BY <1>3, <1>4, SMT DEF EventsOnce
<1> QED BY <1>1, <1>2, <1>5 DEF IInv

\* The steps that touch neither the lock nor the events of the sync.
LEMMA OtherInv ==
    ASSUME IInv,
           \/ SaveAuditEntry
           \/ \E k \in Collector : BeginTx(k) \/ Commit(k) \/ LoadPeer(k)
           \/ \E c \in Client : WriteJSON(c) \/ Connect(c) \/ Disconnect(c)
    PROVE  IInv'
<1>1. \/ /\ \E g \in {"audit"} \cup Collector \cup Client : \E next \in Doing :
             /\ at' = [at EXCEPT ![g] = next]
             /\ at[g] # "sending" /\ next # "sending"
         /\ UNCHANGED socket
      \/ /\ \E c \in Client :
             \/ socket[c] = "out" /\ socket' = [socket EXCEPT ![c] = "joining"]
             \/ socket[c] = "in" /\ socket' = [socket EXCEPT ![c] = "leaving"]
         /\ UNCHANGED at
  BY DEF SaveAuditEntry, BeginTx, Commit, LoadPeer, WriteJSON, Connect, Disconnect, Doing
<1>2. /\ UNCHANGED <<left, backlog, subs, locker, saved, handled>>
      /\ tx' \subseteq Collector
  BY DEF SaveAuditEntry, BeginTx, Commit, LoadPeer, WriteJSON, Connect, Disconnect,
         IInv, TypeOK
<1>3. CASE /\ \E g \in {"audit"} \cup Collector \cup Client : \E next \in Doing :
                /\ at' = [at EXCEPT ![g] = next]
                /\ at[g] # "sending" /\ next # "sending"
           /\ UNCHANGED socket
  <2> PICK g \in {"audit"} \cup Collector \cup Client, next \in Doing :
        /\ at' = [at EXCEPT ![g] = next]
        /\ at[g] # "sending" /\ next # "sending"
    BY <1>3
  <2>0. g \in Goroutine /\ g # "sync" /\ g # "users"
    BY NameAssumption DEF Goroutine, Publisher, Subscriber
  <2>1. TypeOK'
    BY <1>2, <1>3, <2>0 DEF IInv, TypeOK
  <2>2. Subscribed' /\ Serving' /\ OneSource' /\ NoSendOnClosed'
    BY <1>2, <1>3, <2>0
       DEF IInv, TypeOK, Subscribed, Serving, OneSource, NoSendOnClosed, Goroutine
  <2>3. InHand' = InHand /\ Unsent' = Unsent
    BY <1>2, <2>0 DEF IInv, TypeOK, InHand, Unsent, Goroutine, Publisher
  <2> QED BY <1>2, <2>1, <2>2, <2>3 DEF IInv, EventsOnce
<1>4. CASE /\ \E c \in Client :
                \/ socket[c] = "out" /\ socket' = [socket EXCEPT ![c] = "joining"]
                \/ socket[c] = "in" /\ socket' = [socket EXCEPT ![c] = "leaving"]
           /\ UNCHANGED at
  <2>1. TypeOK'
    BY <1>2, <1>4 DEF IInv, TypeOK
  <2>2. Subscribed' /\ Serving' /\ OneSource' /\ NoSendOnClosed'
    BY <1>2, <1>4, NameAssumption
       DEF IInv, TypeOK, Subscribed, Serving, OneSource, NoSendOnClosed
  <2>3. InHand' = InHand /\ Unsent' = Unsent
    BY <1>2, <1>4 DEF InHand, Unsent
  <2> QED BY <1>2, <2>1, <2>2, <2>3 DEF IInv, EventsOnce
<1> QED BY <1>1, <1>3, <1>4

\* A websocket announces that it wants the write lock.
LEMMA AnnounceInv == ASSUME IInv, NEW c \in Client, Announce(c) PROVE IInv'
  BY NameAssumption
     DEF IInv, Announce, TypeOK, Subscribed, Serving, OneSource, NoSendOnClosed,
         EventsOnce, InHand, Unsent

\* Every step preserves the invariant.
LEMMA StepInv == IInv /\ [BusNext]_busVars => IInv'
<1> SUFFICES ASSUME IInv, [BusNext]_busVars PROVE IInv'
  OBVIOUS
<1>1. ASSUME NEW p \in Publisher, RLock(p) \/ Send(p) \/ RUnlock(p) PROVE IInv'
  BY <1>1, RLockInv, SendInv, RUnlockInv
<1>2. ASSUME NEW c \in Client, Announce(c) \/ Change(c) PROVE IInv'
  BY <1>2, AnnounceInv, SubscribeInv
<1>3. ASSUME NEW s \in Subscriber, TakeEvent(s) PROVE IInv'
  BY <1>3, TakeEventInv
<1>4. CASE SaveUser
  BY <1>4, SaveUserInv
<1>5. CASE DisablePeer
  BY <1>5, DisablePeerInv
<1>6. CASE UNCHANGED busVars
  BY <1>6 DEF busVars, IInv, TypeOK, Subscribed, Serving, OneSource, NoSendOnClosed,
              EventsOnce, InHand, Unsent
<1> QED BY <1>1, <1>2, <1>3, <1>4, <1>5, <1>6, OtherInv DEF BusNext

-----------------------------------------------------------------------------

\* The invariant holds in every reachable state.
THEOREM Invariance == BusSpec => []IInv
<1>1. BusInit => IInv
  BY InitInv
<1>2. IInv /\ [BusNext]_busVars => IInv'
  BY StepInv
<1> QED BY <1>1, <1>2, PTL DEF BusSpec

\* Every variable has its type, and no queue is ever longer than its size.
THEOREM TypeCorrect == BusSpec => []TypeOK
  BY Invariance, PTL DEF IInv

\* The portal never sends to the closed queue of a websocket that has left,
\* whatever publishers and websockets do at the same time.
THEOREM ClosedQueueSafe == BusSpec => []NoSendOnClosed
  BY Invariance, PTL DEF IInv

\* Every user the LDAP sync disables has exactly one event: not sent yet,
\* queued, in the handler's hands, or handled.
THEOREM EventConservation == BusSpec => []EventsOnce
  BY Invariance, PTL DEF IInv

-----------------------------------------------------------------------------
(* The followers: types, and what the invariant says. *)


Rows == Wanted \union {[w EXCEPT !.present = FALSE, !.enabled = FALSE] : w \in Wanted}
        \union {NoRow}
Infos == {Info(w, ips) : w \in Wanted, ips \in SUBSET Cidr}
Payload(t) == IF t \in {"route:update", "route:remove"} THEN Infos ELSE Wanted
Links == [present : BOOLEAN, index : Nat, up : BOOLEAN, mark : Marks \union {0},
          known : BOOLEAN]
Route == [cidr : Cidr \union {Connected}, table : Int]
Operation ==
    {Idle}
    \union [kind : {"save"}, at : {"apply"}, row : Rows, cidrs : SUBSET Cidr]
    \union [kind : {"delete", "peers"}, at : {"apply"}, row : Wanted, cidrs : SUBSET Cidr]
Lefts == {<<"v4", "v6">>, <<"v6">>, <<>>}
SetRouter == [kind : {"set"}, left : Lefts, cidrs : SUBSET Cidr, index : Nat,
              mark : Marks, table : Int]
RemoveRouter == [kind : {"remove"}, left : Lefts, cidrs : SUBSET Cidr, index : Nat,
                 mark : Marks, table : Int, named : BOOLEAN]
Writing == [kind : {"file"}, row : Rows, cidrs : SUBSET Cidr]

Queued ==
    /\ queue \in [Topic -> Seq(Infos \union Wanted)]
    /\ \A t \in Topic : queue[t] \in Seq(Payload(t))

Typed ==
    /\ row \in Rows
    /\ cidrs \in SUBSET Cidr
    /\ link \in Links
    /\ lastIndex \in Nat
    /\ routes \in SUBSET Route
    /\ Queued
    /\ op \in [Slot -> Operation]
    /\ router \in {Idle} \union SetRouter \union RemoveRouter
    /\ writer \in [Writer -> {Idle} \union Writing]
    /\ clean \in BOOLEAN

LinkInv ==
    /\ link.up = row.enabled
    /\ link.up => link.present
    /\ link.present => link.index # 0
    /\ ~ link.up => routes = {}

RulesInv ==
    /\ rules = [f \in Family |-> rules[f]]
    /\ \A f \in Family :
          /\ IsFiniteSet(rules[f])
          /\ \A r, q \in rules[f] : IsMainRule(r) /\ IsMainRule(q) => r = q

BaseInv == Typed /\ LinkInv /\ RulesInv

Changing == \E s \in Slot : op[s] # Idle

ChangeInv ==
    \A s \in Slot : op[s] # Idle =>
        /\ op[s].row = row /\ op[s].cidrs = cidrs
        /\ \A z \in Slot : op[z] # Idle => z = s
        /\ \A t \in Topic : queue[t] # <<>> => t = "route:remove" /\ op[s].kind = "delete"
        /\ router # Idle => op[s].kind = "delete"
        /\ \A w \in Writer : writer[w] = Idle

FileInv ==
    /\ \A w \in Writer : writer[w] # Idle => writer[w] = Contents
    /\ ~ Changing =>
        /\ \A t \in {"created", "updated", "deleted"} : \A i \in 1 .. Len(queue[t]) :
              queue[t][i].save = row.save
        /\ row.save =>
            IF row.present
            THEN /\ queue["deleted"] = <<>>
                 /\ \/ file = Contents
                    \/ \E w \in Writer : writer[w] # Idle
                    \/ \E t \in {"created", "updated", "peers"} : queue[t] # <<>>
            ELSE /\ \A w \in Writer : writer[w] = Idle
                 /\ file = NoFile \/ queue["deleted"] # <<>>

FamilyDone(f) ==
    /\ \A c \in CidrsOf(cidrs, f) : [cidr |-> c, table |-> WantedTable] \in routes
    /\ \A r \in routes : r.cidr \in CidrsOf(Cidr, f) => r.cidr \in cidrs
    /\ \E r \in rules[f] : r.mark = link.mark /\ r.table = WantedTable
    /\ CidrsOf(cidrs, f) \intersect DefaultRoute # {} => \E r \in rules[f] : IsMainRule(r)

Setting ==
    /\ router.kind = "set" /\ router.cidrs = cidrs /\ router.index = link.index
    /\ router.mark = link.mark /\ router.table = WantedTable
    /\ router.left # <<"v4", "v6">> => FamilyDone("v4")
    /\ router.left = <<>> => FamilyDone("v6")

Settled ==
    /\ router.kind # "set"
    /\ Routed
    /\ router.kind = "remove" => router.table \notin {WantedTable, Main}

RouteInv ==
    ~ Changing /\ Managed /\ link.known =>
        /\ \A i \in 1 .. Len(queue["route:update"]) :
              queue["route:update"][i] = Info(row, cidrs)
        /\ \A i \in 1 .. Len(queue["route:remove"]) :
              queue["route:remove"][i].table # GetRoutingTable(row)
        /\ queue["route:update"] # <<>> \/ Setting \/ Settled

FollowInv == BaseInv /\ (clean => ChangeInv /\ FileInv /\ RouteInv)

-----------------------------------------------------------------------------
(* Rows, events, sequences. *)

LEMMA WantedFields ==
    ASSUME NEW w \in Wanted
    PROVE  /\ w.present = TRUE /\ w.enabled \in BOOLEAN /\ w.save \in BOOLEAN
           /\ w.mark \in Nat /\ w.table \in DOMAIN TableNumber /\ GetRoutingTable(w) \in Int
  BY FollowersAssumption DEF GetRoutingTable

LEMMA RowFields ==
    ASSUME NEW r \in Rows
    PROVE  /\ r.present \in BOOLEAN /\ r.enabled \in BOOLEAN /\ r.save \in BOOLEAN
           /\ r.present => r \in Wanted
           /\ r.enabled => r.present
  <1>1. CASE r \in Wanted BY <1>1, WantedFields
  <1>2. CASE r = NoRow BY <1>2 DEF NoRow
  <1>3. CASE \E w \in Wanted : r = [w EXCEPT !.present = FALSE, !.enabled = FALSE]
    <2> PICK w \in Wanted : r = [w EXCEPT !.present = FALSE, !.enabled = FALSE] BY <1>3
    <2> w \in [present : {TRUE}, enabled : BOOLEAN, save : BOOLEAN,
               table : DOMAIN TableNumber, mark : Nat]
      BY FollowersAssumption
    <2> QED OBVIOUS
  <1> QED BY <1>1, <1>2, <1>3 DEF Rows

LEMMA InfoFields ==
    ASSUME NEW i \in Infos
    PROVE  /\ i.row \in Wanted /\ i.mark = i.row.mark /\ i.table = GetRoutingTable(i.row)
           /\ i.cidrs \in SUBSET Cidr /\ i.mark \in Nat /\ i.table \in Int
  <1> PICK w \in Wanted, ips \in SUBSET Cidr : i = Info(w, ips) BY DEF Infos
  <1> QED BY WantedFields DEF Info

LEMMA MarksAreNumbers == Marks \subseteq Nat \ {0}
  <1>1. RouteTableOffset \in Nat BY FollowersAssumption
  <1>2. ASSUME NEW m \in Nat, m > RouteTableOffset PROVE m \in Nat \ {0}
    BY <1>1, <1>2
  <1>3. ASSUME NEW w \in Wanted, w.mark # 0 PROVE w.mark \in Nat \ {0}
    BY <1>3, WantedFields
  <1> QED BY <1>2, <1>3 DEF Marks

LEMMA AppendedItems ==
    ASSUME NEW S, NEW s \in Seq(S), NEW x \in S
    PROVE  /\ Append(s, x) \in Seq(S) /\ Append(s, x) # <<>>
           /\ \A i \in 1 .. Len(Append(s, x)) :
                 Append(s, x)[i] = x \/ (i \in 1 .. Len(s) /\ Append(s, x)[i] = s[i])
  OBVIOUS

LEMMA TailItems ==
    ASSUME NEW S, NEW s \in Seq(S), s # <<>>
    PROVE  /\ Head(s) \in S /\ Head(s) = s[1] /\ 1 \in 1 .. Len(s) /\ Tail(s) \in Seq(S)
           /\ \A i \in 1 .. Len(Tail(s)) : i + 1 \in 1 .. Len(s) /\ Tail(s)[i] = s[i + 1]
  OBVIOUS

\* Nothing is lost of what was queued; every event published comes last.
LEMMA PublishedEvents ==
    ASSUME Queued, NEW es,
           \A e \in es : e[1] \in Topic /\ e[2] \in Payload(e[1]),
           \A e, d \in es : e[1] = d[1] => e[2] = d[2],
           queue' = Published(es)
    PROVE  /\ Queued'
           /\ \A t \in Topic : (\A e \in es : e[1] # t) => queue'[t] = queue[t]
           /\ \A e \in es : queue'[e[1]] = Append(queue[e[1]], e[2])
  <1>1. \A t \in Topic : (\A e \in es : e[1] # t) => queue'[t] = queue[t]
    BY DEF Published
  <1>2. \A e \in es : queue'[e[1]] = Append(queue[e[1]], e[2])
    <2> TAKE e \in es
    <2> DEFINE d == CHOOSE d \in es : d[1] = e[1]
    <2>1. d \in es /\ d[1] = e[1] OBVIOUS
    <2>2. d[2] = e[2] BY <2>1
    <2>3. queue'[e[1]] = Append(queue[e[1]], d[2]) BY DEF Published
    <2> QED BY <2>2, <2>3
  <1>3. \A t \in Topic : queue'[t] \in Seq(Payload(t))
    <2> TAKE t \in Topic
    <2>1. CASE \A e \in es : e[1] # t BY <2>1, <1>1 DEF Queued
    <2>2. CASE \E e \in es : e[1] = t
      <3> PICK e \in es : e[1] = t BY <2>2
      <3>1. queue'[t] = Append(queue[t], e[2]) BY <1>2
      <3>2. queue[t] \in Seq(Payload(t)) /\ e[2] \in Payload(t) BY DEF Queued
      <3> HIDE DEF Payload
      <3> QED BY <3>1, <3>2
    <2> QED BY <2>1, <2>2
  <1>4. \A t \in Topic : queue'[t] \in Seq(Infos \union Wanted)
    <2> TAKE t \in Topic
    <2>1. Payload(t) \subseteq Infos \union Wanted BY DEF Payload
    <2>2. queue'[t] \in Seq(Payload(t)) BY <1>3
    <2> HIDE DEF Payload
    <2> QED BY <2>1, <2>2
  <1>5. queue' \in [Topic -> Seq(Infos \union Wanted)] BY <1>4 DEF Published
  <1> QED BY <1>1, <1>2, <1>3, <1>5 DEF Queued

LEMMA TakenEvents ==
    ASSUME Queued, NEW t \in Topic, queue[t] # <<>>, queue' = Taken(t)
    PROVE  /\ Queued' /\ Head(queue[t]) \in Payload(t) /\ Head(queue[t]) = queue[t][1]
           /\ 1 \in 1 .. Len(queue[t])
           /\ \A u \in Topic \ {t} : queue'[u] = queue[u]
           /\ \A i \in 1 .. Len(queue'[t]) : i + 1 \in 1 .. Len(queue[t]) /\ queue'[t][i] = queue[t][i + 1]
  <1>1. queue[t] \in Seq(Payload(t)) BY DEF Queued
  <1>2. /\ Head(queue[t]) \in Payload(t) /\ Head(queue[t]) = queue[t][1]
        /\ 1 \in 1 .. Len(queue[t]) /\ Tail(queue[t]) \in Seq(Payload(t))
        /\ \A i \in 1 .. Len(Tail(queue[t])) :
              i + 1 \in 1 .. Len(queue[t]) /\ Tail(queue[t])[i] = queue[t][i + 1]
    BY <1>1, TailItems
  <1>3. queue'[t] = Tail(queue[t]) /\ \A u \in Topic \ {t} : queue'[u] = queue[u]
    BY DEF Taken, Queued
  <1>4. queue[t] \in Seq(Infos \union Wanted) BY DEF Queued
  <1>5. Tail(queue[t]) \in Seq(Infos \union Wanted) BY <1>4, TailItems
  <1>6. queue' \in [Topic -> Seq(Infos \union Wanted)] BY <1>5 DEF Taken, Queued
  <1>7. \A u \in Topic : queue'[u] \in Seq(Payload(u)) BY <1>2, <1>3 DEF Queued
  <1> QED BY <1>2, <1>3, <1>6, <1>7 DEF Queued

-----------------------------------------------------------------------------
(* What always holds. *)

LEMMA InitBaseInv == ASSUME Init PROVE BaseInv
  <1>1. row \in Rows BY DEF Init, Rows
  <1>2. link \in Links BY DEF Init, Links, NoLink
  <1>3. \A t \in Topic : queue[t] = <<>> BY DEF Init
  <1>4. Queued
    <2>1. queue \in [Topic -> Seq(Infos \union Wanted)] BY DEF Init
    <2> QED BY <2>1, <1>3 DEF Queued
  <1>5. RulesInv
    <2>1. \A f \in Family : rules[f] = {LinuxMainRule} BY DEF Init
    <2>2. IsFiniteSet({LinuxMainRule}) BY FS_Singleton
    <2>3. rules = [f \in Family |-> rules[f]] BY DEF Init
    <2> QED BY <2>1, <2>2, <2>3 DEF RulesInv
  <1>6. Typed
    <2>1. op \in [Slot -> Operation] /\ writer \in [Writer -> {Idle} \union Writing]
      BY DEF Init, Operation
    <2> QED BY <1>1, <1>2, <1>4, <2>1 DEF Init, Typed
  <1>7. LinkInv BY DEF Init, LinkInv, NoLink, NoRow
  <1> QED BY <1>5, <1>6, <1>7 DEF BaseInv

LEMMA LinkKept ==
    ASSUME BaseInv, NEW new \in Links, SetLink(new), new.up = row'.enabled,
           new.up => new.present, new.present => new.index # 0
    PROVE  link' \in Links /\ routes' \in SUBSET Route /\ LinkInv'
  <1> DEFINE kept == IF new.up /\ link.up /\ new.index = link.index THEN routes ELSE {}
             own  == [cidr |-> Connected, table |-> Main]
  <1>1. own \in Route /\ kept \subseteq Route BY DEF Route, Main, BaseInv, Typed
  <1>2. link' = new BY DEF SetLink
  <1>3. routes' = kept \/ (new.up /\ routes' = kept \union {own}) BY DEF SetLink
  <1> QED BY <1>1, <1>2, <1>3 DEF LinkInv

LEMMA BeginBase == ASSUME BaseInv, NEW s \in Slot, Begin(s) PROVE BaseInv'
  <1> USE DEF BaseInv
  <1> PICK kind \in {"save", "delete", "peers"} :
        /\ kind # "save" => row.present
        /\ op' = [op EXCEPT ![s] = [kind |-> kind, at |-> "apply", row |-> row, cidrs |-> cidrs]]
        /\ IF kind = "delete" THEN queue' = Published({<<"route:remove", Info(row, cidrs)>>})
           ELSE UNCHANGED queue
    BY DEF Begin
  <1>1. kind # "save" => row \in Wanted BY RowFields DEF Typed
  <1>2. [kind |-> kind, at |-> "apply", row |-> row, cidrs |-> cidrs] \in Operation
    BY <1>1 DEF Typed, Operation
  <1>3. op' \in [Slot -> Operation] BY <1>2 DEF Typed
  <1>4. Queued'
    <2>1. CASE kind = "delete"
      <3>1. Info(row, cidrs) \in Infos BY <2>1, <1>1 DEF Infos, Typed
      <3>2. \A e \in {<<"route:remove", Info(row, cidrs)>>} : e[1] \in Topic /\ e[2] \in Payload(e[1])
        BY <3>1 DEF Topic, Payload
      <3> QED BY <2>1, <3>2, PublishedEvents DEF Typed
    <2>2. CASE kind # "delete" BY <2>2 DEF Typed, Queued
    <2> QED BY <2>1, <2>2
  <1>5. clean' \in BOOLEAN BY DEF Begin, Quiet
  <1>6. UNCHANGED <<row, cidrs, link, lastIndex, routes, rules, router, writer>>
    BY DEF Begin, world, kernel
  <1>7. Typed' BY <1>3, <1>4, <1>5, <1>6 DEF Typed
  <1> QED BY <1>6, <1>7 DEF LinkInv, RulesInv

\* What a save does to the queues.
Announced(old, new, ips) ==
    /\ new.enabled =>
         /\ queue'["route:update"] = Append(queue["route:update"], Info(new, ips))
         /\ \/ queue'["route:remove"] = queue["route:remove"]
            \/ /\ queue'["route:remove"] = Append(queue["route:remove"], Info(old, ips))
               /\ old.present /\ old.table # new.table
    /\ queue'["deleted"] = queue["deleted"]
    /\ IF old.present
       THEN /\ queue'["updated"] = Append(queue["updated"], new)
            /\ queue'["created"] = queue["created"]
       ELSE /\ queue'["created"] = Append(queue["created"], new)
            /\ queue'["updated"] = queue["updated"]

LEMMA SavePublishes ==
    ASSUME Queued, NEW old \in Rows, NEW new \in Wanted, NEW ips \in SUBSET Cidr,
           NEW switched \in BOOLEAN, queue' = Published(SaveEvents(old, new, ips, switched))
    PROVE  Queued' /\ Announced(old, new, ips)
  <1> DEFINE es == SaveEvents(old, new, ips, switched)
             first == IF new.enabled THEN "route:update" ELSE "route:remove"
             told == IF old.present THEN "updated" ELSE "created"
             moved == new.enabled /\ old.present /\ old.table # new.table
  <1>1. /\ <<first, Info(new, ips)>> \in es
        /\ <<told, new>> \in es
        /\ moved => <<"route:remove", Info(old, ips)>> \in es
    BY DEF SaveEvents
  <1>2. \A e \in es : \/ e = <<first, Info(new, ips)>>
                      \/ e = <<told, new>>
                      \/ moved /\ e = <<"route:remove", Info(old, ips)>>
                      \/ e = <<"peers", new>>
    BY DEF SaveEvents
  <1>3. Info(new, ips) \in Infos BY DEF Infos
  <1>4. moved => Info(old, ips) \in Infos BY RowFields DEF Infos
  <1>5. /\ first \in Topic /\ Payload(first) = Infos /\ told \in Topic /\ Payload(told) = Wanted
        /\ "route:remove" \in Topic /\ Payload("route:remove") = Infos
        /\ "peers" \in Topic /\ Payload("peers") = Wanted
    BY DEF Topic, Payload
  <1>6. first \in {"route:update", "route:remove"} /\ told \in {"created", "updated"}
    OBVIOUS
  <1>7. moved => first = "route:update" OBVIOUS
  <1> HIDE DEF es, first, told, moved
  <1>8. \A e \in es : e[1] \in Topic /\ e[2] \in Payload(e[1])
    BY <1>2, <1>3, <1>4, <1>5
  <1>9. \A e, d \in es : e[1] = d[1] => e[2] = d[2]
    <2> SUFFICES ASSUME NEW e \in es, NEW d \in es, e[1] = d[1] PROVE e[2] = d[2] OBVIOUS
    <2>1. CASE e = <<first, Info(new, ips)>> BY <2>1, <1>2, <1>6, <1>7
    <2>2. CASE e = <<told, new>> BY <2>2, <1>2, <1>6
    <2>3. CASE moved /\ e = <<"route:remove", Info(old, ips)>> BY <2>3, <1>2, <1>6, <1>7
    <2>4. CASE e = <<"peers", new>> BY <2>4, <1>2, <1>6
    <2> QED BY <1>2, <2>1, <2>2, <2>3, <2>4
  <1>10. /\ Queued'
         /\ \A t \in Topic : (\A e \in es : e[1] # t) => queue'[t] = queue[t]
         /\ \A e \in es : queue'[e[1]] = Append(queue[e[1]], e[2])
    BY <1>8, <1>9, PublishedEvents DEF es
  <1>11. queue'[first] = Append(queue[first], Info(new, ips)) BY <1>1, <1>10
  <1>12. queue'[told] = Append(queue[told], new) BY <1>1, <1>10
  <1>13. moved => queue'["route:remove"] = Append(queue["route:remove"], Info(old, ips))
    BY <1>1, <1>10
  <1>14. new.enabled /\ ~ moved => queue'["route:remove"] = queue["route:remove"]
    <2> SUFFICES ASSUME new.enabled, ~ moved PROVE \A e \in es : e[1] # "route:remove"
      BY <1>10 DEF Topic
    <2>1. first = "route:update" BY DEF first
    <2> QED BY <2>1, <1>2, <1>6
  <1>15. queue'["deleted"] = queue["deleted"]
    <2>1. \A e \in es : e[1] # "deleted" BY <1>2, <1>6
    <2> QED BY <2>1, <1>10 DEF Topic
  <1>16. \A t \in {"created", "updated"} : t # told => queue'[t] = queue[t]
    <2> TAKE t \in {"created", "updated"}
    <2> HAVE t # told
    <2>1. \A e \in es : e[1] # t BY <1>2, <1>6
    <2> QED BY <2>1, <1>10 DEF Topic
  <1>17. Queued' BY <1>10
  <1>18. new.enabled =>
            /\ queue'["route:update"] = Append(queue["route:update"], Info(new, ips))
            /\ \/ queue'["route:remove"] = queue["route:remove"]
               \/ /\ queue'["route:remove"] = Append(queue["route:remove"], Info(old, ips))
                  /\ old.present /\ old.table # new.table
    BY <1>11, <1>13, <1>14 DEF first, moved
  <1>19. IF old.present
         THEN /\ queue'["updated"] = Append(queue["updated"], new)
              /\ queue'["created"] = queue["created"]
         ELSE /\ queue'["created"] = Append(queue["created"], new)
              /\ queue'["updated"] = queue["updated"]
    BY <1>12, <1>16 DEF told
  <1> QED BY <1>15, <1>17, <1>18, <1>19 DEF Announced

LEMMA SaveBase == ASSUME BaseInv, NEW s \in Slot, SaveInterface(s) PROVE BaseInv'
  <1> USE DEF BaseInv
  <1> PICK new \in Wanted, switched \in BOOLEAN :
        /\ switched => op[s].row.present
        /\ ApplyPhysicalInterface(new, switched)
        /\ row' = new
        /\ queue' = Published(SaveEvents(op[s].row, new, op[s].cidrs, switched))
    BY DEF SaveInterface
  <1>1. op[s] \in Operation /\ op[s].kind = "save" BY DEF SaveInterface, Typed
  <1>2. op[s].row \in Rows /\ op[s].cidrs \in SUBSET Cidr BY <1>1 DEF Operation, Idle
  <1>3. Queued' BY <1>2, SavePublishes DEF Typed
  <1> DEFINE fresh == switched \/ ~ link.present
             index == IF fresh THEN lastIndex + 1 ELSE link.index
             mark  == IF new.mark # 0 THEN new.mark ELSE IF fresh THEN 0 ELSE link.mark
  <1> PICK known \in IF fresh THEN BOOLEAN ELSE {link.known} :
        SetLink([present |-> TRUE, index |-> index, up |-> new.enabled,
                 mark |-> IF known THEN mark ELSE 0, known |-> known])
    BY DEF ApplyPhysicalInterface
  <1> DEFINE wanted == [present |-> TRUE, index |-> index, up |-> new.enabled,
                        mark |-> IF known THEN mark ELSE 0, known |-> known]
  <1>4. link \in Links /\ lastIndex \in Nat BY DEF Typed
  <1>5. index \in Nat /\ index # 0 BY <1>4 DEF LinkInv, Links
  <1>6. mark \in Marks \union {0} BY <1>4 DEF Links, Marks
  <1>7. known \in BOOLEAN BY <1>4 DEF Links
  <1>8. new.enabled \in BOOLEAN BY WantedFields
  <1>9. lastIndex' \in Nat BY <1>4, <1>5 DEF ApplyPhysicalInterface
  <1> HIDE DEF fresh, index, mark
  <1>10. wanted \in Links BY <1>5, <1>6, <1>7, <1>8 DEF Links
  <1>11. link' \in Links /\ routes' \in SUBSET Route /\ LinkInv'
    BY <1>10, <1>5, LinkKept
  <1>12. op' \in [Slot -> Operation] BY DEF SaveInterface, Typed, Operation
  <1>13. UNCHANGED <<cidrs, rules, router, writer, clean>> BY DEF SaveInterface
  <1>14. row' \in Rows BY DEF Rows
  <1>15. Typed' BY <1>3, <1>9, <1>11, <1>12, <1>13, <1>14 DEF Typed
  <1> QED BY <1>11, <1>13, <1>15 DEF RulesInv

LEMMA DeleteBase == ASSUME BaseInv, NEW s \in Slot, DeleteInterface(s) PROVE BaseInv'
  <1> USE DEF BaseInv
  <1>1. op[s] \in Operation /\ op[s].kind = "delete" BY DEF DeleteInterface, Typed
  <1>2. op[s].row \in Wanted BY <1>1 DEF Operation, Idle
  <1>3. row' = [row EXCEPT !.present = FALSE, !.enabled = FALSE] BY DEF DeleteInterface
  <1>4. row' \in Rows /\ row'.enabled = FALSE
    <2>1. CASE row \in Wanted
      <3>1. row \in [present : {TRUE}, enabled : BOOLEAN, save : BOOLEAN,
                     table : DOMAIN TableNumber, mark : Nat]
        BY <2>1, FollowersAssumption
      <3> QED BY <2>1, <3>1, <1>3 DEF Rows
    <2>2. CASE row = NoRow
      <3>1. row' = NoRow BY <2>2, <1>3 DEF NoRow
      <3> QED BY <3>1 DEF Rows, NoRow
    <2>3. CASE \E w \in Wanted : row = [w EXCEPT !.present = FALSE, !.enabled = FALSE]
      <3> PICK w \in Wanted : row = [w EXCEPT !.present = FALSE, !.enabled = FALSE] BY <2>3
      <3>1. w \in [present : {TRUE}, enabled : BOOLEAN, save : BOOLEAN,
                   table : DOMAIN TableNumber, mark : Nat]
        BY FollowersAssumption
      <3>2. row' = row BY <3>1, <1>3
      <3> QED BY <3>1, <3>2 DEF Rows
    <2> QED BY <2>1, <2>2, <2>3 DEF Typed, Rows
  <1>5. Queued'
    <2>1. \A e \in {<<"deleted", op[s].row>>} : e[1] \in Topic /\ e[2] \in Payload(e[1])
      BY <1>2 DEF Topic, Payload
    <2> QED BY <2>1, PublishedEvents DEF DeleteInterface, Typed
  <1>6. NoLink \in Links /\ NoLink.up = FALSE /\ NoLink.present = FALSE BY DEF NoLink, Links
  <1>7. link' \in Links /\ routes' \in SUBSET Route /\ LinkInv'
    BY <1>4, <1>6, LinkKept DEF DeleteInterface
  <1>8. op' \in [Slot -> Operation] BY DEF DeleteInterface, Typed, Operation
  <1>9. UNCHANGED <<lastIndex, rules, router, writer, clean>> BY DEF DeleteInterface
  <1>10. cidrs' \in SUBSET Cidr BY DEF DeleteInterface, Typed
  <1>11. Typed' BY <1>4, <1>5, <1>7, <1>8, <1>9, <1>10 DEF Typed
  <1> QED BY <1>7, <1>9, <1>11 DEF RulesInv

\* What a change of peers publishes.
LEMMA ChangePublishes ==
    ASSUME Queued, NEW i \in Wanted, NEW ips \in SUBSET Cidr,
           queue' = Published({<<"route:update", Info(i, ips)>>, <<"peers", i>>})
    PROVE  /\ Queued'
           /\ queue'["route:update"] = Append(queue["route:update"], Info(i, ips))
           /\ queue'["peers"] = Append(queue["peers"], i)
           /\ \A t \in Topic \ {"route:update", "peers"} : queue'[t] = queue[t]
  <1> DEFINE es == {<<"route:update", Info(i, ips)>>, <<"peers", i>>}
  <1>1. Info(i, ips) \in Infos BY DEF Infos
  <1>2. \A e \in es : e[1] \in Topic /\ e[2] \in Payload(e[1]) BY <1>1 DEF Topic, Payload
  <1>3. \A e, d \in es : e[1] = d[1] => e[2] = d[2] OBVIOUS
  <1>4. <<"route:update", Info(i, ips)>> \in es /\ <<"peers", i>> \in es OBVIOUS
  <1>5. \A t \in Topic \ {"route:update", "peers"} : \A e \in es : e[1] # t OBVIOUS
  <1>6. queue' = Published(es) OBVIOUS
  <1> HIDE DEF es
  <1>7. /\ Queued'
        /\ \A t \in Topic : (\A e \in es : e[1] # t) => queue'[t] = queue[t]
        /\ \A e \in es : queue'[e[1]] = Append(queue[e[1]], e[2])
    BY <1>2, <1>3, <1>6, PublishedEvents
  <1> QED BY <1>4, <1>5, <1>7

LEMMA ChangePeersBase == ASSUME BaseInv, NEW s \in Slot, ChangePeers(s) PROVE BaseInv'
  <1> USE DEF BaseInv
  <1>1. op[s] \in Operation /\ op[s].kind = "peers" BY DEF ChangePeers, Typed
  <1>2. op[s].row \in Wanted BY <1>1 DEF Operation, Idle
  <1>3. cidrs' \in SUBSET Cidr BY DEF ChangePeers
  <1>4. Queued' BY <1>2, <1>3, ChangePublishes DEF ChangePeers, Typed
  <1>5. op' \in [Slot -> Operation] BY DEF ChangePeers, Typed, Operation
  <1>6. UNCHANGED <<row, link, lastIndex, routes, rules, router, writer, clean>>
    BY DEF ChangePeers, kernel
  <1>7. Typed' BY <1>3, <1>4, <1>5, <1>6 DEF Typed
  <1> QED BY <1>6, <1>7 DEF LinkInv, RulesInv

LEMMA FewerRules ==
    ASSUME RulesInv, rules' = [f \in Family |-> rules'[f]],
           \A f \in Family : rules'[f] \subseteq rules[f]
    PROVE  RulesInv'
  <1>1. \A f \in Family : IsFiniteSet(rules'[f]) BY FS_Subset DEF RulesInv
  <1> QED BY <1>1 DEF RulesInv

\* The rules that SetRoutes adds keep at most one rule that suppresses the default
\* route of the main table.
LEMMA AddedRules ==
    ASSUME RulesInv, NEW f \in Family,
           NEW base \in {rules[f], rules[f] \union OwnRule(rules[f])},
           NEW rs \in SUBSET (rules[f] \union OwnRule(rules[f]) \union MainRule(base, f))
    PROVE  /\ IsFiniteSet(rs)
           /\ \A r, q \in rs : IsMainRule(r) /\ IsMainRule(q) => r = q
  <1> DEFINE own == Rule(RulePriority(rules[f]), router.mark, router.table, FALSE)
             main == Rule(MainRulePriority(base), 0, Main, TRUE)
  <1>1. ~ IsMainRule(own) BY DEF IsMainRule, Rule
  <1>2. OwnRule(rules[f]) \subseteq {own} BY DEF OwnRule
  <1>3. /\ MainRule(base, f) \subseteq {main}
        /\ (\E r \in rules[f] : IsMainRule(r)) => MainRule(base, f) = {}
    BY DEF MainRule
  <1> HIDE DEF own, main
  <1>4. IsFiniteSet(rs)
    <2>1. IsFiniteSet({own}) /\ IsFiniteSet({main}) BY FS_Singleton
    <2>2. IsFiniteSet(rules[f]) BY DEF RulesInv
    <2>3. IsFiniteSet((rules[f] \union {own}) \union {main}) BY <2>1, <2>2, FS_Union
    <2>4. rs \subseteq (rules[f] \union {own}) \union {main} BY <1>2, <1>3
    <2> QED BY <2>3, <2>4, FS_Subset
  <1>5. \A r, q \in rules[f] : IsMainRule(r) /\ IsMainRule(q) => r = q BY DEF RulesInv
  <1>6. ASSUME NEW r \in rs, NEW q \in rs, IsMainRule(r), IsMainRule(q) PROVE r = q
    <2>1. r # own /\ q # own BY <1>1, <1>6
    <2>2. r \in rules[f] \union MainRule(base, f) /\ q \in rules[f] \union MainRule(base, f)
      BY <1>2, <2>1
    <2>3. CASE \E z \in rules[f] : IsMainRule(z) BY <2>2, <2>3, <1>3, <1>5, <1>6
    <2>4. CASE \A z \in rules[f] : ~ IsMainRule(z) BY <2>2, <2>4, <1>3, <1>6
    <2> QED BY <2>3, <2>4
  <1> QED BY <1>4, <1>6

\* With one main rule there is nothing to clean up.
LEMMA NothingToClean ==
    ASSUME NEW rs, \A r, q \in rs : IsMainRule(r) /\ IsMainRule(q) => r = q
    PROVE  CleanMainRules(rs) = rs
  <1> DEFINE mains == {r.prio : r \in {q \in rs : IsMainRule(q)}}
  <1>1. ASSUME NEW r \in rs PROVE Cardinality({p \in mains : p <= r.prio}) <= 1
    <2> DEFINE below == {p \in mains : p <= r.prio}
    <2>1. \A x, y \in below : x = y OBVIOUS
    <2> SUFFICES Cardinality(below) <= 1 OBVIOUS
    <2> HIDE DEF below
    <2>2. CASE below = {} BY <2>2, FS_EmptySet
    <2>3. CASE below # {}
      <3> PICK x \in below : TRUE BY <2>3
      <3>1. below = {x} BY <2>1
      <3>2. Cardinality(below) = 1 BY <3>1, FS_Singleton
      <3> QED BY <3>2
    <2> QED BY <2>2, <2>3
  <1> QED BY <1>1 DEF CleanMainRules

LEMMA RuleUpdate ==
    ASSUME RulesInv, NEW f \in Family, NEW rs, rules' = [rules EXCEPT ![f] = rs],
           IsFiniteSet(rs), \A r, q \in rs : IsMainRule(r) /\ IsMainRule(q) => r = q
    PROVE  RulesInv' /\ rules'[f] = rs /\ \A g \in Family \ {f} : rules'[g] = rules[g]
  <1>1. /\ rules' = [g \in Family |-> rules'[g]]
        /\ rules'[f] = rs /\ \A g \in Family \ {f} : rules'[g] = rules[g]
    BY DEF RulesInv
  <1> QED BY <1>1 DEF RulesInv

LEMMA LeftOver ==
    ASSUME NEW todo \in Lefts, todo # <<>>
    PROVE  /\ Head(todo) \in Family /\ Tail(todo) \in Lefts
           /\ todo = <<"v4", "v6">> => Head(todo) = "v4" /\ Tail(todo) = <<"v6">>
           /\ todo = <<"v6">> => Head(todo) = "v6" /\ Tail(todo) = <<>>
           /\ <<"v6">> # <<"v4", "v6">> /\ <<>> # <<"v6">> /\ <<>> # <<"v4", "v6">>
  <1>1. Head(<<"v4", "v6">>) = "v4" /\ Head(<<"v6">>) = "v6" OBVIOUS
  <1>2. Tail(<<"v4", "v6">>) = <<"v6">> OBVIOUS
  <1>3. Tail(<<"v6">>) = <<>> OBVIOUS
  <1>4. <<"v6">> # <<"v4", "v6">> /\ <<>> # <<"v6">> OBVIOUS
  <1>5. <<>> # <<"v4", "v6">> OBVIOUS
  <1> QED BY <1>1, <1>2, <1>3, <1>4, <1>5 DEF Lefts, Family

\* What the route manager finds out about marks and tables.
LEMMA FoundMarks ==
    ASSUME BaseInv, NEW info \in Infos, link.present
    PROVE  /\ RealMark(info) \in Marks /\ SetTable(info) \in Int
           /\ RemoveMark(info) \in Marks /\ RemoveTable(info) \in Int
           /\ RemoveTable(info) = info.table \/ (info.table = 0 /\ RemoveTable(info) \in Marks)
  <1>1. info.row \in Wanted /\ info.mark = info.row.mark /\ info.table \in Int BY InfoFields
  <1>2. link.index \in Nat \ {0} /\ link.mark \in Marks \union {0}
    BY DEF BaseInv, Typed, LinkInv, Links
  <1>3. RealMark(info) \in Marks
    <2>1. CASE info.mark # 0 BY <1>1, <2>1 DEF RealMark, Marks
    <2>2. CASE info.mark = 0
      <3>1. RealMark(info) = RouteTableOffset + link.index BY <2>2 DEF RealMark
      <3>2. RouteTableOffset \in Nat BY FollowersAssumption
      <3>3. link.index \in Nat \ {0} BY <1>2
      <3>4. RealMark(info) \in Nat /\ RealMark(info) > RouteTableOffset BY <3>1, <3>2, <3>3
      <3> QED BY <3>4 DEF Marks
    <2> QED BY <2>1, <2>2
  <1>4. RemoveMark(info) \in Marks BY <1>2, <1>3 DEF RemoveMark
  <1>5. RemoveTable(info) = info.table \/ (info.table = 0 /\ RemoveTable(info) \in Marks)
    BY <1>2, <1>4 DEF RemoveTable
  <1>6. Marks \subseteq Int BY MarksAreNumbers
  <1> QED BY <1>1, <1>3, <1>4, <1>5, <1>6 DEF SetTable

LEMMA UpdateHandlerBase == ASSUME BaseInv, HandleRouteUpdateEvent PROVE BaseInv'
  <1> DEFINE info == Head(queue["route:update"])
  <1>1. "route:update" \in Topic /\ Payload("route:update") = Infos BY DEF Topic, Payload
  <1>2. Queued' /\ info \in Infos
    BY <1>1, TakenEvents DEF HandleRouteUpdateEvent, BaseInv, Typed
  <1> HIDE DEF info
  <1>3. CASE ManagementEnabled(info) /\ link.present /\ link.known
    <2>1. /\ router' = [kind |-> "set", left |-> <<"v4", "v6">>, cidrs |-> info.cidrs,
                        index |-> link.index, mark |-> RealMark(info), table |-> SetTable(info)]
          /\ link' = [link EXCEPT !.mark = RealMark(info)]
      BY <1>3 DEF HandleRouteUpdateEvent, info
    <2>2. RealMark(info) \in Marks /\ SetTable(info) \in Int BY <1>2, <1>3, FoundMarks
    <2>3. link \in Links BY DEF BaseInv, Typed
    <2>4. /\ link' \in Links /\ link'.up = link.up /\ link'.present = link.present
          /\ link'.index = link.index
      BY <2>1, <2>2, <2>3 DEF Links
    <2>5. router' \in SetRouter
      BY <2>1, <2>2, <2>3, <1>2, InfoFields DEF SetRouter, Lefts, Links
    <2>6. UNCHANGED <<row, cidrs, lastIndex, routes, rules, op, writer, clean>>
      BY DEF HandleRouteUpdateEvent, kernel
    <2>7. Typed' BY <2>4, <2>5, <2>6, <1>2 DEF BaseInv, Typed
    <2> QED BY <2>4, <2>6, <2>7 DEF BaseInv, LinkInv, RulesInv
  <1>4. CASE ~ (ManagementEnabled(info) /\ link.present /\ link.known)
    <2>1. UNCHANGED <<router, link, row, cidrs, lastIndex, routes, rules, op, writer, clean>>
      BY <1>4 DEF HandleRouteUpdateEvent, kernel, info
    <2> QED BY <2>1, <1>2 DEF BaseInv, Typed, LinkInv, RulesInv
  <1> QED BY <1>3, <1>4

LEMMA RemoveHandlerBase == ASSUME BaseInv, HandleRouteRemoveEvent PROVE BaseInv'
  <1> DEFINE info == Head(queue["route:remove"])
  <1>1. "route:remove" \in Topic /\ Payload("route:remove") = Infos BY DEF Topic, Payload
  <1>2. Queued' /\ info \in Infos
    BY <1>1, TakenEvents DEF HandleRouteRemoveEvent, BaseInv, Typed
  <1> HIDE DEF info
  <1>3. UNCHANGED <<row, cidrs, link, lastIndex, routes, rules, op, writer, clean>>
    BY DEF HandleRouteRemoveEvent, kernel, world
  <1>4. router' \in {Idle} \union SetRouter \union RemoveRouter
    <2>1. CASE ManagementEnabled(info) /\ link.present
      <3>1. router' = [kind |-> "remove", left |-> <<"v4", "v6">>, cidrs |-> info.cidrs,
                       index |-> link.index, mark |-> RemoveMark(info),
                       table |-> RemoveTable(info),
                       named |-> info.table # 0 \/ link.mark # 0]
        BY <2>1 DEF HandleRouteRemoveEvent, info
      <3>2. RemoveMark(info) \in Marks /\ RemoveTable(info) \in Int BY <1>2, <2>1, FoundMarks
      <3>3. link.index \in Nat BY DEF BaseInv, Typed, Links
      <3>4. router' \in RemoveRouter
        BY <3>1, <3>2, <3>3, <1>2, InfoFields DEF RemoveRouter, Lefts
      <3> QED BY <3>4
    <2>2. CASE ~ (ManagementEnabled(info) /\ link.present)
      <3>1. router' = router BY <2>2 DEF HandleRouteRemoveEvent, info
      <3> QED BY <3>1 DEF BaseInv, Typed
    <2> QED BY <2>1, <2>2
  <1> QED BY <1>2, <1>3, <1>4 DEF BaseInv, Typed, LinkInv, RulesInv

\* Steps of the route manager on the kernel's routes and rules.
LEMMA KernelBase ==
    ASSUME BaseInv, UNCHANGED <<world, queue, op, writer>>, clean' \in BOOLEAN,
           router' \in {Idle} \union SetRouter \union RemoveRouter,
           routes' \in SUBSET Route, ~ link.up => routes' = {}, RulesInv'
    PROVE  BaseInv'
  <1>1. UNCHANGED <<row, cidrs, link, lastIndex, queue, op, writer>> BY DEF world
  <1>2. Typed' BY <1>1 DEF BaseInv, Typed, Queued
  <1>3. LinkInv' BY <1>1 DEF BaseInv, LinkInv
  <1> QED BY <1>2, <1>3 DEF BaseInv

LEMMA RouterKinds ==
    ASSUME BaseInv
    PROVE  /\ router.kind = "set" => router \in SetRouter
           /\ router.kind = "remove" => router \in RemoveRouter
           /\ router # Idle => router.kind \in {"set", "remove"}
           /\ router.kind \in {"idle", "set", "remove"}
  BY DEF BaseInv, Typed, SetRouter, RemoveRouter, Idle

LEMMA NextFamilyType ==
    ASSUME BaseInv, router # Idle, router.left # <<>>, NEW done \in BOOLEAN, NextFamily(done)
    PROVE  /\ router' \in {Idle} \union SetRouter \union RemoveRouter
           /\ Head(router.left) \in Family /\ router.left \in Lefts
           /\ ~ done => router' = [router EXCEPT !.left = Tail(router.left)]
  <1>1. router \in SetRouter \union RemoveRouter BY DEF BaseInv, Typed
  <1>2. router.left \in Lefts BY <1>1 DEF SetRouter, RemoveRouter
  <1>3. Tail(router.left) \in Lefts /\ Head(router.left) \in Family BY <1>2, LeftOver
  <1>4. [router EXCEPT !.left = Tail(router.left)] \in SetRouter \union RemoveRouter
    BY <1>1, <1>3 DEF SetRouter, RemoveRouter
  <1> QED BY <1>2, <1>3, <1>4 DEF NextFamily

LEMMA WantedRoutesType ==
    ASSUME BaseInv, router.kind = "set", NEW f \in Family
    PROVE  /\ WantedRoutes(f) \subseteq Route
           /\ router.cidrs \in SUBSET Cidr
  <1>1. router \in SetRouter BY RouterKinds
  <1>2. router.cidrs \in SUBSET Cidr /\ router.table \in Int BY <1>1 DEF SetRouter
  <1> QED BY <1>2 DEF WantedRoutes, CidrsOf, Route

\* What SetRoutes does with the rules of a family.
LEMMA SetRules ==
    ASSUME BaseInv, NEW f \in Family, NEW rs,
           rs \in {rules[f] \union OwnRule(rules[f]),
                   rules[f] \union OwnRule(rules[f])
                       \union MainRule(rules[f] \union OwnRule(rules[f]), f),
                   rules[f] \union OwnRule(rules[f]) \union MainRule(rules[f], f)},
           rules' = [rules EXCEPT ![f] = CleanMainRules(rs)]
    PROVE  RulesInv' /\ rules'[f] = rs /\ \A g \in Family \ {f} : rules'[g] = rules[g]
  <1>1. PICK base \in {rules[f], rules[f] \union OwnRule(rules[f])} :
           rs \subseteq rules[f] \union OwnRule(rules[f]) \union MainRule(base, f)
    OBVIOUS
  <1>2. IsFiniteSet(rs) /\ \A r, q \in rs : IsMainRule(r) /\ IsMainRule(q) => r = q
    BY <1>1, AddedRules DEF BaseInv
  <1>3. CleanMainRules(rs) = rs BY <1>2, NothingToClean
  <1> QED BY <1>2, <1>3, RuleUpdate DEF BaseInv

LEMMA SetRoutesBase == ASSUME BaseInv, SetRoutesForFamily PROVE BaseInv'
  <1> DEFINE f == Head(router.left)
             added == rules[f] \union OwnRule(rules[f])
             main == MainRule(rules[f], f)
  <1>1. router.kind = "set" /\ router.left # <<>> /\ UNCHANGED <<world, queue, op, writer>>
    BY DEF SetRoutesForFamily
  <1>2. router # Idle BY <1>1 DEF Idle
  <1>3. router \in SetRouter /\ router.left \in Lefts BY <1>1, RouterKinds DEF SetRouter
  <1>4. f \in Family BY <1>1, <1>3, LeftOver
  <1>5. CASE WantedRoutes(f) # {} /\ ~ Routable
    <2>1. NextFamily(TRUE) /\ UNCHANGED <<routes, rules, clean>>
      BY <1>5 DEF SetRoutesForFamily, kernel
    <2>2. router' \in {Idle} \union SetRouter \union RemoveRouter BY <2>1, <1>1, <1>2, NextFamilyType
    <2> QED BY <2>1, <2>2, <1>1, KernelBase DEF BaseInv, Typed, LinkInv, RulesInv
  <1>6. CASE ~ (WantedRoutes(f) # {} /\ ~ Routable)
    <2>1. /\ routes' = (routes \union WantedRoutes(f)) \ StaleRoutes(f)
          /\ NextFamily(FALSE)
          /\ \/ /\ rules' = [rules EXCEPT ![f] = CleanMainRules(added \union main)]
                /\ UNCHANGED <<clean, faults>>
             \/ /\ rules' = [rules EXCEPT ![f] = CleanMainRules(added)]
                /\ clean' = FALSE
      BY <1>6 DEF SetRoutesForFamily
    <2>2. router' \in {Idle} \union SetRouter \union RemoveRouter BY <2>1, <1>1, <1>2, NextFamilyType
    <2>3. routes' \in SUBSET Route
      BY <2>1, <1>1, <1>4, WantedRoutesType DEF BaseInv, Typed
    <2>4. ~ link.up => routes' = {} BY <2>1, <1>6 DEF BaseInv, LinkInv, Routable
    <2>5. RulesInv' BY <2>1, <1>4, SetRules
    <2>6. clean' \in BOOLEAN BY <2>1 DEF BaseInv, Typed
    <2> QED BY <1>1, <2>2, <2>3, <2>4, <2>5, <2>6, KernelBase
  <1> QED BY <1>5, <1>6

LEMMA RestoreRouteBase == ASSUME BaseInv, RestoreConnectedRoute PROVE BaseInv'
  <1>1. [cidr |-> Connected, table |-> Main] \in Route BY DEF Route, Main
  <1>2. routes' \in SUBSET Route BY <1>1 DEF RestoreConnectedRoute, BaseInv, Typed
  <1>3. ~ link.up => routes' = {} BY DEF RestoreConnectedRoute, BaseInv, LinkInv
  <1> QED BY <1>2, <1>3, KernelBase DEF RestoreConnectedRoute, BaseInv, Typed, RulesInv

LEMMA RemoveRoutesBase == ASSUME BaseInv, RemoveRoutesForFamily PROVE BaseInv'
  <1> DEFINE f == Head(router.left)
             rs == {r \in rules[f] : r.mark # router.mark \/ r.table # router.table}
  <1>1. router.kind = "remove" /\ router.left # <<>> /\ NextFamily(FALSE)
    BY DEF RemoveRoutesForFamily
  <1>2. router # Idle BY <1>1 DEF Idle
  <1>3. /\ router' \in {Idle} \union SetRouter \union RemoveRouter /\ f \in Family
    BY <1>1, <1>2, NextFamilyType
  <1>4. rules' = [rules EXCEPT ![f] = rs] BY DEF RemoveRoutesForFamily
  <1>5. RulesInv'
    <2>1. IsFiniteSet(rs) BY <1>3, FS_Subset DEF BaseInv, RulesInv
    <2>2. \A r, q \in rs : IsMainRule(r) /\ IsMainRule(q) => r = q
      BY <1>3 DEF BaseInv, RulesInv
    <2> HIDE DEF rs, f
    <2> QED BY <1>3, <1>4, <2>1, <2>2, RuleUpdate DEF BaseInv
  <1>6. routes' \in SUBSET Route /\ (~ link.up => routes' = {})
    BY DEF RemoveRoutesForFamily, BaseInv, Typed, LinkInv
  <1> QED BY <1>3, <1>5, <1>6, KernelBase DEF RemoveRoutesForFamily, BaseInv, Typed

LEMMA RemoveTableBase == ASSUME BaseInv, RemoveRouteRulesForTable PROVE BaseInv'
  <1>1. RulesInv'
    <2>1. rules' = [f \in Family |-> rules'[f]]
      BY DEF RemoveRouteRulesForTable, BaseInv, RulesInv
    <2>2. \A f \in Family : rules'[f] \subseteq rules[f] BY DEF RemoveRouteRulesForTable
    <2> QED BY <2>1, <2>2, FewerRules DEF BaseInv
  <1> QED BY <1>1, KernelBase DEF RemoveRouteRulesForTable, BaseInv, Typed, LinkInv

LEMMA RoutingFailsBase == ASSUME BaseInv, RoutingFails PROVE BaseInv'
  <1> DEFINE f == Head(router.left)
  <1>1. UNCHANGED <<world, queue, op, writer>> /\ clean' = FALSE /\ router' = Idle /\ router # Idle
    BY DEF RoutingFails
  <1>2. router.kind \in {"set", "remove"} BY <1>1, RouterKinds
  <1>3. router.left # <<>> => f \in Family
    <2>1. router \in SetRouter \union RemoveRouter BY <1>1 DEF BaseInv, Typed
    <2>2. router.left \in Lefts BY <2>1 DEF SetRouter, RemoveRouter
    <2> QED BY <2>2, LeftOver
  <1>4. CASE UNCHANGED kernel
    BY <1>1, <1>4, KernelBase DEF kernel, BaseInv, Typed, LinkInv, RulesInv
  <1>5. CASE router.left # <<>> /\ router.kind = "set" /\ SetRoutesFails(f)
    <2>1. f \in Family BY <1>3, <1>5
    <2> DEFINE set == IF Routable THEN WantedRoutes(f) ELSE {}
               add == OwnRule(rules[f]) \union MainRule(rules[f], f)
    <2>2. PICK done \in SUBSET set, gone \in SUBSET StaleRoutes(f), new \in SUBSET add :
             /\ routes' = (routes \union done) \ gone
             /\ rules' = [rules EXCEPT ![f] = rules[f] \union new]
      BY <1>5 DEF SetRoutesFails
    <2>3. routes' \in SUBSET Route
      BY <2>1, <2>2, <1>5, WantedRoutesType DEF BaseInv, Typed
    <2>4. ~ link.up => routes' = {} BY <2>2 DEF BaseInv, LinkInv, Routable
    <2>5. IsFiniteSet(rules[f] \union new)
          /\ \A r, q \in rules[f] \union new : IsMainRule(r) /\ IsMainRule(q) => r = q
      BY <2>1, AddedRules DEF BaseInv
    <2>6. RulesInv' BY <2>1, <2>2, <2>5, RuleUpdate DEF BaseInv
    <2> QED BY <1>1, <2>3, <2>4, <2>6, KernelBase
  <1>6. CASE router.left # <<>> /\ router.kind = "remove" /\ RemoveRoutesFails(f)
    <2>1. f \in Family BY <1>3, <1>6
    <2>2. PICK some : rules' = [rules EXCEPT ![f] = rules[f] \ some] /\ routes' \subseteq routes
      BY <1>6 DEF RemoveRoutesFails
    <2>3. IsFiniteSet(rules[f] \ some) BY <2>1, FS_Subset DEF BaseInv, RulesInv
    <2>4. \A r, q \in rules[f] \ some : IsMainRule(r) /\ IsMainRule(q) => r = q
      BY <2>1 DEF BaseInv, RulesInv
    <2>5. RulesInv' BY <2>1, <2>2, <2>3, <2>4, RuleUpdate DEF BaseInv
    <2>6. routes' \in SUBSET Route /\ (~ link.up => routes' = {})
      BY <2>2 DEF BaseInv, Typed, LinkInv
    <2> QED BY <1>1, <2>5, <2>6, KernelBase
  <1> QED BY <1>4, <1>5, <1>6 DEF RoutingFails

LEMMA ForeignRuleBase == ASSUME BaseInv, MaxMainRules <= 1, ForeignMainRule PROVE BaseInv'
  <1> PICK f \in Family :
        /\ Cardinality({r \in rules[f] : IsMainRule(r)}) < MaxMainRules
        /\ rules' = [rules EXCEPT ![f] = rules[f] \union {Rule(1, 0, Main, TRUE)}]
    BY DEF ForeignMainRule
  <1> DEFINE mains == {r \in rules[f] : IsMainRule(r)}
             new == Rule(1, 0, Main, TRUE)
             rs == rules[f] \union {new}
  <1>1. IsFiniteSet(rules[f]) BY DEF BaseInv, RulesInv
  <1>2. IsFiniteSet(mains) BY <1>1, FS_Subset
  <1>3. mains = {}
    <2>1. MaxMainRules \in Nat BY FollowersAssumption
    <2>2. Cardinality(mains) \in Nat BY <1>2, FS_CardinalityType
    <2>3. Cardinality(mains) = 0 BY <2>1, <2>2
    <2> HIDE DEF mains
    <2> QED BY <1>2, <2>3, FS_EmptySet
  <1>4. IsFiniteSet(rs) BY <1>1, FS_Singleton, FS_Union
  <1>5. \A r, q \in rs : IsMainRule(r) /\ IsMainRule(q) => r = q BY <1>3
  <1>6. RulesInv' BY <1>4, <1>5, RuleUpdate DEF BaseInv
  <1>7. UNCHANGED <<row, cidrs, link, lastIndex, routes, queue, op, router, writer, clean>>
    BY DEF ForeignMainRule, world
  <1> QED BY <1>6, <1>7 DEF BaseInv, Typed, Queued, LinkInv

LEMMA FilesBase ==
    ASSUME BaseInv, UNCHANGED <<world, kernel, op, router>>, Queued',
           writer' \in [Writer -> {Idle} \union Writing], clean' \in BOOLEAN
    PROVE  BaseInv'
  <1>1. UNCHANGED <<row, cidrs, link, lastIndex, routes, rules, op, router>>
    BY DEF world, kernel
  <1>2. Typed' BY <1>1 DEF BaseInv, Typed
  <1> QED BY <1>1, <1>2 DEF BaseInv, LinkInv, RulesInv

LEMMA ReadType ==
    ASSUME BaseInv, NEW w \in Writer, ReadConfig(w)
    PROVE  writer' \in [Writer -> {Idle} \union Writing]
  <1>1. Contents \in Writing BY DEF Contents, Writing, BaseInv, Typed
  <1> QED BY <1>1 DEF ReadConfig, BaseInv, Typed

LEMMA ConfigFilesBase == ASSUME BaseInv, ConfigFiles PROVE BaseInv'
  <1>1. ASSUME NEW t \in {"created", "updated"}, HandleInterfaceSavedEvent(t) PROVE BaseInv'
    <2>1. t \in Topic /\ t \in Writer BY DEF Topic, Writer
    <2>2. Queued' BY <1>1, <2>1, TakenEvents DEF HandleInterfaceSavedEvent, BaseInv, Typed
    <2>3. writer' \in [Writer -> {Idle} \union Writing]
      BY <1>1, <2>1, ReadType DEF HandleInterfaceSavedEvent, BaseInv, Typed
    <2> QED BY <1>1, <2>2, <2>3, FilesBase DEF HandleInterfaceSavedEvent, BaseInv, Typed
  <1>2. ASSUME HandlePeerInterfaceUpdatedEvent PROVE BaseInv'
    <2>1. "peers" \in Topic /\ "peers" \in Writer BY DEF Topic, Writer
    <2>2. Queued' BY <1>2, <2>1, TakenEvents DEF HandlePeerInterfaceUpdatedEvent, BaseInv, Typed
    <2>3. writer' \in [Writer -> {Idle} \union Writing]
      BY <1>2, <2>1, ReadType DEF HandlePeerInterfaceUpdatedEvent, BaseInv, Typed
    <2> QED BY <1>2, <2>2, <2>3, FilesBase DEF HandlePeerInterfaceUpdatedEvent, BaseInv, Typed
  <1>3. ASSUME HandleInterfaceDeleteEvent PROVE BaseInv'
    <2>1. "deleted" \in Topic BY DEF Topic
    <2>2. Queued' BY <1>3, <2>1, TakenEvents DEF HandleInterfaceDeleteEvent, BaseInv, Typed
    <2>3. clean' \in BOOLEAN BY <1>3 DEF HandleInterfaceDeleteEvent, BaseInv, Typed
    <2> QED BY <1>3, <2>2, <2>3, FilesBase DEF HandleInterfaceDeleteEvent, BaseInv, Typed
  <1>4. ASSUME HandleSaveConfigPost PROVE BaseInv'
    <2>1. "api" \in Writer BY DEF Writer
    <2>2. writer' \in [Writer -> {Idle} \union Writing]
      BY <1>4, <2>1, ReadType DEF HandleSaveConfigPost
    <2>3. clean' \in BOOLEAN BY <1>4 DEF HandleSaveConfigPost, BaseInv, Typed
    <2>4. Queued' BY <1>4 DEF HandleSaveConfigPost, BaseInv, Typed, Queued
    <2> QED BY <1>4, <2>2, <2>3, <2>4, FilesBase DEF HandleSaveConfigPost
  <1>5. ASSUME NEW w \in Writer, WriteFile(w) PROVE BaseInv'
    <2>1. writer' \in [Writer -> {Idle} \union Writing] BY <1>5 DEF WriteFile, BaseInv, Typed
    <2>2. clean' \in BOOLEAN BY <1>5 DEF WriteFile, BaseInv, Typed
    <2>3. Queued' BY <1>5 DEF WriteFile, BaseInv, Typed, Queued
    <2> QED BY <1>5, <2>1, <2>2, <2>3, FilesBase DEF WriteFile
  <1> QED BY <1>1, <1>2, <1>3, <1>4, <1>5 DEF ConfigFiles

LEMMA StepBaseInv == ASSUME BaseInv, MaxMainRules <= 1, [Next]_vars PROVE BaseInv'
  <1>1. CASE Changes BY <1>1, BeginBase, SaveBase, DeleteBase, ChangePeersBase DEF Changes
  <1>2. CASE RouteManager
    BY <1>2, UpdateHandlerBase, RemoveHandlerBase, SetRoutesBase, RestoreRouteBase,
       RemoveRoutesBase, RemoveTableBase, RoutingFailsBase DEF RouteManager
  <1>3. CASE ConfigFiles BY <1>3, ConfigFilesBase
  <1>4. CASE ForeignMainRule BY <1>4, ForeignRuleBase
  <1>5. CASE UNCHANGED vars
    BY <1>5 DEF vars, world, kernel, BaseInv, Typed, Queued, LinkInv, RulesInv
  <1> QED BY <1>1, <1>2, <1>3, <1>4, <1>5 DEF Next

-----------------------------------------------------------------------------
(* A change that meets an idle portal. *)

LEMMA ChangeKept ==
    ASSUME ChangeInv, UNCHANGED <<row, cidrs, op>>,
           \A t \in Topic : queue[t] = <<>> => queue'[t] = <<>>,
           router # Idle \/ queue["route:remove"] # <<>> \/ queue["route:update"] # <<>>
              \/ router' = Idle,
           \A w \in Writer : \/ writer'[w] = Idle \/ writer[w] # Idle
                             \/ \E t \in Topic \ {"route:remove"} : queue[t] # <<>>
                             \/ Quiet
    PROVE  ChangeInv'
  <1> SUFFICES ASSUME NEW s \in Slot, op[s] # Idle
               PROVE  /\ op[s].row = row /\ op[s].cidrs = cidrs
                      /\ \A z \in Slot : op[z] # Idle => z = s
                      /\ \A t \in Topic : queue'[t] # <<>> => t = "route:remove" /\ op[s].kind = "delete"
                      /\ router' # Idle => op[s].kind = "delete"
                      /\ \A w \in Writer : writer'[w] = Idle
    BY DEF ChangeInv
  <1>1. /\ op[s].row = row /\ op[s].cidrs = cidrs
        /\ \A z \in Slot : op[z] # Idle => z = s
        /\ \A t \in Topic : queue[t] # <<>> => t = "route:remove" /\ op[s].kind = "delete"
        /\ router # Idle => op[s].kind = "delete"
        /\ \A w \in Writer : writer[w] = Idle
    BY DEF ChangeInv
  <1>2. ~ Quiet BY DEF Quiet
  <1>3. "route:update" \in Topic /\ "route:remove" \in Topic BY DEF Topic
  <1> QED BY <1>1, <1>2, <1>3

LEMMA FileKept ==
    ASSUME FileInv, UNCHANGED <<row, cidrs, file, op, writer>>,
           \A t \in {"created", "updated", "deleted", "peers"} : queue'[t] = queue[t]
    PROVE  FileInv'
  BY DEF FileInv, Changing, Contents

LEMMA RouteKept ==
    ASSUME RouteInv, UNCHANGED <<row, cidrs, link, routes, rules, op, router>>,
           \A t \in {"route:update", "route:remove"} : queue'[t] = queue[t]
    PROVE  RouteInv'
  BY DEF RouteInv, Changing, Setting, Settled, Routed, FamilyDone, WantedTable, Managed

\* What a change finds that is to be followed.
LEMMA ChangeAlone ==
    ASSUME BaseInv, ChangeInv, NEW s \in Slot, op[s] # Idle, op' = [op EXCEPT ![s] = Idle]
    PROVE  /\ ~ Changing'
           /\ op[s].row = row /\ op[s].cidrs = cidrs
           /\ \A w \in Writer : writer[w] = Idle
           /\ \A t \in Topic \ {"route:remove"} : queue[t] = <<>>
           /\ op[s].kind # "delete" => queue["route:remove"] = <<>>
  <1>1. \A z \in Slot \ {s} : op[z] = Idle BY DEF ChangeInv
  <1>2. \A z \in Slot : op'[z] = Idle BY <1>1 DEF BaseInv, Typed
  <1>3. "route:remove" \in Topic BY DEF Topic
  <1> QED BY <1>2, <1>3 DEF ChangeInv, Changing

LEMMA OneItem ==
    ASSUME NEW x
    PROVE  /\ Append(<<>>, x) # <<>>
           /\ \A i \in 1 .. Len(Append(<<>>, x)) : Append(<<>>, x)[i] = x
           /\ \A i : i \notin 1 .. Len(<<>>)
  OBVIOUS

LEMMA BeginFollow ==
    ASSUME BaseInv, NEW s \in Slot, Begin(s), clean'
    PROVE  ChangeInv' /\ FileInv' /\ RouteInv'
  <1> PICK kind \in {"save", "delete", "peers"} :
        /\ op' = [op EXCEPT ![s] = [kind |-> kind, at |-> "apply", row |-> row, cidrs |-> cidrs]]
        /\ IF kind = "delete" THEN queue' = Published({<<"route:remove", Info(row, cidrs)>>})
           ELSE UNCHANGED queue
    BY DEF Begin
  <1>1. Quiet /\ UNCHANGED <<row, cidrs, router, writer>> BY DEF Begin, world
  <1>2. op'[s] = [kind |-> kind, at |-> "apply", row |-> row, cidrs |-> cidrs]
    BY DEF BaseInv, Typed
  <1>3. op'[s].kind = kind /\ op'[s].row = row /\ op'[s].cidrs = cidrs /\ op'[s] # Idle
    BY <1>2 DEF Idle
  <1>4. \A z \in Slot : op'[z] # Idle => z = s BY <1>1 DEF Quiet, BaseInv, Typed
  <1>5. \A t \in Topic : queue'[t] # <<>> => t = "route:remove" /\ kind = "delete"
    BY <1>1 DEF Quiet, Published
  <1>6. ChangeInv' BY <1>1, <1>3, <1>4, <1>5 DEF ChangeInv, Quiet
  <1>7. FileInv' BY <1>1, <1>3 DEF FileInv, Changing, Quiet
  <1>8. RouteInv' BY <1>3 DEF RouteInv, Changing
  <1> QED BY <1>6, <1>7, <1>8

LEMMA SaveFollow ==
    ASSUME BaseInv, TablesApart, ChangeInv, NEW s \in Slot, SaveInterface(s)
    PROVE  ChangeInv' /\ FileInv' /\ RouteInv'
  <1> PICK new \in Wanted, switched \in BOOLEAN :
        /\ row' = new
        /\ queue' = Published(SaveEvents(op[s].row, new, op[s].cidrs, switched))
    BY DEF SaveInterface
  <1>1. /\ op[s].kind = "save" /\ op[s] # Idle /\ op' = [op EXCEPT ![s] = Idle]
        /\ UNCHANGED <<cidrs, router, writer>>
    BY DEF SaveInterface, Idle
  <1>2. /\ ~ Changing' /\ op[s].row = row /\ op[s].cidrs = cidrs
        /\ \A w \in Writer : writer[w] = Idle
        /\ \A t \in Topic \ {"route:remove"} : queue[t] = <<>>
        /\ queue["route:remove"] = <<>>
    BY <1>1, ChangeAlone
  <1>3. \A t \in Topic : queue[t] = <<>> BY <1>2
  <1>4. row \in Rows /\ cidrs \in SUBSET Cidr /\ Queued BY DEF BaseInv, Typed
  <1>5. Announced(row, new, cidrs)
    <2> PICK old \in Rows : old = row BY <1>4
    <2> PICK ips \in SUBSET Cidr : ips = cidrs BY <1>4
    <2>1. queue' = Published(SaveEvents(old, new, ips, switched)) BY <1>2
    <2>2. Announced(old, new, ips) BY <1>4, <2>1, SavePublishes
    <2> QED BY <2>2 DEF Announced
  <1>6. {"route:update", "route:remove", "created", "updated", "deleted"} \subseteq Topic
    BY DEF Topic
  <1>7. new.present = TRUE BY WantedFields
  <1>8. ChangeInv' BY <1>2 DEF ChangeInv, Changing
  <1>9. FileInv'
    <2>1. \A t \in {"created", "updated", "deleted"} : \A i \in 1 .. Len(queue'[t]) :
             queue'[t][i].save = row'.save
      BY <1>3, <1>5, <1>6, OneItem DEF Announced
    <2>2. queue'["created"] # <<>> \/ queue'["updated"] # <<>>
      BY <1>3, <1>5, <1>6, OneItem DEF Announced
    <2>3. queue'["deleted"] = <<>> BY <1>3, <1>5, <1>6 DEF Announced
    <2> QED BY <1>1, <1>2, <1>7, <2>1, <2>2, <2>3 DEF FileInv
  <1>10. RouteInv'
    <2> SUFFICES ASSUME Managed'
                 PROVE  /\ \A i \in 1 .. Len(queue'["route:update"]) :
                              queue'["route:update"][i] = Info(new, cidrs)
                        /\ \A i \in 1 .. Len(queue'["route:remove"]) :
                              queue'["route:remove"][i].table # GetRoutingTable(new)
                        /\ queue'["route:update"] # <<>>
      BY <1>1 DEF RouteInv, GetRoutingTable, Info
    <2>1. new.enabled /\ GetRoutingTable(new) # Off BY DEF Managed, GetRoutingTable
    <2>2. row.present => row \in Wanted BY <1>4, RowFields
    <2>3. row.present /\ row.table # new.table => GetRoutingTable(row) # GetRoutingTable(new)
      BY <2>1, <2>2 DEF TablesApart
    <2>4. Info(row, cidrs).table = GetRoutingTable(row) BY DEF Info
    <2>5. CASE queue'["route:remove"] = queue["route:remove"]
      BY <1>3, <1>5, <1>6, <2>1, <2>5, OneItem DEF Announced
    <2>6. CASE /\ queue'["route:remove"] = Append(queue["route:remove"], Info(row, cidrs))
               /\ row.present /\ row.table # new.table
      BY <1>3, <1>5, <1>6, <2>1, <2>3, <2>4, <2>6, OneItem DEF Announced
    <2> QED BY <1>5, <2>1, <2>5, <2>6 DEF Announced
  <1> QED BY <1>8, <1>9, <1>10

LEMMA DeleteFollow ==
    ASSUME BaseInv, ChangeInv, NEW s \in Slot, DeleteInterface(s)
    PROVE  ChangeInv' /\ FileInv' /\ RouteInv'
  <1>1. /\ op[s].kind = "delete" /\ op[s] # Idle /\ op' = [op EXCEPT ![s] = Idle]
        /\ row' = [row EXCEPT !.present = FALSE, !.enabled = FALSE]
        /\ queue' = Published({<<"deleted", op[s].row>>})
        /\ UNCHANGED <<router, writer>>
    BY DEF DeleteInterface, Idle
  <1>2. /\ ~ Changing' /\ op[s].row = row
        /\ \A w \in Writer : writer[w] = Idle
        /\ \A t \in Topic \ {"route:remove"} : queue[t] = <<>>
    BY <1>1, ChangeAlone
  <1>3. row \in Wanted
    <2>1. op[s] \in Operation BY DEF BaseInv, Typed
    <2> QED BY <1>1, <1>2, <2>1 DEF Operation
  <1>4. row'.present = FALSE /\ row'.enabled = FALSE /\ row'.save = row.save
    <2>1. row \in [present : {TRUE}, enabled : BOOLEAN, save : BOOLEAN,
                   table : DOMAIN TableNumber, mark : Nat]
      BY <1>3, FollowersAssumption
    <2> QED BY <1>1, <2>1
  <1>5. /\ queue'["deleted"] = Append(queue["deleted"], row)
        /\ \A t \in Topic \ {"deleted"} : queue'[t] = queue[t]
    <2> DEFINE es == {<<"deleted", row>>}
    <2>1. \A e \in es : e[1] \in Topic /\ e[2] \in Payload(e[1]) BY <1>3 DEF Topic, Payload
    <2>2. \A e, d \in es : e[1] = d[1] => e[2] = d[2] OBVIOUS
    <2>3. <<"deleted", row>> \in es /\ \A t \in Topic \ {"deleted"} : \A e \in es : e[1] # t
      OBVIOUS
    <2>4. queue' = Published(es) BY <1>1, <1>2
    <2> HIDE DEF es
    <2>5. /\ \A t \in Topic : (\A e \in es : e[1] # t) => queue'[t] = queue[t]
          /\ \A e \in es : queue'[e[1]] = Append(queue[e[1]], e[2])
      BY <2>1, <2>2, <2>4, PublishedEvents DEF BaseInv, Typed
    <2> QED BY <2>3, <2>5
  <1>6. {"created", "updated", "deleted"} \subseteq Topic BY DEF Topic
  <1>7. ChangeInv' BY <1>2 DEF ChangeInv, Changing
  <1>8. FileInv'
    <2>1. queue'["deleted"] # <<>>
          /\ \A i \in 1 .. Len(queue'["deleted"]) : queue'["deleted"][i] = row
      BY <1>2, <1>5, <1>6, OneItem
    <2>2. queue'["created"] = <<>> /\ queue'["updated"] = <<>> BY <1>2, <1>5, <1>6
    <2>3. \A t \in {"created", "updated", "deleted"} : \A i \in 1 .. Len(queue'[t]) :
             queue'[t][i].save = row'.save
      BY <1>4, <2>1, <2>2, OneItem
    <2> QED BY <1>1, <1>2, <1>4, <2>1, <2>3 DEF FileInv
  <1>9. RouteInv' BY <1>4 DEF RouteInv, Managed
  <1> QED BY <1>7, <1>8, <1>9

LEMMA ChangePeersFollow ==
    ASSUME BaseInv, ChangeInv, NEW s \in Slot, ChangePeers(s)
    PROVE  ChangeInv' /\ FileInv' /\ RouteInv'
  <1>1. /\ op[s].kind = "peers" /\ op[s] # Idle /\ op' = [op EXCEPT ![s] = Idle]
        /\ cidrs' \in SUBSET Cidr
        /\ queue' = Published({<<"route:update", Info(op[s].row, cidrs')>>, <<"peers", op[s].row>>})
        /\ UNCHANGED <<row, router, writer>>
    BY DEF ChangePeers, Idle
  <1>2. /\ ~ Changing' /\ op[s].row = row
        /\ \A w \in Writer : writer[w] = Idle
        /\ \A t \in Topic \ {"route:remove"} : queue[t] = <<>>
        /\ queue["route:remove"] = <<>>
    BY <1>1, ChangeAlone
  <1>3. row \in Wanted
    <2>1. op[s] \in Operation BY DEF BaseInv, Typed
    <2> QED BY <1>1, <1>2, <2>1 DEF Operation
  <1>4. /\ queue'["route:update"] = Append(queue["route:update"], Info(row, cidrs'))
        /\ queue'["peers"] = Append(queue["peers"], row)
        /\ \A t \in Topic \ {"route:update", "peers"} : queue'[t] = queue[t]
    BY <1>1, <1>2, <1>3, ChangePublishes DEF BaseInv, Typed
  <1>5. {"route:update", "route:remove", "created", "updated", "deleted", "peers"} \subseteq Topic
    BY DEF Topic
  <1>6. ChangeInv' BY <1>2 DEF ChangeInv, Changing
  <1>7. FileInv'
    <2>1. \A t \in {"created", "updated", "deleted"} : queue'[t] = <<>> BY <1>2, <1>4, <1>5
    <2>2. queue'["peers"] # <<>> BY <1>4, OneItem, <1>2, <1>5
    <2>3. row.present = TRUE BY <1>3, WantedFields
    <2>4. \A t \in {"created", "updated", "deleted"} : \A i \in 1 .. Len(queue'[t]) :
             queue'[t][i].save = row'.save
      BY <2>1, OneItem
    <2> QED BY <1>1, <1>2, <2>1, <2>2, <2>3, <2>4 DEF FileInv
  <1>8. RouteInv'
    <2>1. queue'["route:remove"] = <<>> BY <1>2, <1>4, <1>5
    <2>2. /\ queue'["route:update"] # <<>>
          /\ \A i \in 1 .. Len(queue'["route:update"]) :
                queue'["route:update"][i] = Info(row, cidrs')
      BY <1>2, <1>4, <1>5, OneItem
    <2>3. \A i : i \notin 1 .. Len(queue'["route:remove"]) BY <2>1, OneItem
    <2>4. Info(row, cidrs') = Info(row, cidrs)' BY <1>1 DEF Info, GetRoutingTable
    <2> QED BY <2>2, <2>3, <2>4 DEF RouteInv
  <1> QED BY <1>6, <1>7, <1>8

-----------------------------------------------------------------------------
(* The route manager after a change. *)

LEMMA UpdateHandlerFollow ==
    ASSUME BaseInv, ChangeInv, FileInv, RouteInv, HandleRouteUpdateEvent
    PROVE  ChangeInv' /\ FileInv' /\ RouteInv'
  <1> DEFINE info == Head(queue["route:update"])
  <1>1. /\ router = Idle /\ queue["route:update"] # <<>> /\ queue' = Taken("route:update")
        /\ UNCHANGED <<row, cidrs, file, op, writer, routes, rules>>
    BY DEF HandleRouteUpdateEvent, kernel
  <1>2. "route:update" \in Topic /\ Payload("route:update") = Infos BY DEF Topic, Payload
  <1>3. /\ info \in Infos /\ info = queue["route:update"][1]
        /\ 1 \in 1 .. Len(queue["route:update"])
        /\ \A u \in Topic \ {"route:update"} : queue'[u] = queue[u]
        /\ \A i \in 1 .. Len(queue'["route:update"]) :
              /\ i + 1 \in 1 .. Len(queue["route:update"])
              /\ queue'["route:update"][i] = queue["route:update"][i + 1]
    BY <1>1, <1>2, TakenEvents DEF BaseInv, Typed
  <1> HIDE DEF info
  <1>4. {"route:remove", "created", "updated", "deleted", "peers"} \subseteq Topic \ {"route:update"}
    BY DEF Topic
  <1>5. ChangeInv' BY <1>1, <1>3, <1>2, ChangeKept
  <1>6. FileInv' BY <1>1, <1>3, <1>4, FileKept
  <1>7. RouteInv'
    <2> SUFFICES ASSUME ~ Changing, Managed, link'.known
                 PROVE  /\ \A i \in 1 .. Len(queue'["route:update"]) :
                              queue'["route:update"][i] = Info(row, cidrs)
                        /\ \A i \in 1 .. Len(queue'["route:remove"]) :
                              queue'["route:remove"][i].table # GetRoutingTable(row)
                        /\ Setting'
      BY <1>1 DEF RouteInv, Changing, Managed, GetRoutingTable, Info
    <2>1. link \in Links BY DEF BaseInv, Typed
    <2>2. link'.known = link.known BY <2>1 DEF HandleRouteUpdateEvent, Links
    <2>3. /\ \A i \in 1 .. Len(queue["route:update"]) :
                queue["route:update"][i] = Info(row, cidrs)
          /\ \A i \in 1 .. Len(queue["route:remove"]) :
                queue["route:remove"][i].table # GetRoutingTable(row)
      BY <2>2 DEF RouteInv
    <2>4. info = Info(row, cidrs) BY <1>3, <2>3
    <2>5. info.table = GetRoutingTable(row) /\ info.cidrs = cidrs BY <2>4 DEF Info
    <2>6. ManagementEnabled(info) /\ link.present /\ link.known
      BY <2>2, <2>5 DEF ManagementEnabled, Managed, BaseInv, LinkInv
    <2>7. /\ router' = [kind |-> "set", left |-> <<"v4", "v6">>, cidrs |-> info.cidrs,
                        index |-> link.index, mark |-> RealMark(info), table |-> SetTable(info)]
          /\ link' = [link EXCEPT !.mark = RealMark(info)]
      BY <2>6 DEF HandleRouteUpdateEvent, info
    <2>8. link'.mark = RealMark(info) /\ link'.index = link.index BY <2>1, <2>7 DEF Links
    <2>9. SetTable(info) = WantedTable'
      BY <1>1, <2>5, <2>8 DEF SetTable, WantedTable, GetRoutingTable
    <2>10. <<"v4", "v6">> # <<>> OBVIOUS
    <2>11. Setting' BY <1>1, <2>5, <2>7, <2>8, <2>9, <2>10 DEF Setting
    <2> QED BY <1>3, <1>4, <2>3, <2>11
  <1> QED BY <1>5, <1>6, <1>7

LEMMA RemoveHandlerFollow ==
    ASSUME BaseInv, TablesApart, ChangeInv, FileInv, RouteInv, HandleRouteRemoveEvent
    PROVE  ChangeInv' /\ FileInv' /\ RouteInv'
  <1> DEFINE info == Head(queue["route:remove"])
  <1>1. /\ router = Idle /\ queue["route:remove"] # <<>> /\ queue' = Taken("route:remove")
        /\ UNCHANGED <<row, cidrs, link, file, op, writer, routes, rules>>
    BY DEF HandleRouteRemoveEvent, kernel, world
  <1>2. "route:remove" \in Topic /\ Payload("route:remove") = Infos BY DEF Topic, Payload
  <1>3. /\ info \in Infos /\ info = queue["route:remove"][1]
        /\ 1 \in 1 .. Len(queue["route:remove"])
        /\ \A u \in Topic \ {"route:remove"} : queue'[u] = queue[u]
        /\ \A i \in 1 .. Len(queue'["route:remove"]) :
              /\ i + 1 \in 1 .. Len(queue["route:remove"])
              /\ queue'["route:remove"][i] = queue["route:remove"][i + 1]
    BY <1>1, <1>2, TakenEvents DEF BaseInv, Typed
  <1> HIDE DEF info
  <1>4. {"route:update", "created", "updated", "deleted", "peers"} \subseteq Topic \ {"route:remove"}
    BY DEF Topic
  <1>5. ChangeInv' BY <1>1, <1>3, <1>2, ChangeKept
  <1>6. FileInv' BY <1>1, <1>3, <1>4, FileKept
  <1>7. RouteInv'
    <2> SUFFICES ASSUME ~ Changing, Managed, link.known
                 PROVE  /\ \A i \in 1 .. Len(queue'["route:update"]) :
                              queue'["route:update"][i] = Info(row, cidrs)
                        /\ \A i \in 1 .. Len(queue'["route:remove"]) :
                              queue'["route:remove"][i].table # GetRoutingTable(row)
                        /\ queue'["route:update"] # <<>> \/ Settled'
      BY <1>1 DEF RouteInv, Changing, Managed, GetRoutingTable, Info
    <2>1. /\ \A i \in 1 .. Len(queue["route:update"]) :
                queue["route:update"][i] = Info(row, cidrs)
          /\ \A i \in 1 .. Len(queue["route:remove"]) :
                queue["route:remove"][i].table # GetRoutingTable(row)
          /\ queue["route:update"] # <<>> \/ Setting \/ Settled
      BY DEF RouteInv
    <2>2. ~ Setting BY <1>1 DEF Setting, Idle
    <2>3. info.table # GetRoutingTable(row) BY <1>3, <2>1
    <2>4. ASSUME Settled PROVE Settled'
      <3>1. Routed' BY <1>1, <2>4 DEF Settled, Routed, WantedTable, GetRoutingTable
      <3>2. CASE ManagementEnabled(info) /\ link.present
        <4>1. router'.kind = "remove" /\ router'.table = RemoveTable(info)
          BY <3>2 DEF HandleRouteRemoveEvent, info
        <4>2. RemoveTable(info) = info.table \/ (info.table = 0 /\ RemoveTable(info) \in Marks)
          BY <1>3, <3>2, FoundMarks
        <4>3. row \in Wanted BY RowFields DEF Managed, BaseInv, Typed
        <4>4. info.row \in Wanted /\ info.table = GetRoutingTable(info.row) BY <1>3, InfoFields
        <4>5. link.mark \in Marks \union {0} BY DEF BaseInv, Typed, Links
        <4>6. Main \notin Marks /\ GetRoutingTable(row) \notin Marks
              /\ info.table \notin Marks \union {Main}
          BY <4>3, <4>4 DEF TablesApart
        <4>7. WantedTable = IF GetRoutingTable(row) # 0 THEN GetRoutingTable(row) ELSE link.mark
          BY DEF WantedTable
        <4>8. RemoveTable(info) \notin {WantedTable, Main}
          <5>1. CASE info.table # 0 BY <5>1, <4>2, <4>5, <4>6, <4>7, <2>3
          <5>2. CASE info.table = 0
            <6>1. WantedTable = GetRoutingTable(row) BY <5>2, <2>3, <4>7
            <6>2. RemoveTable(info) # Main BY <5>2, <4>2, <4>6 DEF Main
            <6> QED BY <5>2, <6>1, <6>2, <4>2, <4>6, <2>3
          <5> QED BY <5>1, <5>2
        <4>9. WantedTable' = WantedTable BY <1>1 DEF WantedTable, GetRoutingTable
        <4> QED BY <3>1, <4>1, <4>8, <4>9 DEF Settled
      <3>3. CASE ~ (ManagementEnabled(info) /\ link.present)
        <4>1. router' = router BY <3>3 DEF HandleRouteRemoveEvent, info
        <4> QED BY <1>1, <3>1, <4>1 DEF Settled, Idle
      <3> QED BY <3>2, <3>3
    <2> QED BY <1>3, <1>4, <2>1, <2>2, <2>4
  <1> QED BY <1>5, <1>6, <1>7

\* What the steps on the kernel's routes and rules leave alone.
LEMMA KernelFollow ==
    ASSUME ChangeInv, FileInv, router # Idle, UNCHANGED <<world, file, queue, op, writer>>
    PROVE  ChangeInv' /\ FileInv'
  <1>1. UNCHANGED <<row, cidrs, link, queue, file, op, writer>> BY DEF world
  <1>2. ChangeInv' BY <1>1, ChangeKept
  <1>3. FileInv' BY <1>1, FileKept
  <1> QED BY <1>2, <1>3

LEMMA KernelRouteInv ==
    ASSUME RouteInv, UNCHANGED <<world, queue, op>>,
           ~ Changing /\ Managed /\ link.known /\ queue["route:update"] = <<>> =>
              Setting' \/ Settled'
    PROVE  RouteInv'
  BY DEF RouteInv, world, Changing, Managed, GetRoutingTable, Info

LEMMA FamilyDoneKept ==
    ASSUME UNCHANGED world, NEW f \in Family, FamilyDone(f),
           \A r \in routes : r.cidr \in CidrsOf(cidrs, f) => r \in routes',
           \A r \in routes' : r.cidr \in CidrsOf(Cidr, f) => r \in routes,
           rules[f] \subseteq rules'[f]
    PROVE  FamilyDone(f)'
  <1>1. UNCHANGED <<row, cidrs, link>> /\ WantedTable' = WantedTable
    BY DEF world, WantedTable, GetRoutingTable
  <1>2. CidrsOf(cidrs, f)' = CidrsOf(cidrs, f) /\ CidrsOf(Cidr, f)' = CidrsOf(Cidr, f)
    BY <1>1 DEF CidrsOf, Cidr
  <1>3. \A c \in CidrsOf(cidrs, f) : [cidr |-> c, table |-> WantedTable] \in routes'
    BY DEF FamilyDone
  <1>4. \A r \in routes' : r.cidr \in CidrsOf(Cidr, f) => r.cidr \in cidrs BY DEF FamilyDone
  <1>5. /\ \E r \in rules'[f] : r.mark = link.mark /\ r.table = WantedTable
        /\ CidrsOf(cidrs, f) \intersect DefaultRoute # {} => \E r \in rules'[f] : IsMainRule(r)
    BY DEF FamilyDone
  <1> QED BY <1>1, <1>2, <1>3, <1>4, <1>5 DEF FamilyDone

\* One family of SetRoutes.
LEMMA FamilySet ==
    ASSUME BaseInv, SetRoutesForFamily, clean', Setting, link.up,
           NEW f \in Family, f = Head(router.left)
    PROVE  /\ router' = [router EXCEPT !.left = Tail(router.left)]
           /\ FamilyDone(f)'
           /\ \A g \in Family \ {f} : FamilyDone(g) => FamilyDone(g)'
  <1> DEFINE added == rules[f] \union OwnRule(rules[f])
             main == MainRule(rules[f], f)
  <1>1. UNCHANGED world /\ UNCHANGED <<row, cidrs, link>> BY DEF SetRoutesForFamily, world
  <1>2. Routable BY DEF Routable, Setting, BaseInv, LinkInv
  <1>3. /\ routes' = (routes \union WantedRoutes(f)) \ StaleRoutes(f)
        /\ NextFamily(FALSE)
        /\ rules' = [rules EXCEPT ![f] = CleanMainRules(added \union main)]
    BY <1>2 DEF SetRoutesForFamily
  <1>4. rules'[f] = added \union main /\ \A g \in Family \ {f} : rules'[g] = rules[g]
    BY <1>3, SetRules
  <1>5. /\ router.cidrs = cidrs /\ router.mark = link.mark /\ router.table = WantedTable
    BY DEF Setting
  <1>6. WantedTable' = WantedTable BY <1>1 DEF WantedTable, GetRoutingTable
  <1>7. \A g \in Family : CidrsOf(cidrs, g)' = CidrsOf(cidrs, g) /\ CidrsOf(Cidr, g)' = CidrsOf(Cidr, g)
    BY <1>1 DEF CidrsOf, Cidr
  <1>8. FamilyDone(f)'
    <2>1. ASSUME NEW c \in CidrsOf(cidrs, f)
          PROVE  [cidr |-> c, table |-> WantedTable] \in routes'
      <3>1. [cidr |-> c, table |-> WantedTable] \in WantedRoutes(f) BY <1>5 DEF WantedRoutes
      <3>2. c \in cidrs BY DEF CidrsOf
      <3>3. [cidr |-> c, table |-> WantedTable] \notin StaleRoutes(f)
        BY <1>5, <3>2 DEF StaleRoutes
      <3> QED BY <1>3, <3>1, <3>3
    <2>2. ASSUME NEW r \in routes', r.cidr \in CidrsOf(Cidr, f) PROVE r.cidr \in cidrs
      <3>1. CASE r \in WantedRoutes(f) BY <3>1, <1>5 DEF WantedRoutes, CidrsOf
      <3>2. CASE r \in routes
        <4>1. r \in FamilyRoutes(f) BY <2>2, <3>2 DEF FamilyRoutes, CidrsOf
        <4> QED BY <4>1, <1>3, <1>5 DEF StaleRoutes
      <3> QED BY <3>1, <3>2, <1>3
    <2>3. \E r \in rules'[f] : r.mark = link.mark /\ r.table = WantedTable
      <3>1. CASE \E r \in rules[f] : r.mark = router.mark /\ r.table = router.table
        BY <3>1, <1>4, <1>5
      <3>2. CASE ~ \E r \in rules[f] : r.mark = router.mark /\ r.table = router.table
        <4>1. Rule(RulePriority(rules[f]), router.mark, router.table, FALSE) \in rules'[f]
          BY <3>2, <1>4 DEF OwnRule
        <4> QED BY <4>1, <1>5 DEF Rule
      <3> QED BY <3>1, <3>2
    <2>4. CidrsOf(cidrs, f) \intersect DefaultRoute # {} => \E r \in rules'[f] : IsMainRule(r)
      <3>1. CASE \E r \in rules[f] : IsMainRule(r) BY <3>1, <1>4
      <3>2. CASE ~ \E r \in rules[f] : IsMainRule(r)
        <4> HAVE CidrsOf(cidrs, f) \intersect DefaultRoute # {}
        <4>1. Rule(MainRulePriority(rules[f]), 0, Main, TRUE) \in rules'[f]
          BY <3>2, <1>4, <1>5 DEF MainRule
        <4> QED BY <4>1 DEF Rule, IsMainRule
      <3> QED BY <3>1, <3>2
    <2> QED BY <1>1, <1>6, <1>7, <2>1, <2>2, <2>3, <2>4 DEF FamilyDone
  <1>9. ASSUME NEW g \in Family \ {f}, FamilyDone(g) PROVE FamilyDone(g)'
    <2>1. CidrsOf(Cidr, g) \intersect (CidrsOf(Cidr, f) \union {Connected}) = {}
      BY FollowersAssumption DEF CidrsOf, Family, Cidr
    <2>2. CidrsOf(cidrs, g) \subseteq CidrsOf(Cidr, g) BY DEF CidrsOf, BaseInv, Typed
    <2>3. \A r \in StaleRoutes(f) : r.cidr \in CidrsOf(Cidr, f) \union {Connected}
      BY DEF StaleRoutes, FamilyRoutes, CidrsOf, Cidr, Family
    <2>4. \A r \in WantedRoutes(f) : r.cidr \in CidrsOf(Cidr, f)
      BY <1>5 DEF WantedRoutes, CidrsOf, BaseInv, Typed
    <2>5. \A r \in routes : r.cidr \in CidrsOf(cidrs, g) => r \in routes'
      BY <1>3, <2>1, <2>2, <2>3
    <2>6. \A r \in routes' : r.cidr \in CidrsOf(Cidr, g) => r \in routes
      BY <1>3, <2>1, <2>4
    <2>7. rules[g] \subseteq rules'[g] BY <1>4
    <2> QED BY <1>1, <1>9, <2>5, <2>6, <2>7, FamilyDoneKept
  <1>10. router # Idle BY DEF Setting, Idle
  <1>11. router.left # <<>> BY DEF SetRoutesForFamily
  <1>12. router' = [router EXCEPT !.left = Tail(router.left)]
    BY <1>3, <1>10, <1>11, NextFamilyType
  <1> QED BY <1>8, <1>9, <1>12

LEMMA SetRoutesFollow ==
    ASSUME BaseInv, ChangeInv, FileInv, RouteInv, SetRoutesForFamily, clean'
    PROVE  ChangeInv' /\ FileInv' /\ RouteInv'
  <1>1. /\ router.kind = "set" /\ router.left # <<>> /\ router # Idle
        /\ UNCHANGED <<world, file, queue, op, writer>>
    BY DEF SetRoutesForFamily, Idle
  <1>2. router \in SetRouter /\ router.left \in Lefts BY <1>1, RouterKinds DEF SetRouter
  <1>3. ASSUME ~ Changing, Managed, link.known, queue["route:update"] = <<>> PROVE Setting'
    <2>1. Setting BY <1>1, <1>3 DEF RouteInv, Settled
    <2>2. link.up BY <1>3 DEF Managed, BaseInv, LinkInv
    <2>3. PICK f \in Family : f = Head(router.left) BY <1>1, <1>2, LeftOver
    <2>4. /\ router' = [router EXCEPT !.left = Tail(router.left)]
          /\ FamilyDone(f)'
          /\ \A g \in Family \ {f} : FamilyDone(g) => FamilyDone(g)'
      BY <2>1, <2>2, <2>3, FamilySet
    <2>5. /\ router'.kind = "set" /\ router'.cidrs = router.cidrs /\ router'.index = router.index
          /\ router'.mark = router.mark /\ router'.table = router.table
          /\ router'.left = Tail(router.left)
      BY <1>2, <2>4 DEF SetRouter
    <2>6. UNCHANGED <<row, cidrs, link>> BY <1>1 DEF world
    <2>7. WantedTable' = WantedTable BY <2>6 DEF WantedTable, GetRoutingTable
    <2>8. CASE router.left = <<"v4", "v6">>
      <3>1. f = "v4" /\ router'.left = <<"v6">> BY <2>5, <2>8, <1>1, <1>2, <2>3, LeftOver
      <3>2. FamilyDone("v4")' BY <2>4, <3>1
      <3>3. router'.left # <<>> BY <3>1
      <3> QED BY <2>1, <2>5, <2>6, <2>7, <3>2, <3>3 DEF Setting
    <2>9. CASE router.left = <<"v6">>
      <3>1. f = "v6" /\ <<"v6">> # <<"v4", "v6">> BY <2>9, <1>1, <1>2, <2>3, LeftOver
      <3>2. FamilyDone("v4") BY <2>1, <2>9, <3>1 DEF Setting
      <3>3. FamilyDone("v4")' /\ FamilyDone("v6")' BY <2>4, <3>1, <3>2 DEF Family
      <3> QED BY <2>1, <2>5, <2>6, <2>7, <3>3 DEF Setting
    <2> QED BY <1>1, <1>2, <2>8, <2>9 DEF Lefts
  <1> QED BY <1>1, <1>3, KernelFollow, KernelRouteInv

LEMMA RestoreRouteFollow ==
    ASSUME BaseInv, ChangeInv, FileInv, RouteInv, RestoreConnectedRoute
    PROVE  ChangeInv' /\ FileInv' /\ RouteInv'
  <1>1. /\ router.kind = "set" /\ router.left = <<>> /\ router # Idle /\ router' = Idle
        /\ UNCHANGED <<world, rules, file, queue, op, writer>>
        /\ UNCHANGED <<row, cidrs, link>>
    BY DEF RestoreConnectedRoute, Idle, world
  <1>2. ASSUME ~ Changing, Managed, link.known, queue["route:update"] = <<>> PROVE Settled'
    <2>1. Setting BY <1>1, <1>2 DEF RouteInv, Settled
    <2>2. link.up BY <1>2 DEF Managed, BaseInv, LinkInv
    <2>3. routes' = routes \union {[cidr |-> Connected, table |-> Main]}
      BY <2>2 DEF RestoreConnectedRoute
    <2>4. FamilyDone("v4") /\ FamilyDone("v6")
      <3>1. <<>> # <<"v4", "v6">> OBVIOUS
      <3> QED BY <1>1, <2>1, <3>1 DEF Setting
    <2>5. \A f \in Family : FamilyDone(f) BY <2>4 DEF Family
    <2>6. \A c \in cidrs : \E f \in Family : c \in CidrsOf(cidrs, f)
      BY DEF BaseInv, Typed, CidrsOf, Cidr, Family
    <2>7. \A c \in cidrs : [cidr |-> c, table |-> WantedTable] \in routes'
      BY <2>3, <2>5, <2>6 DEF FamilyDone
    <2>8. \A r \in routes : r.cidr \in cidrs \union {Connected}
      <3> SUFFICES ASSUME NEW r \in routes, r.cidr # Connected PROVE r.cidr \in cidrs OBVIOUS
      <3>1. r.cidr \in Cidr BY DEF BaseInv, Typed, Route
      <3>2. \E f \in Family : r.cidr \in CidrsOf(Cidr, f) BY <3>1 DEF CidrsOf, Cidr, Family
      <3> QED BY <2>5, <3>2 DEF FamilyDone
    <2>9. {r.cidr : r \in routes'} = cidrs \union {Connected}
      <3>1. ASSUME NEW c \in cidrs PROVE c \in {r.cidr : r \in routes'}
        <4>1. [cidr |-> c, table |-> WantedTable].cidr = c OBVIOUS
        <4> QED BY <2>7, <4>1
      <3>2. Connected \in {r.cidr : r \in routes'}
        <4>1. [cidr |-> Connected, table |-> Main].cidr = Connected OBVIOUS
        <4> QED BY <2>3, <4>1
      <3>3. \A r \in routes' : r.cidr \in cidrs \union {Connected} BY <2>3, <2>8
      <3> QED BY <3>1, <3>2, <3>3
    <2>10. \A f \in Family :
              /\ \E r \in rules[f] : r.mark = link.mark /\ r.table = WantedTable
              /\ CidrsOf(cidrs, f) \intersect DefaultRoute # {} =>
                    \E r \in rules[f] : IsMainRule(r)
      BY <2>5 DEF FamilyDone
    <2>11. WantedTable' = WantedTable /\ \A f \in Family : CidrsOf(cidrs, f)' = CidrsOf(cidrs, f)
      BY <1>1 DEF WantedTable, GetRoutingTable, CidrsOf
    <2>12. [cidr |-> Connected, table |-> Main] \in routes' BY <2>3
    <2>13. Routed' BY <1>1, <2>7, <2>9, <2>10, <2>11, <2>12 DEF Routed
    <2> QED BY <1>1, <2>13 DEF Settled, Idle
  <1> QED BY <1>1, <1>2, KernelFollow, KernelRouteInv

\* What has another table is not removed.
LEMMA RoutedKept ==
    ASSUME Routed, UNCHANGED world, NEW T, T \notin {WantedTable, Main},
           routes' \subseteq routes,
           \A r \in routes : r.table # T => r \in routes',
           \A f \in Family : \A r \in rules[f] : r.table # T => r \in rules'[f]
    PROVE  Routed'
  <1>1. UNCHANGED <<row, cidrs, link>> BY DEF world
  <1>2. WantedTable' = WantedTable /\ \A f \in Family : CidrsOf(cidrs, f)' = CidrsOf(cidrs, f)
    BY <1>1 DEF WantedTable, GetRoutingTable, CidrsOf
  <1>3. \A c \in cidrs : [cidr |-> c, table |-> WantedTable] \in routes' BY DEF Routed
  <1>4. [cidr |-> Connected, table |-> Main] \in routes' BY DEF Routed
  <1>5. {r.cidr : r \in routes'} = cidrs \union {Connected}
    <2>1. ASSUME NEW c \in cidrs PROVE c \in {r.cidr : r \in routes'}
      <3>1. [cidr |-> c, table |-> WantedTable].cidr = c OBVIOUS
      <3> QED BY <1>3, <3>1
    <2>2. Connected \in {r.cidr : r \in routes'}
      <3>1. [cidr |-> Connected, table |-> Main].cidr = Connected OBVIOUS
      <3> QED BY <1>4, <3>1
    <2>3. \A r \in routes' : r.cidr \in cidrs \union {Connected} BY DEF Routed
    <2> QED BY <2>1, <2>2, <2>3
  <1>6. \A f \in Family :
           /\ \E r \in rules'[f] : r.mark = link.mark /\ r.table = WantedTable
           /\ CidrsOf(cidrs, f) \intersect DefaultRoute # {} => \E r \in rules'[f] : IsMainRule(r)
    BY DEF Routed, IsMainRule
  <1> QED BY <1>1, <1>2, <1>3, <1>4, <1>5, <1>6 DEF Routed

LEMMA RemoveRoutesFollow ==
    ASSUME BaseInv, ChangeInv, FileInv, RouteInv, RemoveRoutesForFamily
    PROVE  ChangeInv' /\ FileInv' /\ RouteInv'
  <1> DEFINE f == Head(router.left)
             rs == {r \in rules[f] : r.mark # router.mark \/ r.table # router.table}
  <1>1. /\ router.kind = "remove" /\ router.left # <<>> /\ NextFamily(FALSE)
        /\ rules' = [rules EXCEPT ![f] = rs]
        /\ UNCHANGED <<world, file, queue, op, writer>>
    BY DEF RemoveRoutesForFamily
  <1>8. router # Idle
    <2>1. router.kind = "remove" BY <1>1
    <2> QED BY <2>1 DEF Idle
  <1>2. routes' \subseteq routes /\ \A r \in routes : r.table # router.table => r \in routes'
    BY DEF RemoveRoutesForFamily, OldRoutes
  <1>3. \A g \in Family : \A r \in rules[g] : r.table # router.table => r \in rules'[g]
    BY <1>1 DEF BaseInv, RulesInv
  <1>4. router \in RemoveRouter BY <1>1, RouterKinds
  <1>5. router' = [router EXCEPT !.left = Tail(router.left)] BY <1>1, <1>8, NextFamilyType
  <1>6. router'.kind = "remove" /\ router'.table = router.table BY <1>4, <1>5 DEF RemoveRouter
  <1>7. ASSUME ~ Changing, Managed, link.known, queue["route:update"] = <<>> PROVE Settled'
    <2>1. Settled BY <1>1, <1>7 DEF RouteInv, Setting
    <2>2. Routed /\ router.table \notin {WantedTable, Main} BY <1>1, <2>1 DEF Settled
    <2>3. Routed' BY <1>1, <1>2, <1>3, <2>2, RoutedKept
    <2>4. WantedTable' = WantedTable BY <1>1 DEF world, WantedTable, GetRoutingTable
    <2> QED BY <1>6, <2>2, <2>3, <2>4 DEF Settled
  <1> QED BY <1>1, <1>7, <1>8, KernelFollow, KernelRouteInv

LEMMA RemoveTableFollow ==
    ASSUME BaseInv, ChangeInv, FileInv, RouteInv, RemoveRouteRulesForTable
    PROVE  ChangeInv' /\ FileInv' /\ RouteInv'
  <1>1. /\ router.kind = "remove" /\ router # Idle /\ router' = Idle
        /\ UNCHANGED <<world, routes, file, queue, op, writer>>
    BY DEF RemoveRouteRulesForTable, Idle
  <1>2. \A g \in Family : \A r \in rules[g] : r.table # router.table => r \in rules'[g]
    BY DEF RemoveRouteRulesForTable
  <1>3. ASSUME ~ Changing, Managed, link.known, queue["route:update"] = <<>> PROVE Settled'
    <2>1. Settled BY <1>1, <1>3 DEF RouteInv, Setting
    <2>2. Routed /\ router.table \notin {WantedTable, Main} BY <1>1, <2>1 DEF Settled
    <2>3. Routed' BY <1>1, <1>2, <2>2, RoutedKept
    <2> QED BY <1>1, <2>3 DEF Settled, Idle
  <1> QED BY <1>1, <1>3, KernelFollow, KernelRouteInv

LEMMA ForeignRuleFollow ==
    ASSUME BaseInv, ChangeInv, FileInv, RouteInv, ForeignMainRule
    PROVE  ChangeInv' /\ FileInv' /\ RouteInv'
  <1>1. UNCHANGED <<world, routes, file, queue, op, router, writer>>
        /\ UNCHANGED <<row, cidrs, link>>
    BY DEF ForeignMainRule, world
  <1>2. ChangeInv' BY <1>1 DEF ChangeInv
  <1>3. FileInv' BY <1>1, FileKept
  <1>4. \A f \in Family : rules[f] \subseteq rules'[f]
    BY DEF ForeignMainRule, BaseInv, RulesInv
  <1>5. WantedTable' = WantedTable /\ \A f \in Family : CidrsOf(cidrs, f)' = CidrsOf(cidrs, f)
    BY <1>1 DEF WantedTable, GetRoutingTable, CidrsOf
  <1>6. ASSUME Setting PROVE Setting'
    <2>1. \A f \in Family : FamilyDone(f) => FamilyDone(f)'
      <3> SUFFICES ASSUME NEW f \in Family, FamilyDone(f) PROVE FamilyDone(f)' OBVIOUS
      <3> QED BY <1>1, <1>4, FamilyDoneKept
    <2>2. "v4" \in Family /\ "v6" \in Family BY DEF Family
    <2> QED BY <1>1, <1>5, <1>6, <2>1, <2>2 DEF Setting
  <1>7. ASSUME Settled PROVE Settled'
    <2>1. Routed' BY <1>1, <1>4, <1>5, <1>7 DEF Settled, Routed
    <2> QED BY <1>1, <1>5, <1>7, <2>1 DEF Settled
  <1>8. RouteInv' BY <1>1, <1>6, <1>7, KernelRouteInv DEF RouteInv
  <1> QED BY <1>2, <1>3, <1>8

-----------------------------------------------------------------------------
(* The configuration file after a change. *)

\* What the steps on the file leave alone.
LEMMA FilesFollow ==
    ASSUME ChangeInv, RouteInv, UNCHANGED <<world, kernel, op, router>>,
           \A t \in Topic : queue[t] = <<>> => queue'[t] = <<>>,
           \A t \in {"route:update", "route:remove"} : queue'[t] = queue[t],
           \A w \in Writer : \/ writer'[w] = Idle \/ writer[w] # Idle
                             \/ \E t \in Topic \ {"route:remove"} : queue[t] # <<>>
                             \/ Quiet
    PROVE  ChangeInv' /\ RouteInv'
  <1>1. UNCHANGED <<row, cidrs, link, routes, rules, op, router>> BY DEF world, kernel
  <1>2. router # Idle \/ router' = Idle BY <1>1
  <1>3. ChangeInv' BY <1>1, <1>2, ChangeKept
  <1>4. RouteInv' BY <1>1, RouteKept
  <1> QED BY <1>3, <1>4

LEMMA TakenFile ==
    ASSUME Queued, NEW t \in Topic, queue[t] # <<>>, queue' = Taken(t)
    PROVE  /\ \A u \in Topic : queue[u] = <<>> => queue'[u] = <<>>
           /\ (\A u \in {"created", "updated", "deleted"} : \A i \in 1 .. Len(queue[u]) :
                  queue[u][i].save = row.save) =>
              \A u \in {"created", "updated", "deleted"} : \A i \in 1 .. Len(queue'[u]) :
                  queue'[u][i].save = row.save
  <1>1. /\ 1 \in 1 .. Len(queue[t])
        /\ \A u \in Topic \ {t} : queue'[u] = queue[u]
        /\ \A i \in 1 .. Len(queue'[t]) :
              i + 1 \in 1 .. Len(queue[t]) /\ queue'[t][i] = queue[t][i + 1]
    BY TakenEvents
  <1>2. {"created", "updated", "deleted"} \subseteq Topic BY DEF Topic
  <1>3. ASSUME NEW u \in {"created", "updated", "deleted"},
               \A i \in 1 .. Len(queue[u]) : queue[u][i].save = row.save
        PROVE  \A i \in 1 .. Len(queue'[u]) : queue'[u][i].save = row.save
    <2>1. CASE u = t BY <1>1, <1>3, <2>1
    <2>2. CASE u # t
      <3>1. queue'[u] = queue[u] BY <1>1, <1>2, <2>2
      <3> QED BY <1>3, <3>1
    <2> QED BY <2>1, <2>2
  <1>4. \A u \in Topic : queue[u] = <<>> => queue'[u] = <<>> BY <1>1
  <1> QED BY <1>3, <1>4

LEMMA ReadsContents ==
    ASSUME BaseInv, NEW w \in Writer, ReadConfig(w)
    PROVE  /\ writer'[w] = IF row.present THEN Contents ELSE Idle
           /\ \A z \in Writer \ {w} : writer'[z] = writer[z]
           /\ Contents # Idle
  BY DEF ReadConfig, BaseInv, Typed, Contents, Idle

LEMMA SavedHandlerFollow ==
    ASSUME BaseInv, ChangeInv, FileInv, RouteInv,
           NEW t \in {"created", "updated"}, HandleInterfaceSavedEvent(t)
    PROVE  ChangeInv' /\ FileInv' /\ RouteInv'
  <1>1. /\ queue[t] # <<>> /\ queue' = Taken(t)
        /\ UNCHANGED <<world, kernel, file, op, router>> /\ UNCHANGED <<row, cidrs>>
    BY DEF HandleInterfaceSavedEvent, world
  <1>2. IF Head(queue[t]).save THEN ReadConfig(t) ELSE UNCHANGED writer
    BY DEF HandleInterfaceSavedEvent
  <1>3. t \in Topic \ {"route:update", "route:remove", "deleted"} /\ t \in Writer
    BY DEF Topic, Writer
  <1>4. /\ Head(queue[t]) = queue[t][1] /\ 1 \in 1 .. Len(queue[t])
        /\ \A u \in Topic \ {t} : queue'[u] = queue[u]
    BY <1>1, <1>3, TakenEvents DEF BaseInv, Typed
  <1>5. \A u \in Topic : queue[u] = <<>> => queue'[u] = <<>>
    BY <1>1, <1>3, TakenFile DEF BaseInv, Typed
  <1>6. {"route:update", "route:remove", "deleted"} \subseteq Topic \ {t} BY <1>3 DEF Topic
  <1>7. \A w \in Writer \ {t} : writer'[w] = writer[w] BY <1>2, <1>3, ReadsContents
  <1>8. ChangeInv' /\ RouteInv' BY <1>1, <1>3, <1>4, <1>5, <1>6, <1>7, FilesFollow
  <1>9. Contents' = Contents BY <1>1 DEF Contents
  <1>10. \A w \in Writer : writer'[w] # Idle => writer'[w] = Contents
    BY <1>2, <1>3, <1>7, ReadsContents DEF FileInv
  <1>11. FileInv'
    <2>1. CASE Changing
      <3>1. Changing' BY <1>1, <2>1 DEF Changing
      <3> QED BY <1>9, <1>10, <3>1 DEF FileInv
    <2>2. CASE ~ Changing
      <3>1. \A u \in {"created", "updated", "deleted"} : \A i \in 1 .. Len(queue[u]) :
               queue[u][i].save = row.save
        BY <2>2 DEF FileInv
      <3>2. \A u \in {"created", "updated", "deleted"} : \A i \in 1 .. Len(queue'[u]) :
               queue'[u][i].save = row.save
        BY <1>1, <1>3, <3>1, TakenFile DEF BaseInv, Typed
      <3>3. row.save => ReadConfig(t) BY <1>2, <1>4, <3>1
      <3>4. queue'["deleted"] = queue["deleted"] BY <1>4, <1>6
      <3>5. ASSUME row.save, row.present
            PROVE  queue'["deleted"] = <<>> /\ \E w \in Writer : writer'[w] # Idle
        BY <1>3, <2>2, <3>3, <3>4, <3>5, ReadsContents DEF FileInv
      <3>6. ASSUME row.save, ~ row.present
            PROVE  /\ \A w \in Writer : writer'[w] = Idle
                   /\ file = NoFile \/ queue'["deleted"] # <<>>
        BY <1>3, <1>7, <2>2, <3>3, <3>4, <3>6, ReadsContents DEF FileInv
      <3> QED BY <1>1, <1>9, <1>10, <3>2, <3>5, <3>6 DEF FileInv
    <2> QED BY <2>1, <2>2
  <1> QED BY <1>8, <1>11

LEMMA PeersHandlerFollow ==
    ASSUME BaseInv, ChangeInv, FileInv, RouteInv, HandlePeerInterfaceUpdatedEvent
    PROVE  ChangeInv' /\ FileInv' /\ RouteInv'
  <1>1. /\ queue["peers"] # <<>> /\ queue' = Taken("peers")
        /\ UNCHANGED <<world, kernel, file, op, router>> /\ UNCHANGED <<row, cidrs>>
    BY DEF HandlePeerInterfaceUpdatedEvent, world
  <1>2. IF row.present /\ row.save THEN ReadConfig("peers") ELSE UNCHANGED writer
    BY DEF HandlePeerInterfaceUpdatedEvent
  <1>3. "peers" \in Topic \ {"route:remove"} /\ "peers" \in Writer BY DEF Topic, Writer
  <1>4. \A u \in Topic \ {"peers"} : queue'[u] = queue[u]
    BY <1>1, <1>3, TakenEvents DEF BaseInv, Typed
  <1>5. \A u \in Topic : queue[u] = <<>> => queue'[u] = <<>>
    BY <1>1, <1>3, TakenFile DEF BaseInv, Typed
  <1>6. {"route:update", "route:remove", "created", "updated", "deleted"} \subseteq Topic \ {"peers"}
    BY DEF Topic
  <1>7. \A w \in Writer \ {"peers"} : writer'[w] = writer[w] BY <1>2, <1>3, ReadsContents
  <1>8. ChangeInv' /\ RouteInv' BY <1>1, <1>3, <1>4, <1>5, <1>6, <1>7, FilesFollow
  <1>9. Contents' = Contents BY <1>1 DEF Contents
  <1>10. \A w \in Writer : writer'[w] # Idle => writer'[w] = Contents
    BY <1>2, <1>3, <1>7, ReadsContents DEF FileInv
  <1>11. FileInv'
    <2>1. CASE Changing
      <3>1. Changing' BY <1>1, <2>1 DEF Changing
      <3> QED BY <1>9, <1>10, <3>1 DEF FileInv
    <2>2. CASE ~ Changing
      <3>1. \A u \in {"created", "updated", "deleted"} : queue'[u] = queue[u] BY <1>4, <1>6
      <3>2. \A u \in {"created", "updated", "deleted"} : \A i \in 1 .. Len(queue'[u]) :
               queue'[u][i].save = row.save
        BY <2>2, <3>1 DEF FileInv
      <3>3. ASSUME row.save, row.present
            PROVE  queue'["deleted"] = <<>> /\ \E w \in Writer : writer'[w] # Idle
        BY <1>2, <1>3, <2>2, <3>1, <3>3, ReadsContents DEF FileInv
      <3>4. ASSUME row.save, ~ row.present
            PROVE  /\ \A w \in Writer : writer'[w] = Idle
                   /\ file = NoFile \/ queue'["deleted"] # <<>>
        BY <1>2, <2>2, <3>1, <3>4 DEF FileInv
      <3> QED BY <1>1, <1>9, <1>10, <3>2, <3>3, <3>4 DEF FileInv
    <2> QED BY <2>1, <2>2
  <1> QED BY <1>8, <1>11

LEMMA DeleteHandlerFollow ==
    ASSUME BaseInv, ChangeInv, FileInv, RouteInv, HandleInterfaceDeleteEvent, clean'
    PROVE  ChangeInv' /\ FileInv' /\ RouteInv'
  <1>1. /\ queue["deleted"] # <<>> /\ queue' = Taken("deleted")
        /\ IF Head(queue["deleted"]).save THEN file' = NoFile ELSE UNCHANGED file
        /\ UNCHANGED <<world, kernel, op, router, writer>> /\ UNCHANGED <<row, cidrs>>
    BY DEF HandleInterfaceDeleteEvent, world
  <1>2. "deleted" \in Topic BY DEF Topic
  <1>3. /\ Head(queue["deleted"]) = queue["deleted"][1] /\ 1 \in 1 .. Len(queue["deleted"])
        /\ \A u \in Topic \ {"deleted"} : queue'[u] = queue[u]
    BY <1>1, <1>2, TakenEvents DEF BaseInv, Typed
  <1>4. \A u \in Topic : queue[u] = <<>> => queue'[u] = <<>>
    BY <1>1, <1>2, TakenFile DEF BaseInv, Typed
  <1>5. {"route:update", "route:remove"} \subseteq Topic \ {"deleted"} BY DEF Topic
  <1>6. ChangeInv' /\ RouteInv' BY <1>1, <1>3, <1>4, <1>5, FilesFollow
  <1>7. Contents' = Contents BY <1>1 DEF Contents
  <1>8. FileInv'
    <2>1. CASE Changing
      <3>1. Changing' BY <1>1, <2>1 DEF Changing
      <3> QED BY <1>1, <1>7, <3>1 DEF FileInv
    <2>2. CASE ~ Changing
      <3>1. \A u \in {"created", "updated", "deleted"} : \A i \in 1 .. Len(queue[u]) :
               queue[u][i].save = row.save
        BY <2>2 DEF FileInv
      <3>2. \A u \in {"created", "updated", "deleted"} : \A i \in 1 .. Len(queue'[u]) :
               queue'[u][i].save = row.save
        BY <1>1, <1>2, <3>1, TakenFile DEF BaseInv, Typed
      <3>3. row.save => ~ row.present BY <1>1, <2>2 DEF FileInv
      <3>4. row.save => file' = NoFile BY <1>1, <1>3, <3>1
      <3>5. row.save => \A w \in Writer : writer[w] = Idle BY <2>2, <3>3 DEF FileInv
      <3>6. \A w \in Writer : writer[w] # Idle => writer[w] = Contents BY DEF FileInv
      <3> QED BY <1>1, <1>7, <3>2, <3>3, <3>4, <3>5, <3>6 DEF FileInv
    <2> QED BY <2>1, <2>2
  <1> QED BY <1>6, <1>8

LEMMA PostFollow ==
    ASSUME BaseInv, ChangeInv, FileInv, RouteInv, HandleSaveConfigPost, clean'
    PROVE  ChangeInv' /\ FileInv' /\ RouteInv'
  <1>1. /\ Quiet /\ ReadConfig("api") /\ "api" \in Writer
        /\ UNCHANGED <<world, kernel, file, queue, op, router>> /\ UNCHANGED <<row, cidrs>>
    BY DEF HandleSaveConfigPost, world, Writer
  <1>2. ChangeInv' /\ RouteInv' BY <1>1, FilesFollow
  <1>3. Contents' = Contents BY <1>1 DEF Contents
  <1>4. /\ writer'["api"] = IF row.present THEN Contents ELSE Idle
        /\ \A w \in Writer \ {"api"} : writer'[w] = writer[w]
        /\ Contents # Idle
    BY <1>1, ReadsContents
  <1>5. \A w \in Writer : writer'[w] # Idle => writer'[w] = Contents BY <1>4 DEF FileInv
  <1>6. ~ Changing BY <1>1 DEF Quiet, Changing
  <1>7. FileInv' BY <1>1, <1>3, <1>4, <1>5, <1>6 DEF FileInv
  <1> QED BY <1>2, <1>7

LEMMA WriteFollow ==
    ASSUME BaseInv, ChangeInv, FileInv, RouteInv, NEW w \in Writer, WriteFile(w), clean'
    PROVE  ChangeInv' /\ FileInv' /\ RouteInv'
  <1>1. /\ writer[w] # Idle /\ file' = writer[w]
        /\ writer' = [writer EXCEPT ![w] = Idle]
        /\ UNCHANGED <<world, kernel, queue, op, router>> /\ UNCHANGED <<row, cidrs>>
    BY DEF WriteFile, world
  <1>2. \A z \in Writer : writer'[z] = Idle \/ writer'[z] = writer[z]
    BY <1>1 DEF BaseInv, Typed
  <1>3. ChangeInv' /\ RouteInv' BY <1>1, <1>2, FilesFollow
  <1>4. Contents' = Contents BY <1>1 DEF Contents
  <1>5. file' = Contents BY <1>1 DEF FileInv
  <1>6. FileInv' BY <1>1, <1>2, <1>4, <1>5 DEF FileInv, Changing
  <1> QED BY <1>3, <1>6

-----------------------------------------------------------------------------
LEMMA InitFollowInv == ASSUME Init PROVE FollowInv
  <1>1. BaseInv BY InitBaseInv
  <1>2. \A s \in Slot : op[s] = Idle BY DEF Init
  <1>3. \A w \in Writer : writer[w] = Idle BY DEF Init
  <1>4. \A t \in Topic : queue[t] = <<>> BY DEF Init
  <1>5. row.save = FALSE /\ row.enabled = FALSE BY DEF Init, NoRow
  <1>6. {"created", "updated", "deleted"} \subseteq Topic BY DEF Topic
  <1>7. \A t \in {"created", "updated", "deleted"} : \A i \in 1 .. Len(queue[t]) :
           queue[t][i].save = row.save
    BY <1>4, <1>6, OneItem
  <1>8. FileInv BY <1>3, <1>5, <1>7 DEF FileInv
  <1> QED BY <1>1, <1>2, <1>5, <1>8 DEF FollowInv, ChangeInv, RouteInv, Managed

LEMMA StepFollowInv ==
    ASSUME TablesApart, MaxMainRules <= 1, FollowInv, [Next]_vars
    PROVE  FollowInv'
  <1>1. BaseInv /\ BaseInv' BY StepBaseInv DEF FollowInv
  <1> SUFFICES ASSUME clean' PROVE ChangeInv' /\ FileInv' /\ RouteInv'
    BY <1>1 DEF FollowInv
  <1>2. clean => ChangeInv /\ FileInv /\ RouteInv BY DEF FollowInv
  <1>3. ASSUME NEW s \in Slot, Begin(s) PROVE ChangeInv' /\ FileInv' /\ RouteInv'
    BY <1>1, <1>3, BeginFollow
  <1>4. ASSUME NEW s \in Slot, SaveInterface(s) PROVE ChangeInv' /\ FileInv' /\ RouteInv'
    <2>1. clean BY <1>4 DEF SaveInterface
    <2> QED BY <1>1, <1>2, <1>4, <2>1, SaveFollow
  <1>5. ASSUME NEW s \in Slot, DeleteInterface(s) PROVE ChangeInv' /\ FileInv' /\ RouteInv'
    <2>1. clean BY <1>5 DEF DeleteInterface
    <2> QED BY <1>1, <1>2, <1>5, <2>1, DeleteFollow
  <1>6. ASSUME NEW s \in Slot, ChangePeers(s) PROVE ChangeInv' /\ FileInv' /\ RouteInv'
    <2>1. clean BY <1>6 DEF ChangePeers
    <2> QED BY <1>1, <1>2, <1>6, <2>1, ChangePeersFollow
  <1>7. CASE RouteManager
    <2>1. clean
      BY <1>7 DEF RouteManager, HandleRouteUpdateEvent, HandleRouteRemoveEvent,
         SetRoutesForFamily, RestoreConnectedRoute, RemoveRoutesForFamily,
         RemoveRouteRulesForTable, RoutingFails
    <2>2. ~ RoutingFails BY DEF RoutingFails
    <2> QED BY <1>1, <1>2, <1>7, <2>1, <2>2, UpdateHandlerFollow, RemoveHandlerFollow,
               SetRoutesFollow, RestoreRouteFollow, RemoveRoutesFollow, RemoveTableFollow
            DEF RouteManager
  <1>8. CASE ConfigFiles
    <2>1. clean
      BY <1>8 DEF ConfigFiles, HandleInterfaceSavedEvent, HandlePeerInterfaceUpdatedEvent,
         HandleInterfaceDeleteEvent, HandleSaveConfigPost, WriteFile
    <2> QED BY <1>1, <1>2, <1>8, <2>1, SavedHandlerFollow, PeersHandlerFollow,
               DeleteHandlerFollow, PostFollow, WriteFollow
            DEF ConfigFiles
  <1>9. CASE ForeignMainRule
    <2>1. clean BY <1>9 DEF ForeignMainRule
    <2> QED BY <1>1, <1>2, <1>9, <2>1, ForeignRuleFollow
  <1>10. CASE UNCHANGED vars
    <2>1. UNCHANGED <<row, cidrs, link, routes, rules, file, queue, op, router, writer, clean>>
      BY <1>10 DEF vars, world, kernel
    <2> QED BY <1>2, <2>1, FileKept, RouteKept DEF ChangeInv
  <1> QED BY <1>3, <1>4, <1>5, <1>6, <1>7, <1>8, <1>9, <1>10 DEF Next, Changes

LEMMA FollowInvAgrees == ASSUME FollowInv PROVE FollowersAgree
  <1> SUFFICES ASSUME Quiet, clean PROVE RoutesFollow /\ FileFollows BY DEF FollowersAgree
  <1>1. BaseInv /\ FileInv /\ RouteInv BY DEF FollowInv
  <1>2. /\ ~ Changing /\ router = Idle /\ \A w \in Writer : writer[w] = Idle
        /\ \A t \in Topic : queue[t] = <<>>
    BY DEF Quiet, Changing
  <1>3. {"route:update", "created", "updated", "deleted", "peers"} \subseteq Topic BY DEF Topic
  <1>4. ASSUME Managed, link.known PROVE Routed
    BY <1>1, <1>2, <1>3, <1>4 DEF RouteInv, Setting, Settled, Idle
  <1>5. ~ row.enabled => routes = {} BY <1>1 DEF BaseInv, LinkInv
  <1>6. FileFollows BY <1>1, <1>2, <1>3 DEF FileInv, FileFollows
  <1> QED BY <1>4, <1>5, <1>6 DEF RoutesFollow

\* Routes, rules and the configuration file agree with the rows once every event
\* is handled, whatever happened before the last change that met an idle portal:
\* if no table named by a row is another's or a device's mark, and at most one
\* rule suppresses the default route of the main table.  (routes.go:92,
\* local.go:904, configfile/manager.go:121)
THEOREM FollowersCatchUp ==
    ASSUME TablesApart, MaxMainRules <= 1
    PROVE  Spec => []FollowersAgree
  <1>1. Init => FollowInv BY InitFollowInv
  <1>2. FollowInv /\ [Next]_vars => FollowInv' BY StepFollowInv
  <1>3. FollowInv => FollowersAgree BY FollowInvAgrees
  <1> QED BY <1>1, <1>2, <1>3, PTL DEF Spec

=============================================================================
