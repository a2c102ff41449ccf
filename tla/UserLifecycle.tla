---------------------------- MODULE UserLifecycle ----------------------------
(***************************************************************************)
(* UserAccounts and UserPeers together: the row of one user, the owner of  *)
(* the peers, is what its writers make of it; the events they publish are  *)
(* those that the handlers of the peer manager receive.  The module closes *)
(* the gap between the two: UserPeers takes changes of the user and their  *)
(* events as given, UserAccounts only keeps a note of what it published.   *)
(***************************************************************************)
EXTENDS UserPeers, UserAccounts

CONSTANT Owner    \* the user whose peers UserPeers is about

ASSUME OwnerAssumption == Owner \in User

lifecycle == <<vars, accounts>>

\* what UserPeers sees of a row
Status(account) ==
    IF ~ account.exists THEN "deleted" ELSE IF account.disabled THEN "disabled" ELSE "enabled"

\* mutant: the pass of the synchronisation disables without an event
EventOfSilentPass(q) ==
    CASE q.kind = "delete" -> "UserDeleted"
      [] q.kind \in {"create", "missing"} -> None
      [] OTHER -> IF q.old.disabled = q.new.disabled THEN None
                  ELSE IF q.new.disabled THEN "UserDisabled" ELSE "UserEnabled"

\* mutant: the two events of an update are exchanged
EventOfExchanged(q) ==
    CASE q.kind = "delete" -> "UserDeleted"
      [] q.kind = "missing" -> "UserDisabled"
      [] q.kind = "create" -> None
      [] OTHER -> IF q.old.disabled = q.new.disabled THEN None
                  ELSE IF q.old.disabled THEN "UserDisabled" ELSE "UserEnabled"

\* the event that a request publishes to the peer manager, if any: update
\* compares the row it read with the one it wrote
EventOf(q) ==
    CASE q.kind = "delete" -> "UserDeleted"
      [] q.kind = "missing" -> "UserDisabled"
      [] q.kind = "create" -> None
      [] OTHER -> IF q.old.disabled = q.new.disabled THEN None
                  ELSE IF q.new.disabled THEN "UserDisabled" ELSE "UserEnabled"

Telling(r) == req[r].pos = "publish" /\ req[r].u = Owner

\* the handlers of the peer manager have worked off what was published
HandlersDone == \A t \in Topic : queue[t] = 0 /\ ~ Busy(t)

LifecycleInit ==
    /\ Init /\ AccountsInit
    /\ Status(users[Owner]) = "enabled"

---------------------------------------------------------------------------

\* the scope of UserPeers: nobody gets the identifier of a deleted user, and,
\* if changes are paced, the peers have followed the last one
InScope == user # "deleted" /\ changes < MaxChange /\ (Paced => HandlersDone)

\* the transaction; from now on the event is due
WriteRow(r) ==
    /\ SaveUser(r) \/ DeleteUser(r)
    /\ IF req[r].u # Owner THEN UNCHANGED vars
       ELSE /\ user' = Status(users'[Owner])
            /\ pub' = EventOf(req[r])
            /\ user' # user => InScope
            /\ changes' = IF user' = user THEN changes ELSE changes + 1
            /\ UNCHANGED <<queue, row, devPeers, expired, work, loose, edits, faults, crashes>>

\* the request publishes what it knows, whatever the row is by now
Tell(r) ==
    /\ PublishUserEvents(r)
    /\ LET event == EventOf(req[r])
       IN  IF req[r].u # Owner \/ event = None THEN UNCHANGED vars
           ELSE /\ queue' = [queue EXCEPT ![event] = @ + 1]
                /\ pub' = None
                /\ UNCHANGED <<user, row, devPeers, expired, work, loose,
                               changes, edits, faults, crashes>>

\* the steps before and beside a transaction
AccountStep ==
    /\ \/ \E r \in Slot, u \in User : Request(r, u)
       \/ \E r \in Slot \union {Sync} : UpdateUserInternal(r) \/ SaveFails(r)
       \/ SynchronizeLdapUsers \/ UpdateSynced \/ ListMissing \/ SyncPassEnds
       \/ \E u \in User :
             UpdateLdapUsers(u) \/ DisableMissingLdapUsers(u) \/ DirectoryChanges(u)
    /\ UNCHANGED vars

PeerStep ==
    /\ \/ \E p \in Peer : Expire(p)
       \/ \E w \in Editor, p \in Peer, off \in {"no", "admin"} : UpdatePeer(w, p, off)
       \/ \E w \in Editor, p \in Peer : DeletePeer(w, p)
       \/ \E t \in Topic : Handle(t)
       \/ CheckExpired
       \/ \E w \in Worker : Progress(w)
    /\ UNCHANGED accounts

\* the process ends, by itself or because the synchronisation panics: requests,
\* events and half done work are lost together
PortalStops == Stops /\ Restart

LifecycleNext ==
    \/ \E r \in Slot \union {Sync} : WriteRow(r) \/ Tell(r)
    \/ AccountStep
    \/ PeerStep
    \/ PortalStops

Lifecycle == LifecycleInit /\ [][LifecycleNext]_lifecycle

---------------------------------------------------------------------------
(* Properties *)

\* Once the handlers have worked off the events and no request has still to
\* publish one, the peers are as the row of their owner in the database says:
\* none is enabled if the row is disabled or gone, none is left disabled on his
\* account if it is enabled.  Every writer of the row counts, with what it read,
\* and the way over the events (user_manager.go 230 and 470-477, ldap_sync.go
\* 246, wireguard.go 156-274).
PeersFollowRow ==
    (~ raced[Owner] /\ HandlersDone /\ \A r \in Slot \union {Sync} : ~ Telling(r)) =>
        \A p \in Linked \ loose :
            IF Status(users[Owner]) = "enabled" THEN ReEnable => row[p].off # "user"
            ELSE ~ On(p)

\* As long as no two writers of the owner's row overlap, what the user manager
\* does is what UserPeers assumes of it: a change of the row is announced by
\* exactly one event, the right one, and the next change comes after it.
FollowsUserPeers == [][raced'[Owner] \/ Next]_vars
=============================================================================
