-------------------------- MODULE PeerRequestsProofs --------------------------
(***************************************************************************)
(* Proofs about the requests for peers (PeerRequests), for any number of   *)
(* users, keys and requests, and any settings.                             *)
(*                                                                         *)
(*   Invariance      a request that no other one has overlapped is alone,  *)
(*                   and what it stores or deletes passed its checks; with *)
(*                   it, a user changes his own peers only                 *)
(*   CareInvariance  how far such a request has come, and who may be about *)
(*                   to store a default peer; with it, new addresses are   *)
(*                   free, requests do what they should completely, and a  *)
(*                   user has one default peer                             *)
(***************************************************************************)
EXTENDS PeerRequests, FiniteSetTheorems, WellFoundedInduction, TLAPS

PeerFields == {"exists", "id", "pub", "private", "owner", "addr", "disabled", "auto"}
OpFields ==
    {"kind", "pos", "ctx", "row", "old", "keys", "made", "todo", "user", "crowd", "owned",
     "count", "failed", "chosen"}

Has(o, fields) == fields \subseteq DOMAIN o /\ o = [f \in DOMAIN o |-> o[f]]

\* a peer, in the table or wanted by a request
Shaped(row) == Has(row, PeerFields) /\ row.exists = TRUE /\ row.id \in Key /\ row.pub \in Key

Fit(o) ==
    /\ Has(o, OpFields)
    /\ o.row = NoPeer \/ Shaped(o.row)
    /\ o.pos \in {"save", "prepare", "reread"} => Shaped(o.row)
    /\ o.kind = "bulkDelete" => o.row = NoPeer
    /\ o.kind \in {"multiple", "default"} => o.ctx.admin
    /\ o.kind \in {"bulkEnable", "bulkDisable", "bulkDelete"} => o.todo \subseteq Key

\* peers that the request will come to: those of the caller were his at the start
TodoOwned(o, table) ==
    \A k \in o.todo : /\ k \in Key /\ table[k].exists
                      /\ table[k].owner = o.ctx.id => k \in o.owned

\* the peer that the request is about to delete is the caller's
OldOwned(o, table) ==
    o.pos \in {"reread", "unlink", "remove"} =>
        /\ o.old \in Key /\ o.old \in o.owned /\ o.old \notin o.todo
        /\ table[o.old].exists

\* the peer that it is about to store is the caller's, and either new or in place
\* of one that was his, with the same owner and address
RowOwned(o, table) ==
    (o.row # NoPeer /\ o.pos \in {"reread", "unlink", "remove", "save"}) =>
        /\ o.row.owner = o.ctx.id /\ o.row.id \notin o.todo
        /\ \/ ~ table[o.row.id].exists
           \/ /\ o.pos = "save" /\ o.row.id \in o.owned
              /\ table[o.row.id].owner = o.row.owner
              /\ table[o.row.id].addr = o.row.addr

\* a peer that is about to be prepared has an identifier of its own
IdFree(o, table) == o.pos = "prepare" => ~ table[o.row.id].exists

Owned(o, table) ==
    (~ o.ctx.admin /\ ~ o.crowd) =>
        TodoOwned(o, table) /\ OldOwned(o, table) /\ RowOwned(o, table) /\ IdFree(o, table)

\* what the invariant asks of a request
Proper(o, table) == o # Idle => Fit(o) /\ Owned(o, table)

TableShaped ==
    /\ peers = [k \in Key |-> peers[k]]
    /\ \A k \in Key : peers[k] = NoPeer \/ (Shaped(peers[k]) /\ peers[k].id = k)

Inv ==
    /\ op = [a \in Actor |-> op[a]]
    /\ TableShaped
    /\ \A a \in Actor : Proper(op[a], peers)
    /\ \A a \in Actor : op[a] # Idle /\ ~ op[a].crowd => \A x \in Actor \ {a} : op[x] = Idle

\* what OwnersOnly asks of a step of a request
OwnStep(a) ==
    (op[a] # Idle /\ op'[a] # op[a] /\ ~ op[a].ctx.admin /\ ~ op[a].crowd) =>
        \A k \in Key : peers'[k] # peers[k] =>
           IF peers[k].exists
           THEN /\ k \in op[a].owned
                /\ peers'[k].exists => /\ peers'[k].owner = peers[k].owner
                                       /\ peers'[k].addr = peers[k].addr
           ELSE peers'[k].owner = op[a].ctx.id

OwnSteps == \A a \in Slot : OwnStep(a)

---------------------------------------------------------------------------
(* The shape of peers and requests *)

LEMMA ShapedExists == ASSUME NEW row, Shaped(row) PROVE row # NoPeer /\ row.exists
  <1>1. NoPeer.exists = FALSE BY DEF NoPeer
  <1>2. row.exists = TRUE BY DEF Shaped
  <1> QED BY <1>1, <1>2

LEMMA TableExists ==
    ASSUME TableShaped, NEW k \in Key, peers[k].exists PROVE Shaped(peers[k]) /\ peers[k].id = k
  <1>1. ~ NoPeer.exists BY DEF NoPeer
  <1> QED BY <1>1 DEF TableShaped

\* the zero value of a request
LEMMA RequestFacts ==
    ASSUME NEW kind, NEW pos, NEW ctx, NEW q, q = Request(kind, pos, ctx)
    PROVE  /\ Has(q, OpFields) /\ q.kind = kind /\ q.pos = pos /\ q.ctx = ctx
           /\ q.row = NoPeer /\ q.todo = {} /\ q.owned = UserPeers(ctx.id)
  <1>1. Has(q, OpFields) BY DEF Request, Has, OpFields
  <1>2. /\ q.kind = kind /\ q.pos = pos /\ q.ctx = ctx
        /\ q.row = NoPeer /\ q.todo = {} /\ q.owned = UserPeers(ctx.id)
    BY DEF Request
  <1> QED BY <1>1, <1>2

\* the peers of the caller at the start
LEMMA OwnedFacts ==
    ASSUME NEW u, NEW k \in Key, peers[k].exists, peers[k].owner = u PROVE k \in UserPeers(u)
  BY DEF UserPeers, Existing

\* a form that a client has filled in, and the peer that is made of it
LEMMA FormFacts ==
    ASSUME NEW form \in Form
    PROVE  /\ Shaped(form) /\ Shaped(NewDomainPeer(form)) /\ Shaped(NewDomainPeerV1(form))
           /\ NewDomainPeer(form).id = form.id /\ NewDomainPeerV1(form).id = form.id
  <1>1. form \in [exists: {TRUE}, id: SentKeys, pub: SentKeys, private: BOOLEAN, owner: User,
                  addr: {InterfaceAddress + 1}, disabled: {FALSE}, auto: {FALSE}]
    BY DEF Form
  <1>2. SentKeys \subseteq Key BY DEF SentKeys
  <1>3. Has(form, PeerFields) BY <1>1 DEF Has, PeerFields
  <1>4. form.exists = TRUE /\ form.id \in Key /\ form.pub \in Key BY <1>1, <1>2
  <1> DEFINE r == [form EXCEPT !.auto = FALSE]
  <1>5. /\ Has(r, PeerFields) /\ r.exists = TRUE /\ r.id = form.id /\ r.pub = form.pub
    BY <1>3, <1>4 DEF Has, PeerFields
  <1> QED BY <1>3, <1>4, <1>5 DEF Shaped, NewDomainPeer, NewDomainPeerV1

LEMMA PreparedFacts ==
    ASSUME NEW ctx, NEW k \in Key, NEW p, p = PreparePeer(ctx, k)
    PROVE  Shaped(p) /\ p.id = k /\ p.pub = k /\ p.owner = ctx.id
  <1>1. Has(p, PeerFields) BY DEF PreparePeer, Has, PeerFields
  <1>2. p.exists = TRUE /\ p.id = k /\ p.pub = k /\ p.owner = ctx.id BY DEF PreparePeer
  <1> QED BY <1>1, <1>2 DEF Shaped

\* what a user may change of a peer is neither its owner nor its address
LEMMA OverwriteFacts ==
    ASSUME NEW peer, NEW form, Shaped(peer), Shaped(form),
           NEW p, p = OverwriteUserEditableFields(peer, form)
    PROVE  /\ Shaped(p) /\ p.owner = peer.owner /\ p.addr = peer.addr
           /\ p.id = peer.id \/ p.id = form.id
  <1> DEFINE keyed == IF EditableKeys /\ form.private
                      THEN [peer EXCEPT !.id = form.id, !.pub = form.pub, !.private = TRUE]
                      ELSE peer
  <1>1. /\ Has(keyed, PeerFields) /\ keyed.exists = TRUE /\ keyed.owner = peer.owner
        /\ keyed.addr = peer.addr /\ keyed.id \in {peer.id, form.id}
        /\ keyed.pub \in {peer.pub, form.pub}
    BY DEF Shaped, Has, PeerFields
  <1>2. p = [keyed EXCEPT !.disabled = form.disabled] BY DEF OverwriteUserEditableFields
  <1> HIDE DEF keyed
  <1>3. /\ Has(p, PeerFields) /\ p.exists = TRUE /\ p.owner = keyed.owner
        /\ p.addr = keyed.addr /\ p.id = keyed.id /\ p.pub = keyed.pub
    BY <1>1, <1>2 DEF Has, PeerFields
  <1> QED BY <1>1, <1>3 DEF Shaped

---------------------------------------------------------------------------
(* Steps of one request *)

\* a request goes on: as long as no other one has overlapped it, it is alone
LEMMA ActStep ==
    ASSUME Inv, NEW a \in Actor, op[a] # Idle, NEW o2, Then(a, o2), TableShaped',
           o2 = Idle \/ (Fit(o2) /\ Owned(o2, peers') /\ o2.crowd = op[a].crowd)
    PROVE  Inv'
  <1>1. op' = [op EXCEPT ![a] = o2] BY DEF Then
  <1>2. op' = [x \in Actor |-> op'[x]] BY <1>1 DEF Inv
  <1>3. op'[a] = o2 /\ \A x \in Actor \ {a} : op'[x] = op[x] BY <1>1 DEF Inv
  <1>4. ASSUME NEW x \in Actor PROVE Proper(op'[x], peers')
    <2>1. CASE x = a BY <1>3, <2>1 DEF Proper
    <2>2. CASE x # a
      <3>1. op'[x] = op[x] BY <1>3, <2>2
      <3>2. op[x] # Idle => op[x].crowd BY <2>2 DEF Inv
      <3>3. op[x] # Idle => Fit(op[x]) BY DEF Inv, Proper
      <3>4. op[x] # Idle => Owned(op[x], peers') BY <3>2 DEF Owned
      <3> QED BY <3>1, <3>3, <3>4 DEF Proper
    <2> QED BY <2>1, <2>2
  <1>5. ASSUME NEW x \in Actor, op'[x] # Idle, ~ op'[x].crowd, NEW y \in Actor \ {x}
        PROVE  op'[y] = Idle
    <2>1. CASE x = a
      <3>1. ~ op[a].crowd BY <1>3, <1>5, <2>1
      <3> QED BY <1>3, <2>1, <3>1 DEF Inv
    <2>2. CASE x # a
      <3>1. op[x] # Idle /\ ~ op[x].crowd BY <1>3, <1>5, <2>2
      <3> QED BY <2>2, <3>1 DEF Inv
    <2> QED BY <2>1, <2>2
  <1> QED BY <1>2, <1>4, <1>5 DEF Inv

\* ... without changing the table
LEMMA QuietStep ==
    ASSUME Inv, NEW a \in Actor, op[a] # Idle, NEW o2, Then(a, o2), UNCHANGED peers,
           o2 = Idle \/ (Fit(o2) /\ Owned(o2, peers) /\ o2.crowd = op[a].crowd)
    PROVE  Inv' /\ OwnSteps
  <1>1. TableShaped' BY DEF Inv, TableShaped
  <1>2. Inv' BY <1>1, ActStep
  <1> QED BY <1>2 DEF OwnSteps, OwnStep

\* a request begins: every other one under way has been overlapped
LEMMA BeginStep ==
    ASSUME Inv, NEW a \in Actor, NEW rec, Begin(a, rec), Fit(rec),
           ~ rec.ctx.admin => /\ TodoOwned(rec, peers) /\ OldOwned(rec, peers)
                              /\ RowOwned(rec, peers) /\ IdFree(rec, peers)
    PROVE  Inv' /\ OwnSteps
  <1>1. UNCHANGED peers BY DEF Begin
  <1> DEFINE new == [rec EXCEPT !.crowd = Crowded(a)]
  <1>2. op' = [x \in Actor |-> IF x = a THEN new
                              ELSE IF Running(x) THEN [op[x] EXCEPT !.crowd = TRUE] ELSE op[x]]
    BY DEF Begin
  <1>3. ASSUME NEW o, Fit(o), NEW c, NEW o2, o2 = [o EXCEPT !.crowd = c]
        PROVE  /\ Fit(o2) /\ o2.crowd = c /\ o2.ctx = o.ctx
               /\ TodoOwned(o, peers) => TodoOwned(o2, peers)
               /\ OldOwned(o, peers) => OldOwned(o2, peers)
               /\ RowOwned(o, peers) => RowOwned(o2, peers)
               /\ IdFree(o, peers) => IdFree(o2, peers)
    <2>1. /\ Has(o2, OpFields) /\ o2.crowd = c /\ o2.ctx = o.ctx /\ o2.kind = o.kind
          /\ o2.pos = o.pos /\ o2.row = o.row /\ o2.old = o.old /\ o2.todo = o.todo
          /\ o2.owned = o.owned
      BY <1>3 DEF Fit, Has, OpFields
    <2> QED BY <1>3, <2>1 DEF Fit, TodoOwned, OldOwned, RowOwned, IdFree
  <1>4. Fit(new) /\ (new.crowd <=> Crowded(a)) BY <1>3
  <1>5. Owned(new, peers) BY <1>3 DEF Owned
  <1> HIDE DEF new
  <1>6. ASSUME NEW x \in Actor \ {a}, Running(x)
        PROVE  op'[x] # Idle => Fit(op'[x]) /\ op'[x].crowd /\ Owned(op'[x], peers)
    <2>1. op'[x] = [op[x] EXCEPT !.crowd = TRUE] BY <1>2, <1>6
    <2>2. Fit(op[x]) BY <1>6 DEF Inv, Proper, Running
    <2>3. Fit(op'[x]) /\ op'[x].crowd = TRUE BY <1>3, <2>1, <2>2
    <2> QED BY <2>3 DEF Owned
  <1>7. ASSUME NEW x \in Actor \ {a}, ~ Running(x) PROVE op'[x] = Idle
    BY <1>2, <1>7 DEF Running
  <1>8. op'[a] = new BY <1>2
  <1>9. \A x \in Actor : Proper(op'[x], peers')
    BY <1>1, <1>4, <1>5, <1>6, <1>7, <1>8 DEF Proper
  <1>10. ASSUME NEW x \in Actor, op'[x] # Idle, ~ op'[x].crowd, NEW y \in Actor \ {x}
         PROVE  op'[y] = Idle
    <2>1. x = a BY <1>6, <1>7, <1>10
    <2>2. ~ Crowded(a) BY <1>4, <1>8, <1>10, <2>1
    <2> QED BY <1>7, <2>1, <2>2 DEF Crowded
  <1>11. op' = [x \in Actor |-> op'[x]] BY <1>2
  <1>12. TableShaped' BY <1>1 DEF Inv, TableShaped
  <1> QED BY <1>1, <1>9, <1>10, <1>11, <1>12 DEF Inv, OwnSteps, OwnStep

\* the checks of an update find the peer of the caller (UpdatePeer)
LEMMA UpdateChecked ==
    ASSUME TableShaped, NEW o, Has(o, OpFields), o.row = NoPeer \/ Shaped(o.row),
           o.kind \notin {"bulkDelete", "multiple", "default"},
           o.kind \in {"bulkEnable", "bulkDisable"} => o.todo \subseteq Key,
           NEW k \in Key, NEW form, Shaped(form), form.id = k, k \notin o.todo,
           ~ o.ctx.admin /\ ~ o.crowd =>
              TodoOwned(o, peers) /\ (peers[k].exists /\ peers[k].owner = o.ctx.id => k \in o.owned)
    PROVE  LET o2 == UpdatePeer(o, form)
           IN  Fit(o2) /\ Owned(o2, peers) /\ o2.crowd = o.crowd
  <1> DEFINE o2 == UpdatePeer(o, form)
             new == IF o.ctx.admin THEN form ELSE OverwriteUserEditableFields(peers[k], form)
             row == [new EXCEPT !.id = new.pub]
  <1>1. CASE ~ UpdateAllowed(o.ctx, form) \/ ~ KeyIsFree(new.pub, k)
    <2>1. o2 = [o EXCEPT !.pos = "error"] BY <1>1 DEF UpdatePeer
    <2> HIDE DEF o2
    <2>2. /\ Has(o2, OpFields) /\ o2.crowd = o.crowd /\ o2.ctx = o.ctx /\ o2.kind = o.kind
          /\ o2.pos = "error" /\ o2.row = o.row /\ o2.todo = o.todo /\ o2.owned = o.owned
      BY <2>1 DEF Has, OpFields
    <2>3. Fit(o2) BY <2>2 DEF Fit
    <2>4. Owned(o2, peers) BY <2>2 DEF Owned, TodoOwned, OldOwned, RowOwned, IdFree
    <2>5. Fit(o2) /\ Owned(o2, peers) /\ o2.crowd = o.crowd BY <2>2, <2>3, <2>4
    <2> QED BY <2>5 DEF o2
  <1>2. CASE UpdateAllowed(o.ctx, form) /\ KeyIsFree(new.pub, k)
    <2> DEFINE p == IF new.pub # k THEN "reread" ELSE "save"
               ks == {k, new.pub}
    <2>1. o2 = [o EXCEPT !.pos = p, !.old = k, !.row = row, !.keys = ks] BY <1>2 DEF UpdatePeer
    <2>2. peers[k].exists /\ (o.ctx.admin \/ o.ctx.id = peers[k].owner)
      BY <1>2 DEF UpdateAllowed, ValidateUserAccessRights
    <2>3. Shaped(peers[k]) BY <2>2, TableExists
    <2>4. /\ Shaped(new)
          /\ ~ o.ctx.admin => new.owner = peers[k].owner /\ new.addr = peers[k].addr
      BY <2>3, OverwriteFacts
    <2>5. new.pub = k \/ ~ peers[new.pub].exists BY <1>2 DEF KeyIsFree
    <2> HIDE DEF new
    <2>6. /\ Shaped(row) /\ row.id = new.pub /\ row.owner = new.owner /\ row.addr = new.addr
      <3>1. /\ Has(row, PeerFields) /\ row.exists = TRUE /\ row.id = new.pub
            /\ row.pub = new.pub /\ row.owner = new.owner /\ row.addr = new.addr
            /\ new.pub \in Key
        BY <2>4 DEF Shaped, Has, PeerFields
      <3> QED BY <3>1 DEF Shaped
    <2>7. p \in {"reread", "save"} /\ (p = "save" <=> row.id = k) BY <2>6
    <2> HIDE DEF row, p, ks, o2
    <2>8. /\ Has(o2, OpFields) /\ o2.crowd = o.crowd /\ o2.ctx = o.ctx /\ o2.kind = o.kind
          /\ o2.pos = p /\ o2.row = row /\ o2.old = k /\ o2.todo = o.todo /\ o2.owned = o.owned
      BY <2>1 DEF Has, OpFields
    <2>9. Fit(o2) BY <2>6, <2>7, <2>8 DEF Fit
    <2>10. ASSUME ~ o2.ctx.admin, ~ o2.crowd
           PROVE  /\ TodoOwned(o2, peers) /\ OldOwned(o2, peers)
                  /\ RowOwned(o2, peers) /\ IdFree(o2, peers)
      <3>1. /\ TodoOwned(o, peers) /\ peers[k].owner = o.ctx.id /\ k \in o.owned
            /\ row.owner = o.ctx.id /\ row.addr = peers[k].addr
        BY <2>2, <2>4, <2>6, <2>8, <2>10
      <3>2. TodoOwned(o2, peers) BY <2>8, <3>1 DEF TodoOwned
      <3>3. OldOwned(o2, peers) BY <2>2, <2>8, <3>1 DEF OldOwned
      <3>4. row.id \notin o.todo BY <2>5, <2>6, <3>1 DEF TodoOwned
      <3>5. RowOwned(o2, peers)
        <4>1. CASE row.id = k BY <2>7, <2>8, <3>1, <3>4, <4>1 DEF RowOwned
        <4>2. CASE row.id # k BY <2>5, <2>6, <2>8, <3>1, <3>4, <4>2 DEF RowOwned
        <4> QED BY <4>1, <4>2
      <3>6. IdFree(o2, peers) BY <2>7, <2>8 DEF IdFree
      <3> QED BY <3>2, <3>3, <3>5, <3>6
    <2>11. Owned(o2, peers) BY <2>10 DEF Owned
    <2>12. Fit(o2) /\ Owned(o2, peers) /\ o2.crowd = o.crowd BY <2>8, <2>9, <2>11
    <2> QED BY <2>12 DEF o2
  <1> QED BY <1>1, <1>2

---------------------------------------------------------------------------
(* Requests that begin *)

\* a request for a new peer, whose identifier nobody has
LEMMA BeginCreate ==
    ASSUME Inv, NEW a \in Actor, NEW rec, Begin(a, rec), Has(rec, OpFields),
           rec.kind = "create", rec.pos = "prepare", rec.todo = {},
           Shaped(rec.row), ~ peers[rec.row.id].exists
    PROVE  Inv' /\ OwnSteps
  <1>1. Fit(rec) BY DEF Fit
  <1>2. TodoOwned(rec, peers) /\ OldOwned(rec, peers) /\ RowOwned(rec, peers) /\ IdFree(rec, peers)
    BY DEF TodoOwned, OldOwned, RowOwned, IdFree
  <1> QED BY <1>1, <1>2, BeginStep

\* what a client makes of a peer it was shown
LEMMA EditFacts ==
    ASSUME Inv, NEW k \in Key, k \in Existing, NEW form, form \in Edits(k),
           NEW sent, sent = [form EXCEPT !.auto = FALSE]
    PROVE  Shaped(sent) /\ sent.id = k /\ sent.auto = FALSE
  <1> DEFINE f == Shown(peers[k])
  <1>0. peers[k].exists BY DEF Existing
  <1>1. Shaped(peers[k]) /\ peers[k].id = k BY <1>0, TableExists DEF Inv
  <1>2. /\ Has(f, PeerFields) /\ f.exists = TRUE /\ f.id = k /\ f.pub \in Key
    BY <1>1 DEF Shown, Shaped, Has, PeerFields
  <1>3. SentKeys \subseteq Key BY DEF SentKeys
  <1>4. \/ \E u, d : form = [f EXCEPT !.owner = u, !.disabled = d]
        \/ \E p \in SentKeys : form = [f EXCEPT !.pub = p, !.private = TRUE]
    <2> DEFINE A == {[f EXCEPT !.owner = e[1], !.disabled = e[2]] : e \in User \X BOOLEAN}
               B == {[f EXCEPT !.pub = p, !.private = TRUE] : p \in SentKeys}
    <2>1. form \in Edits(k) OBVIOUS
    <2>2. Edits(k) = A \union B BY DEF Edits
    <2> HIDE DEF f
    <2>3. form \in A => \E u, d : form = [f EXCEPT !.owner = u, !.disabled = d]
      BY Zenon
    <2>4. form \in B => \E p \in SentKeys : form = [f EXCEPT !.pub = p, !.private = TRUE]
      BY Zenon
    <2> HIDE DEF A, B
    <2>5. form \in A \/ form \in B BY <2>1, <2>2
    <2> QED BY <2>3, <2>4, <2>5, Zenon
  <1> HIDE DEF f
  <1>5. Has(form, PeerFields) /\ form.exists = TRUE /\ form.id = k /\ form.pub \in Key
    <2>1. ASSUME NEW u, NEW d, form = [f EXCEPT !.owner = u, !.disabled = d]
          PROVE  Has(form, PeerFields) /\ form.exists = TRUE /\ form.id = k /\ form.pub \in Key
      BY <1>2, <2>1 DEF Has, PeerFields
    <2>2. ASSUME NEW p \in SentKeys, form = [f EXCEPT !.pub = p, !.private = TRUE]
          PROVE  Has(form, PeerFields) /\ form.exists = TRUE /\ form.id = k /\ form.pub \in Key
      BY <1>2, <1>3, <2>2 DEF Has, PeerFields
    <2> QED BY <1>4, <2>1, <2>2
  <1>6. /\ Has(sent, PeerFields) /\ sent.exists = TRUE /\ sent.id = form.id
        /\ sent.pub = form.pub /\ sent.auto = FALSE
    BY <1>5 DEF Has, PeerFields
  <1> QED BY <1>5, <1>6 DEF Shaped

LEMMA BeginsKeep == ASSUME Inv, NEW a \in Actor, Begins(a) PROVE Inv' /\ OwnSteps
  <1> USE DEF Caller, Admin
  <1>1. CASE HandleCreatePost(a)
    <2>1. PICK ctx \in Caller, form \in Form :
            /\ CreateAllowed(ctx, NewDomainPeer(form))
            /\ Begin(a, [Request("create", "prepare", ctx) EXCEPT
                           !.row = NewDomainPeer(form), !.keys = {form.id, form.pub},
                           !.chosen = ctx.admin /\ form.private])
      BY <1>1 DEF HandleCreatePost
    <2> DEFINE q == Request("create", "prepare", ctx)
               row == NewDomainPeer(form)
               ks == {form.id, form.pub}
               ch == ctx.admin /\ form.private
               rec == [q EXCEPT !.row = row, !.keys = ks, !.chosen = ch]
    <2>2. Begin(a, rec) BY <2>1
    <2>3. Shaped(row) /\ ~ peers[row.id].exists BY <2>1, FormFacts DEF CreateAllowed
    <2>4. Has(q, OpFields) /\ q.kind = "create" /\ q.pos = "prepare" /\ q.todo = {}
      BY RequestFacts
    <2> HIDE DEF q, row, ks, ch
    <2>5. /\ Has(rec, OpFields) /\ rec.kind = "create" /\ rec.pos = "prepare" /\ rec.todo = {}
          /\ rec.row = row
      BY <2>4 DEF Has, OpFields
    <2> HIDE DEF rec
    <2> QED BY <2>2, <2>3, <2>5, BeginCreate
  <1>2. CASE HandleCreatePostV1(a)
    <2>1. PICK form \in Form :
            /\ CreateAllowed(Admin, NewDomainPeerV1(form))
            /\ Begin(a, [Request("create", "prepare", Admin) EXCEPT
                           !.row = NewDomainPeerV1(form), !.keys = {form.id},
                           !.chosen = form.private])
      BY <1>2 DEF HandleCreatePostV1
    <2> DEFINE q == Request("create", "prepare", Admin)
               row == NewDomainPeerV1(form)
               ks == {form.id}
               ch == form.private
               rec == [q EXCEPT !.row = row, !.keys = ks, !.chosen = ch]
    <2>2. Begin(a, rec) BY <2>1
    <2>3. Shaped(row) /\ ~ peers[row.id].exists BY <2>1, FormFacts DEF CreateAllowed
    <2>4. Has(q, OpFields) /\ q.kind = "create" /\ q.pos = "prepare" /\ q.todo = {}
      BY RequestFacts
    <2> HIDE DEF q, row, ks, ch
    <2>5. /\ Has(rec, OpFields) /\ rec.kind = "create" /\ rec.pos = "prepare" /\ rec.todo = {}
          /\ rec.row = row
      BY <2>4 DEF Has, OpFields
    <2> HIDE DEF rec
    <2> QED BY <2>2, <2>3, <2>5, BeginCreate
  <1>3. CASE HandleNewPeerPost(a)
    <2>1. PICK ctx \in Caller, owner \in User : NewPeer(a, ctx, owner)
      BY <1>3 DEF HandleNewPeerPost
    <2>2. PICK k \in FreshKeys, given \in {TRUE, FALSE} :
            LET form == [PreparePeer(ctx, k) EXCEPT !.owner = owner, !.private = ~ given]
            IN  Begin(a, [Request("create", "prepare", ctx) EXCEPT !.row = form, !.keys = {k},
                            !.made = IF given THEN {} ELSE {k}])
      BY <2>1 DEF NewPeer
    <2> DEFINE q == Request("create", "prepare", ctx)
               p == PreparePeer(ctx, k)
               g == ~ given
               row == [p EXCEPT !.owner = owner, !.private = g]
               ks == {k}
               md == IF given THEN {} ELSE {k}
               rec == [q EXCEPT !.row = row, !.keys = ks, !.made = md]
    <2>3. Begin(a, rec) BY <2>2
    <2>4. k \in Key /\ ~ peers[k].exists BY DEF FreshKeys
    <2>5. Shaped(p) /\ p.id = k BY <2>4, PreparedFacts
    <2>6. Has(q, OpFields) /\ q.kind = "create" /\ q.pos = "prepare" /\ q.todo = {}
      BY RequestFacts
    <2> HIDE DEF q, p, g, ks, md
    <2>7. Shaped(row) /\ row.id = k
      <3>1. Has(row, PeerFields) /\ row.exists = TRUE /\ row.id = p.id /\ row.pub = p.pub
        BY <2>5 DEF Shaped, Has, PeerFields
      <3> QED BY <2>5, <3>1 DEF Shaped
    <2> HIDE DEF row
    <2>8. /\ Has(rec, OpFields) /\ rec.kind = "create" /\ rec.pos = "prepare" /\ rec.todo = {}
          /\ rec.row = row
      BY <2>6 DEF Has, OpFields
    <2> HIDE DEF rec
    <2> QED BY <2>3, <2>4, <2>7, <2>8, BeginCreate
  <1>4. CASE HandleCreateMultiplePost(a)
    <2> DEFINE q == Request("multiple", "next", Admin)
               rec == [q EXCEPT !.todo = User]
    <2>1. Begin(a, rec) BY <1>4 DEF HandleCreateMultiplePost
    <2>2. /\ Has(q, OpFields) /\ q.kind = "multiple" /\ q.pos = "next" /\ q.ctx = Admin
          /\ q.row = NoPeer
      BY RequestFacts
    <2> HIDE DEF q
    <2>3. /\ Has(rec, OpFields) /\ rec.kind = "multiple" /\ rec.pos = "next"
          /\ rec.ctx = Admin /\ rec.row = NoPeer
      BY <2>2 DEF Has, OpFields
    <2> HIDE DEF rec
    <2>4. rec.ctx.admin BY <2>3
    <2>5. Fit(rec) BY <2>3, <2>4 DEF Fit
    <2> QED BY <2>1, <2>4, <2>5, BeginStep
  <1>5. ASSUME NEW ctx, NEW k \in Key, NEW form, form \in Edits(k), k \in Existing,
               NEW sent, sent = [form EXCEPT !.auto = FALSE],
               UpdatePeer(Request("update", "read", ctx), sent).pos # "error",
               Begin(a, UpdatePeer(Request("update", "read", ctx), sent))
        PROVE  Inv' /\ OwnSteps
    <2> DEFINE q == Request("update", "read", ctx)
               rec == UpdatePeer(q, sent)
    <2>1. /\ Has(q, OpFields) /\ q.kind = "update" /\ q.todo = {} /\ q.row = NoPeer /\ q.ctx = ctx
          /\ q.owned = UserPeers(ctx.id)
      BY RequestFacts
    <2>2. peers[k].exists BY <1>5 DEF Existing
    <2>4. Shaped(sent) /\ sent.id = k BY <1>5, EditFacts
    <2>5. TodoOwned(q, peers) BY <2>1 DEF TodoOwned
    <2>6. peers[k].owner = ctx.id => k \in q.owned BY <2>1, <2>2, OwnedFacts
    <2> HIDE DEF q
    <2>7. Fit(rec) /\ Owned(rec, peers) /\ rec.crowd = q.crowd
      BY <2>1, <2>4, <2>5, <2>6, UpdateChecked DEF Inv
    <2>8. q.crowd = FALSE BY DEF q, Request
    <2>9. Begin(a, rec) BY <1>5 DEF q
    <2> HIDE DEF rec
    <2> QED BY <2>7, <2>8, <2>9, BeginStep DEF Owned
  <1>6. CASE HandleUpdatePut(a) \/ HandleUpdatePutV1(a)
    <2>1. ASSUME NEW ctx, NEW k \in Existing, NEW form, form \in Edits(k),
                 UpdatePeer(Request("update", "read", ctx), [form EXCEPT !.auto = FALSE]).pos
                   # "error",
                 Begin(a, UpdatePeer(Request("update", "read", ctx), [form EXCEPT !.auto = FALSE]))
          PROVE  Inv' /\ OwnSteps
      <3>1. k \in Key BY DEF Existing
      <3> QED BY <1>5, <2>1, <3>1
    <2>2. CASE HandleUpdatePut(a)
      <3>1. PICK ctx \in Caller, k \in Existing : \E form \in Edits(k) :
              LET rec == UpdatePeer(Request("update", "read", ctx), NewDomainPeer(form))
              IN  rec.pos # "error" /\ Begin(a, rec)
        BY <2>2, Zenon DEF HandleUpdatePut
      <3> QED BY <2>1, <3>1 DEF NewDomainPeer
    <2>3. CASE HandleUpdatePutV1(a)
      <3>1. PICK k \in Existing : \E form \in Edits(k) :
              LET rec == UpdatePeer(Request("update", "read", Admin), NewDomainPeerV1(form))
              IN  rec.pos # "error" /\ Begin(a, rec)
        BY <2>3, Zenon DEF HandleUpdatePutV1
      <3> QED BY <2>1, <3>1 DEF NewDomainPeerV1
    <2> QED BY <1>6, <2>2, <2>3
  <1>7. ASSUME NEW ctx, DeleteFor(a, ctx) PROVE Inv' /\ OwnSteps
    <2>1. PICK k \in Key :
            /\ DeleteAllowed(ctx, k)
            /\ Begin(a, [Request("delete", "unlink", ctx) EXCEPT !.old = k, !.keys = {k}])
      BY <1>7 DEF DeleteFor
    <2> DEFINE q == Request("delete", "unlink", ctx)
               ks == {k}
               rec == [q EXCEPT !.old = k, !.keys = ks]
    <2>2. Begin(a, rec) BY <2>1
    <2>3. /\ Has(q, OpFields) /\ q.kind = "delete" /\ q.pos = "unlink" /\ q.ctx = ctx
          /\ q.row = NoPeer /\ q.todo = {} /\ q.owned = UserPeers(ctx.id)
      BY RequestFacts
    <2>4. peers[k].exists /\ (ctx.admin \/ ctx.id = peers[k].owner)
      BY <2>1 DEF DeleteAllowed, ValidateUserAccessRights
    <2> HIDE DEF q, ks
    <2>5. /\ Has(rec, OpFields) /\ rec.kind = "delete" /\ rec.pos = "unlink" /\ rec.ctx = ctx
          /\ rec.row = NoPeer /\ rec.todo = {} /\ rec.owned = UserPeers(ctx.id) /\ rec.old = k
      BY <2>3 DEF Has, OpFields
    <2> HIDE DEF rec
    <2>6. Fit(rec) BY <2>5 DEF Fit
    <2>7. ~ ctx.admin => k \in rec.owned BY <2>4, <2>5, OwnedFacts
    <2>8. ~ ctx.admin => TodoOwned(rec, peers) /\ OldOwned(rec, peers)
                         /\ RowOwned(rec, peers) /\ IdFree(rec, peers)
      BY <2>4, <2>5, <2>7 DEF TodoOwned, OldOwned, RowOwned, IdFree
    <2> QED BY <2>2, <2>5, <2>6, <2>8, BeginStep
  <1>8. CASE HandleDelete(a) \/ HandleDeleteV1(a) BY <1>7, <1>8 DEF HandleDelete, HandleDeleteV1
  <1>9. ASSUME NEW kind \in {"bulkEnable", "bulkDisable", "bulkDelete"}, HandleBulkPost(a, kind)
        PROVE  Inv' /\ OwnSteps
    <2>1. PICK ctx \in Caller, ks \in SUBSET Existing :
            Begin(a, [Request(kind, "next", ctx) EXCEPT !.todo = ks, !.keys = ks])
      BY <1>9 DEF HandleBulkPost
    <2> DEFINE q == Request(kind, "next", ctx)
               rec == [q EXCEPT !.todo = ks, !.keys = ks]
    <2>2. Begin(a, rec) BY <2>1
    <2>3. /\ Has(q, OpFields) /\ q.kind = kind /\ q.pos = "next" /\ q.ctx = ctx
          /\ q.row = NoPeer /\ q.owned = UserPeers(ctx.id)
      BY RequestFacts
    <2> HIDE DEF q
    <2>4. /\ Has(rec, OpFields) /\ rec.kind = kind /\ rec.pos = "next" /\ rec.ctx = ctx
          /\ rec.row = NoPeer /\ rec.todo = ks /\ rec.owned = UserPeers(ctx.id)
      BY <2>3 DEF Has, OpFields
    <2> HIDE DEF rec
    <2>5. Fit(rec) BY <1>9, <2>4 DEF Fit, Existing
    <2>6. TodoOwned(rec, peers) BY <2>1, <2>4 DEF TodoOwned, UserPeers, Existing
    <2>7. OldOwned(rec, peers) /\ RowOwned(rec, peers) /\ IdFree(rec, peers)
      BY <2>4 DEF OldOwned, RowOwned, IdFree
    <2> QED BY <2>2, <2>5, <2>6, <2>7, BeginStep
  <1>10. CASE HandleBulkEnable(a) \/ HandleBulkDisable(a) \/ HandleBulkDelete(a)
    BY <1>9, <1>10 DEF HandleBulkEnable, HandleBulkDisable, HandleBulkDelete
  <1> QED BY <1>1, <1>2, <1>3, <1>4, <1>6, <1>8, <1>10 DEF Begins

\* the handlers of events act for the system
LEMMA HandlersKeep ==
    ASSUME Inv, \/ \E u \in User : HandleUserCreationEvent(u) \/ HandleUserLoginEvent(u)
                \/ HandleInterfaceCreatedEvent
    PROVE  Inv' /\ OwnSteps
  <1> DEFINE q == Request("default", "next", System)
  <1>1. /\ Has(q, OpFields) /\ q.kind = "default" /\ q.pos = "next" /\ q.ctx = System
        /\ q.row = NoPeer
    BY RequestFacts
  <1>2. System.admin BY DEF System
  <1>3. ASSUME NEW rec, Has(rec, OpFields), rec.kind = "default", rec.pos = "next",
               rec.ctx = System, rec.row = NoPeer, NEW a \in Actor, Begin(a, rec)
        PROVE  Inv' /\ OwnSteps
    <2>1. Fit(rec) BY <1>2, <1>3 DEF Fit
    <2> QED BY <1>2, <1>3, <2>1, BeginStep
  <1>4. "created" \in Actor /\ "login" \in Actor /\ "interface" \in Actor BY DEF Actor, Handler
  <1>5. CASE HandleInterfaceCreatedEvent
    <2> DEFINE rec == [q EXCEPT !.todo = User]
    <2>1. Begin("interface", rec) BY <1>5 DEF HandleInterfaceCreatedEvent, DefaultForAll
    <2> HIDE DEF q
    <2>2. /\ Has(rec, OpFields) /\ rec.kind = "default" /\ rec.pos = "next"
          /\ rec.ctx = System /\ rec.row = NoPeer
      BY <1>1 DEF Has, OpFields
    <2> HIDE DEF rec
    <2> QED BY <1>3, <1>4, <2>1, <2>2
  <1>6. ASSUME NEW u \in User, HandleUserCreationEvent(u) \/ HandleUserLoginEvent(u)
        PROVE  Inv' /\ OwnSteps
    <2> DEFINE us == {u}
               rec == [q EXCEPT !.todo = us, !.user = u]
    <2>1. Begin("created", rec) \/ Begin("login", rec)
      BY <1>6 DEF HandleUserCreationEvent, HandleUserLoginEvent, LockUser, DefaultFor
    <2> HIDE DEF q, us
    <2>2. /\ Has(rec, OpFields) /\ rec.kind = "default" /\ rec.pos = "next"
          /\ rec.ctx = System /\ rec.row = NoPeer
      BY <1>1 DEF Has, OpFields
    <2> HIDE DEF rec
    <2> QED BY <1>3, <1>4, <2>1, <2>2
  <1> QED BY <1>5, <1>6

---------------------------------------------------------------------------
(* Requests that go on *)

\* a position that the invariant asks nothing of
Plain(p) == p \notin {"prepare", "reread", "unlink", "remove", "save"}

LEMMA OnwardIsPlain == ASSUME NEW a, NEW ok PROVE Plain(Onward(a, ok))
  BY DEF Plain, Onward

\* a request that only gets to a plain position
LEMMA PlainStep ==
    ASSUME Inv, NEW a \in Actor, op[a] # Idle, NEW p, Plain(p), UNCHANGED peers,
           NEW t, t \subseteq op[a].todo, NEW f,
           Then(a, [op[a] EXCEPT !.pos = p, !.todo = t, !.failed = f])
    PROVE  Inv' /\ OwnSteps
  <1> DEFINE o == op[a]
             o2 == [o EXCEPT !.pos = p, !.todo = t, !.failed = f]
  <1>1. Fit(o) /\ Owned(o, peers) BY DEF Inv, Proper
  <1>2. /\ Has(o2, OpFields) /\ o2.crowd = o.crowd /\ o2.ctx = o.ctx /\ o2.kind = o.kind
        /\ o2.pos = p /\ o2.row = o.row /\ o2.todo = t /\ o2.owned = o.owned
    BY <1>1 DEF Fit, Has, OpFields
  <1>3. Then(a, o2) OBVIOUS
  <1> HIDE DEF o2
  <1>4. Fit(o2) BY <1>1, <1>2 DEF Fit, Plain
  <1>5. Owned(o2, peers)
    BY <1>1, <1>2 DEF Owned, TodoOwned, OldOwned, RowOwned, IdFree, Plain
  <1> QED BY <1>2, <1>3, <1>4, <1>5, QuietStep

\* ... unchanged otherwise
LEMMA PlainThen ==
    ASSUME Inv, NEW a \in Actor, op[a] # Idle, NEW p, Plain(p), UNCHANGED peers,
           Then(a, [op[a] EXCEPT !.pos = p])
    PROVE  Inv' /\ OwnSteps
  <1> DEFINE o == op[a]
  <1>1. Has(o, OpFields) BY DEF Inv, Proper, Fit
  <1> DEFINE t == o.todo
             f == o.failed
  <1>2. [o EXCEPT !.pos = p] = [o EXCEPT !.pos = p, !.todo = t, !.failed = f]
    BY <1>1 DEF Has, OpFields
  <1>3. Then(a, [op[a] EXCEPT !.pos = p, !.todo = t, !.failed = f]) BY <1>2
  <1>4. t \subseteq op[a].todo OBVIOUS
  <1> HIDE DEF t, f
  <1> QED BY <1>3, <1>4, PlainStep

LEMMA GoesOnKeep ==
    ASSUME Inv, NEW a \in Actor, op[a] # Idle, GoesOn(a) PROVE Inv' /\ OwnSteps
  <1> DEFINE o == op[a]
  <1>1. Fit(o) /\ Owned(o, peers) /\ Has(o, OpFields) /\ TableShaped
    BY DEF Inv, Proper, Fit
  <1>2. ASSUME NEW u \in o.todo, NEW k \in FreshKeys, NEW row, Shaped(row), row.id = k,
               o.kind \in {"multiple", "default"}, NEW td, td = o.todo \ {u},
               UNCHANGED peers,
               NEW ks, NEW o2, o2 = [o EXCEPT !.pos = "save", !.todo = td, !.row = row,
                                              !.keys = ks, !.made = ks], Then(a, o2)
        PROVE  Inv' /\ OwnSteps
    <2>1. /\ Has(o2, OpFields) /\ o2.crowd = o.crowd /\ o2.ctx = o.ctx /\ o2.kind = o.kind
          /\ o2.pos = "save" /\ o2.row = row
      BY <1>1, <1>2 DEF Has, OpFields
    <2>2. Fit(o2) /\ Owned(o2, peers) BY <1>1, <1>2, <2>1 DEF Fit, Owned
    <2> QED BY <1>2, <2>1, <2>2, QuietStep
  <1>3. ASSUME NEW ctx, NEW k \in Key, NEW u, NEW row,
               row = [PreparePeer(ctx, k) EXCEPT !.owner = u]
               \/ row = [PreparePeer(ctx, k) EXCEPT !.owner = u, !.auto = TRUE]
        PROVE  Shaped(row) /\ row.id = k
    <2> DEFINE p == PreparePeer(ctx, k)
    <2>1. Shaped(p) /\ p.id = k BY PreparedFacts
    <2>2. row = [p EXCEPT !.owner = u] \/ row = [p EXCEPT !.owner = u, !.auto = TRUE] BY <1>3
    <2> HIDE DEF p
    <2>3. Has(row, PeerFields) /\ row.exists = TRUE /\ row.id = p.id /\ row.pub = p.pub
      BY <2>1, <2>2 DEF Shaped, Has, PeerFields
    <2> QED BY <2>1, <2>3 DEF Shaped
  <1>4. CASE PrepareCreated(a)
    <2>1. o.pos = "prepare" /\ UNCHANGED peers /\ Shaped(o.row)
      BY <1>1, <1>4 DEF PrepareCreated, KeepStored, Fit
    <2>2. CASE /\ o.ctx.admin /\ o.row.private
               /\ Then(a, [o EXCEPT !.pos = "save", !.row.id = o.row.pub, !.keys = {o.row.pub}])
      <3> DEFINE r == o.row
                 row == [r EXCEPT !.id = r.pub]
                 ks == {r.pub}
                 o2 == [o EXCEPT !.pos = "save", !.row = row, !.keys = ks]
      <3>1. Shaped(row)
        <4>1. /\ Has(row, PeerFields) /\ row.exists = TRUE /\ row.id = r.pub /\ row.pub = r.pub
          BY <2>1 DEF Shaped, Has, PeerFields
        <4> QED BY <2>1, <4>1 DEF Shaped
      <3>2. Then(a, o2) BY <2>2
      <3> HIDE DEF row, ks
      <3>3. /\ Has(o2, OpFields) /\ o2.crowd = o.crowd /\ o2.ctx = o.ctx /\ o2.kind = o.kind
            /\ o2.pos = "save" /\ o2.row = row /\ o2.todo = o.todo
        BY <1>1 DEF Has, OpFields
      <3> HIDE DEF o2
      <3>4. o.kind # "bulkDelete" BY <1>1, <2>1, ShapedExists DEF Fit
      <3>5. Fit(o2) /\ Owned(o2, peers) BY <1>1, <2>2, <3>1, <3>3, <3>4 DEF Fit, Owned
      <3> QED BY <2>1, <3>2, <3>3, <3>5, QuietStep
    <2>3. CASE /\ ~ (o.ctx.admin /\ o.row.private)
               /\ \E k \in FreshKeys :
                    LET row == OverwriteUserEditableFields(PreparePeer(o.ctx, k), o.row)
                    IN  Then(a, [o EXCEPT !.pos = "save", !.row = row, !.keys = {k, row.id},
                                          !.made = {k}])
      <3>1. PICK k \in FreshKeys :
              LET row == OverwriteUserEditableFields(PreparePeer(o.ctx, k), o.row)
              IN  Then(a, [o EXCEPT !.pos = "save", !.row = row, !.keys = {k, row.id},
                                    !.made = {k}])
        BY <2>3
      <3> DEFINE p == PreparePeer(o.ctx, k)
                 row == OverwriteUserEditableFields(p, o.row)
                 ks == {k, row.id}
                 ms == {k}
                 o2 == [o EXCEPT !.pos = "save", !.row = row, !.keys = ks, !.made = ms]
      <3>2. k \in Key /\ ~ peers[k].exists BY DEF FreshKeys
      <3>3. Shaped(p) /\ p.id = k /\ p.owner = o.ctx.id BY <3>2, PreparedFacts
      <3>4. Then(a, o2) BY <3>1
      <3> HIDE DEF p
      <3>5. Shaped(row) /\ row.owner = o.ctx.id /\ (row.id = k \/ row.id = o.row.id)
        BY <2>1, <3>3, OverwriteFacts
      <3> HIDE DEF row, ks, ms
      <3>6. /\ Has(o2, OpFields) /\ o2.crowd = o.crowd /\ o2.ctx = o.ctx /\ o2.kind = o.kind
            /\ o2.pos = "save" /\ o2.row = row /\ o2.todo = o.todo /\ o2.owned = o.owned
        BY <1>1 DEF Has, OpFields
      <3> HIDE DEF o2
      <3>7. o.kind # "bulkDelete" BY <1>1, <2>1, ShapedExists DEF Fit
      <3>8. Fit(o2) BY <1>1, <3>5, <3>6, <3>7 DEF Fit
      <3>9. ASSUME ~ o2.ctx.admin, ~ o2.crowd
            PROVE  /\ TodoOwned(o2, peers) /\ OldOwned(o2, peers)
                   /\ RowOwned(o2, peers) /\ IdFree(o2, peers)
        <4>1. TodoOwned(o, peers) /\ IdFree(o, peers) BY <1>1, <3>6, <3>9 DEF Owned
        <4>2. TodoOwned(o2, peers) BY <3>6, <4>1 DEF TodoOwned
        <4>3. ~ peers[row.id].exists BY <2>1, <3>2, <3>5, <4>1 DEF IdFree
        <4>4. row.id \notin o.todo BY <4>1, <4>3 DEF TodoOwned
        <4>5. OldOwned(o2, peers) /\ RowOwned(o2, peers) /\ IdFree(o2, peers)
          BY <3>5, <3>6, <4>3, <4>4 DEF OldOwned, RowOwned, IdFree
        <4> QED BY <4>2, <4>5
      <3>10. Owned(o2, peers) BY <3>9 DEF Owned
      <3> QED BY <2>1, <3>4, <3>6, <3>8, <3>10, QuietStep
    <2> QED BY <1>4, <2>2, <2>3 DEF PrepareCreated
  <1>5. CASE CreateNext(a)
    <2>1. PICK u \in o.todo, k \in FreshKeys :
            Then(a, [o EXCEPT !.pos = "save", !.todo = o.todo \ {u}, !.keys = {k}, !.made = {k},
                              !.row = [PreparePeer(Admin, k) EXCEPT !.owner = u]])
      BY <1>5 DEF CreateNext
    <2> DEFINE td == o.todo \ {u}
               ks == {k}
               row == [PreparePeer(Admin, k) EXCEPT !.owner = u]
               o2 == [o EXCEPT !.pos = "save", !.todo = td, !.row = row, !.keys = ks, !.made = ks]
    <2>2. k \in Key BY DEF FreshKeys
    <2>3. Shaped(row) /\ row.id = k
      <3>1. row = [PreparePeer(Admin, k) EXCEPT !.owner = u] OBVIOUS
      <3> HIDE DEF row
      <3> QED BY <1>3, <2>2, <3>1
    <2>4. o.kind \in {"multiple", "default"} /\ UNCHANGED peers
      BY <1>5 DEF CreateNext, KeepStored
    <2>5. Then(a, [o EXCEPT !.pos = "save", !.todo = td, !.keys = ks, !.made = ks, !.row = row])
      BY <2>1
    <2> HIDE DEF row, ks
    <2>6. o2 = [o EXCEPT !.pos = "save", !.todo = td, !.keys = ks, !.made = ks, !.row = row]
      BY <1>1 DEF Has, OpFields
    <2>7. Then(a, o2) BY <2>5, <2>6
    <2>8. td = o.todo \ {u} OBVIOUS
    <2> HIDE DEF td
    <2> QED BY <1>2, <2>3, <2>4, <2>7, <2>8
  <1>6. CASE PrepareDefaultPeer(a)
    <2>1. o.kind \in {"multiple", "default"} /\ UNCHANGED peers
      BY <1>6 DEF PrepareDefaultPeer, KeepStored
    <2>2. PICK u \in o.todo :
            LET n == [o EXCEPT !.todo = @ \ {u}]
            IN  \/ Then(a, [n EXCEPT !.pos = IF n.todo = {} THEN "ok" ELSE "next"])
                \/ \E k \in FreshKeys :
                     Then(a, [n EXCEPT !.pos = "save", !.keys = {k}, !.made = {k},
                                !.row = [PreparePeer(System, k) EXCEPT !.owner = u, !.auto = TRUE]])
      BY <1>6, Zenon DEF PrepareDefaultPeer
    <2> DEFINE td == o.todo \ {u}
               n == [o EXCEPT !.todo = td]
    <2>3. ASSUME NEW p, Plain(p), Then(a, [n EXCEPT !.pos = p]) PROVE Inv' /\ OwnSteps
      <3> DEFINE f == o.failed
      <3>1. td \subseteq o.todo OBVIOUS
      <3> HIDE DEF td
      <3>2. [n EXCEPT !.pos = p] = [o EXCEPT !.pos = p, !.todo = td, !.failed = f]
        BY <1>1 DEF Has, OpFields
      <3>3. Then(a, [o EXCEPT !.pos = p, !.todo = td, !.failed = f]) BY <2>3, <3>2
      <3> HIDE DEF f
      <3> QED BY <2>1, <2>3, <3>1, <3>3, PlainStep
    <2>4. ASSUME NEW k \in FreshKeys, NEW row, NEW ks, Shaped(row), row.id = k,
                 Then(a, [n EXCEPT !.pos = "save", !.keys = ks, !.made = ks, !.row = row])
          PROVE  Inv' /\ OwnSteps
      <3> DEFINE o2 == [o EXCEPT !.pos = "save", !.todo = td, !.row = row, !.keys = ks, !.made = ks]
      <3>1. td = o.todo \ {u} OBVIOUS
      <3> HIDE DEF td
      <3>2. [n EXCEPT !.pos = "save", !.keys = ks, !.made = ks, !.row = row] = o2
        BY <1>1 DEF Has, OpFields
      <3>3. Then(a, o2) BY <2>4, <3>2
      <3> QED BY <1>2, <2>1, <2>4, <3>1, <3>3
    <2>5. CASE Then(a, [n EXCEPT !.pos = IF n.todo = {} THEN "ok" ELSE "next"])
      <3> DEFINE p == IF n.todo = {} THEN "ok" ELSE "next"
      <3>1. Plain(p) BY DEF Plain
      <3>2. Then(a, [n EXCEPT !.pos = p]) BY <2>5
      <3> HIDE DEF p, n
      <3> QED BY <2>3, <3>1, <3>2 DEF n
    <2>6. ASSUME NEW k \in FreshKeys,
                 Then(a, [n EXCEPT !.pos = "save", !.keys = {k}, !.made = {k},
                            !.row = [PreparePeer(System, k) EXCEPT !.owner = u, !.auto = TRUE]])
          PROVE  Inv' /\ OwnSteps
      <3> DEFINE row == [PreparePeer(System, k) EXCEPT !.owner = u, !.auto = TRUE]
                 ks == {k}
      <3>1. k \in Key BY DEF FreshKeys
      <3>2. Shaped(row) /\ row.id = k
        <4> DEFINE q == PreparePeer(System, k)
        <4>1. Shaped(q) /\ q.id = k BY <3>1, PreparedFacts
        <4>2. row = [q EXCEPT !.owner = u, !.auto = TRUE] OBVIOUS
        <4> HIDE DEF q, row
        <4>3. Has(row, PeerFields) /\ row.exists = TRUE /\ row.id = q.id /\ row.pub = q.pub
          BY <4>1, <4>2 DEF Shaped, Has, PeerFields
        <4> QED BY <4>1, <4>3 DEF Shaped
      <3>3. Then(a, [n EXCEPT !.pos = "save", !.keys = ks, !.made = ks, !.row = row]) BY <2>6
      <3> HIDE DEF row, ks
      <3> QED BY <2>4, <3>2, <3>3
    <2> QED BY <2>2, <2>5, <2>6
  <1>7. CASE BulkNext(a)
    <2>1. PICK k \in o.todo :
            LET n == [o EXCEPT !.todo = @ \ {k}]
                row == [peers[k] EXCEPT !.disabled = (o.kind = "bulkDisable")]
            IN  Then(a, IF peers[k].exists /\ ValidateUserAccessRights(n.ctx, peers[k].owner)
                        THEN UpdatePeer(n, row) ELSE [n EXCEPT !.pos = "error"])
      BY <1>7, Zenon DEF BulkNext
    <2> DEFINE td == o.todo \ {k}
               n == [o EXCEPT !.todo = td]
               d == (o.kind = "bulkDisable")
               row == [peers[k] EXCEPT !.disabled = d]
    <2>2. o.kind \in {"bulkEnable", "bulkDisable"} /\ o.pos = "next" /\ UNCHANGED peers
      BY <1>7 DEF BulkNext, KeepStored
    <2>3. td \subseteq o.todo /\ k \notin td OBVIOUS
    <2> HIDE DEF td, d
    <2>4. /\ Has(n, OpFields) /\ n.crowd = o.crowd /\ n.ctx = o.ctx /\ n.kind = o.kind
          /\ n.pos = o.pos /\ n.row = o.row /\ n.todo = td /\ n.owned = o.owned
      BY <1>1 DEF Has, OpFields
    <2>5. CASE Then(a, [n EXCEPT !.pos = "error"])
      <3> DEFINE f == o.failed
      <3>1. [n EXCEPT !.pos = "error"] = [o EXCEPT !.pos = "error", !.todo = td, !.failed = f]
        BY <1>1 DEF Has, OpFields
      <3>2. Then(a, [o EXCEPT !.pos = "error", !.todo = td, !.failed = f]) BY <2>5, <3>1
      <3>3. Plain("error") BY DEF Plain
      <3> HIDE DEF f
      <3> QED BY <2>2, <2>3, <3>2, <3>3, PlainStep
    <2>6. CASE peers[k].exists /\ Then(a, UpdatePeer(n, row))
      <3> DEFINE o2 == UpdatePeer(n, row)
      <3>2. ~ o.ctx.admin /\ ~ o.crowd =>
               TodoOwned(o, peers) /\ (peers[k].owner = o.ctx.id => k \in o.owned)
        BY <1>1 DEF Owned, TodoOwned
      <3>3. ~ n.ctx.admin /\ ~ n.crowd =>
               TodoOwned(n, peers) /\ (peers[k].owner = n.ctx.id => k \in n.owned)
        BY <2>3, <2>4, <3>2 DEF TodoOwned
      <3>4. k \in Key BY <1>1, <2>2 DEF Fit
      <3>5. Shaped(peers[k]) /\ peers[k].id = k BY <1>1, <2>6, <3>4, TableExists
      <3>6. Shaped(row) /\ row.id = k
        <4>1. /\ Has(row, PeerFields) /\ row.exists = TRUE /\ row.id = k
              /\ row.pub = peers[k].pub
          BY <3>5 DEF Shaped, Has, PeerFields
        <4> QED BY <3>4, <3>5, <4>1 DEF Shaped
      <3> HIDE DEF n, row
      <3>7. Fit(o2) /\ Owned(o2, peers) /\ o2.crowd = n.crowd
        BY <1>1, <2>2, <2>3, <2>4, <3>3, <3>4, <3>6, UpdateChecked DEF Fit
      <3> HIDE DEF o2
      <3>8. Then(a, o2) BY <2>6 DEF o2
      <3> QED BY <2>2, <2>4, <3>7, <3>8, QuietStep
    <2> QED BY <2>1, <2>5, <2>6 DEF td, d
  <1>8. CASE BulkDelete(a)
    <2>1. PICK k \in o.todo :
            LET n == [o EXCEPT !.todo = @ \ {k}]
            IN  Then(a, IF DeleteAllowed(n.ctx, k) THEN [n EXCEPT !.pos = "unlink", !.old = k]
                        ELSE [n EXCEPT !.pos = "error"])
      BY <1>8, Zenon DEF BulkDelete
    <2> DEFINE td == o.todo \ {k}
               n == [o EXCEPT !.todo = td]
    <2>2. o.kind = "bulkDelete" /\ UNCHANGED peers
      BY <1>8 DEF BulkDelete, KeepStored
    <2>3. td \subseteq o.todo /\ k \notin td OBVIOUS
    <2> HIDE DEF td
    <2>4. n.ctx = o.ctx BY <1>1 DEF Has, OpFields
    <2>5. CASE Then(a, [n EXCEPT !.pos = "error"])
      <3> DEFINE f == o.failed
      <3>1. [n EXCEPT !.pos = "error"] = [o EXCEPT !.pos = "error", !.todo = td, !.failed = f]
        BY <1>1 DEF Has, OpFields
      <3>2. Then(a, [o EXCEPT !.pos = "error", !.todo = td, !.failed = f]) BY <2>5, <3>1
      <3>3. Plain("error") BY DEF Plain
      <3> HIDE DEF f
      <3> QED BY <2>2, <2>3, <3>2, <3>3, PlainStep
    <2>6. CASE DeleteAllowed(n.ctx, k) /\ Then(a, [n EXCEPT !.pos = "unlink", !.old = k])
      <3> DEFINE o2 == [n EXCEPT !.pos = "unlink", !.old = k]
      <3>1. /\ Has(o2, OpFields) /\ o2.crowd = o.crowd /\ o2.ctx = o.ctx /\ o2.kind = o.kind
            /\ o2.pos = "unlink" /\ o2.row = o.row /\ o2.todo = td /\ o2.owned = o.owned
            /\ o2.old = k
        BY <1>1 DEF Has, OpFields
      <3>2. peers[k].exists /\ (o.ctx.admin \/ o.ctx.id = peers[k].owner)
        BY <2>4, <2>6 DEF DeleteAllowed, ValidateUserAccessRights
      <3>3. Then(a, o2) BY <2>6
      <3> HIDE DEF o2
      <3>4. Fit(o2) /\ o2.row = NoPeer BY <1>1, <2>2, <2>3, <3>1 DEF Fit
      <3>5. ASSUME ~ o2.ctx.admin, ~ o2.crowd
            PROVE  /\ TodoOwned(o2, peers) /\ OldOwned(o2, peers)
                   /\ RowOwned(o2, peers) /\ IdFree(o2, peers)
        <4>1. TodoOwned(o, peers) BY <1>1, <3>1, <3>5 DEF Owned
        <4>2. TodoOwned(o2, peers) BY <2>3, <3>1, <4>1 DEF TodoOwned
        <4>3. k \in Key /\ k \in o.owned BY <3>1, <3>2, <3>5, <4>1 DEF TodoOwned
        <4>4. OldOwned(o2, peers) BY <2>3, <3>1, <3>2, <4>3 DEF OldOwned
        <4>5. RowOwned(o2, peers) /\ IdFree(o2, peers) BY <3>1, <3>4 DEF RowOwned, IdFree
        <4> QED BY <4>2, <4>4, <4>5
      <3>6. Owned(o2, peers) BY <3>5 DEF Owned
      <3> QED BY <2>2, <3>1, <3>3, <3>4, <3>6, QuietStep
    <2> QED BY <2>1, <2>5, <2>6 DEF td
  <1>9. CASE RereadOld(a)
    <2>1. o.pos = "reread" /\ UNCHANGED peers /\ (Then(a, [o EXCEPT !.pos = "unlink"])
                                                  \/ Then(a, [o EXCEPT !.pos = "error"]))
      BY <1>9 DEF RereadOld, KeepStored
    <2>2. CASE Then(a, [o EXCEPT !.pos = "unlink"])
      <3> DEFINE o2 == [o EXCEPT !.pos = "unlink"]
      <3>1. /\ Has(o2, OpFields) /\ o2.crowd = o.crowd /\ o2.ctx = o.ctx /\ o2.kind = o.kind
            /\ o2.pos = "unlink" /\ o2.row = o.row /\ o2.todo = o.todo /\ o2.owned = o.owned
            /\ o2.old = o.old
        BY <1>1 DEF Has, OpFields
      <3>2. Then(a, o2) BY <2>2
      <3> HIDE DEF o2
      <3>3. Fit(o2) BY <1>1, <3>1 DEF Fit
      <3>4. Owned(o2, peers)
        BY <1>1, <2>1, <3>1 DEF Owned, TodoOwned, OldOwned, RowOwned, IdFree
      <3> QED BY <2>1, <3>1, <3>2, <3>3, <3>4, QuietStep
    <2>3. CASE Then(a, [o EXCEPT !.pos = "error"])
      <3>1. Plain("error") BY DEF Plain
      <3> QED BY <2>1, <2>3, <3>1, PlainThen
    <2> QED BY <2>1, <2>2, <2>3
  <1>10. ASSUME NEW p, Plain(p), Then(a, [o EXCEPT !.pos = p, !.failed = TRUE]), UNCHANGED peers
         PROVE  Inv' /\ OwnSteps
    <2> DEFINE t == o.todo
    <2>1. [o EXCEPT !.pos = p, !.failed = TRUE] = [o EXCEPT !.pos = p, !.todo = t, !.failed = TRUE]
      BY <1>1 DEF Has, OpFields
    <2>2. Then(a, [o EXCEPT !.pos = p, !.todo = t, !.failed = TRUE]) BY <1>10, <2>1
    <2>3. t \subseteq o.todo OBVIOUS
    <2> HIDE DEF t
    <2> QED BY <1>10, <2>2, <2>3, PlainStep
  <1>11. CASE DeletePeer(a)
    <2>1. o.pos = "unlink" /\ UNCHANGED peers BY <1>11 DEF DeletePeer
    <2>2. CASE Then(a, [o EXCEPT !.pos = "remove"])
      <3> DEFINE o2 == [o EXCEPT !.pos = "remove"]
      <3>1. /\ Has(o2, OpFields) /\ o2.crowd = o.crowd /\ o2.ctx = o.ctx /\ o2.kind = o.kind
            /\ o2.pos = "remove" /\ o2.row = o.row /\ o2.todo = o.todo /\ o2.owned = o.owned
            /\ o2.old = o.old
        BY <1>1 DEF Has, OpFields
      <3>2. Then(a, o2) BY <2>2
      <3> HIDE DEF o2
      <3>3. Fit(o2) BY <1>1, <3>1 DEF Fit
      <3>4. Owned(o2, peers)
        BY <1>1, <2>1, <3>1 DEF Owned, TodoOwned, OldOwned, RowOwned, IdFree
      <3> QED BY <2>1, <3>1, <3>2, <3>3, <3>4, QuietStep
    <2>3. CASE Then(a, [o EXCEPT !.pos = "error", !.failed = TRUE])
      <3>1. Plain("error") BY DEF Plain
      <3> QED BY <1>10, <2>1, <2>3, <3>1
    <2> QED BY <1>11, <2>2, <2>3 DEF DeletePeer
  <1>12. CASE DeletePeerRow(a)
    <2>1. o.pos = "remove" BY <1>12 DEF DeletePeerRow
    <2>2. CASE UNCHANGED peers /\ Then(a, [o EXCEPT !.pos = "error", !.failed = TRUE])
      <3>1. Plain("error") BY DEF Plain
      <3> QED BY <1>10, <2>2, <3>1
    <2>3. CASE /\ peers' = [peers EXCEPT ![o.old] = NoPeer]
               /\ Then(a, [o EXCEPT !.pos = IF o.row = NoPeer THEN Onward(a, TRUE) ELSE "save"])
      <3> DEFINE p == IF o.row = NoPeer THEN Onward(a, TRUE) ELSE "save"
                 o2 == [o EXCEPT !.pos = p]
      <3>1. IF o.row = NoPeer THEN Plain(p) ELSE p = "save" BY OnwardIsPlain
      <3>2. Then(a, o2) BY <2>3
      <3> HIDE DEF p
      <3>3. /\ Has(o2, OpFields) /\ o2.crowd = o.crowd /\ o2.ctx = o.ctx /\ o2.kind = o.kind
            /\ o2.pos = p /\ o2.row = o.row /\ o2.todo = o.todo /\ o2.owned = o.owned
        BY <1>1 DEF Has, OpFields
      <3> HIDE DEF o2
      <3>4. Fit(o2) BY <1>1, <3>1, <3>3 DEF Fit, Plain
      <3>5. TableShaped' BY <1>1, <2>3 DEF TableShaped
      <3>6. ~ NoPeer.exists BY DEF NoPeer
      <3>7. ASSUME NEW k \in Key PROVE peers'[k] = IF k = o.old THEN NoPeer ELSE peers[k]
        BY <1>1, <2>3 DEF TableShaped
      <3>8. ASSUME ~ o.ctx.admin, ~ o.crowd
            PROVE  /\ TodoOwned(o2, peers') /\ OldOwned(o2, peers')
                   /\ RowOwned(o2, peers') /\ IdFree(o2, peers')
                   /\ peers[o.old].exists /\ o.old \in o.owned
        <4>1. TodoOwned(o, peers) /\ OldOwned(o, peers) /\ RowOwned(o, peers)
          BY <1>1, <3>8 DEF Owned
        <4>2. o.old \in Key /\ o.old \in o.owned /\ o.old \notin o.todo /\ peers[o.old].exists
          BY <2>1, <4>1 DEF OldOwned
        <4>3. TodoOwned(o2, peers') BY <3>3, <3>7, <4>1, <4>2 DEF TodoOwned
        <4>4. OldOwned(o2, peers') /\ IdFree(o2, peers')
          BY <3>1, <3>3 DEF OldOwned, IdFree, Plain
        <4>5. RowOwned(o2, peers')
          <5>1. CASE o.row = NoPeer BY <3>3, <5>1 DEF RowOwned
          <5>2. CASE o.row # NoPeer
            <6>1. /\ o.row.owner = o.ctx.id /\ o.row.id \notin o.todo
                  /\ ~ peers[o.row.id].exists
              BY <2>1, <4>1, <5>2 DEF RowOwned
            <6>2. o.row.id \in Key BY <1>1, <5>2 DEF Fit, Shaped
            <6>3. ~ peers'[o.row.id].exists BY <3>6, <3>7, <6>1, <6>2
            <6> QED BY <3>3, <6>1, <6>3 DEF RowOwned
          <5> QED BY <5>1, <5>2
        <4> QED BY <4>2, <4>3, <4>4, <4>5
      <3>9. Owned(o2, peers') BY <3>3, <3>8 DEF Owned
      <3>10. Inv' BY <3>2, <3>3, <3>4, <3>5, <3>9, ActStep
      <3>11. ASSUME NEW b \in Slot, op'[b] # op[b] PROVE b = a
        BY <3>2, <3>11 DEF Then, Inv, Actor
      <3>12. OwnStep(a)
        <4> SUFFICES ASSUME ~ o.ctx.admin, ~ o.crowd, NEW k \in Key, peers'[k] # peers[k]
                     PROVE  IF peers[k].exists
                            THEN /\ k \in o.owned
                                 /\ peers'[k].exists => /\ peers'[k].owner = peers[k].owner
                                                        /\ peers'[k].addr = peers[k].addr
                            ELSE peers'[k].owner = o.ctx.id
          BY DEF OwnStep
        <4>1. k = o.old /\ peers'[k] = NoPeer BY <3>7
        <4> QED BY <3>6, <3>8, <4>1
      <3> QED BY <3>10, <3>11, <3>12 DEF OwnSteps, OwnStep
    <2> QED BY <1>12, <2>2, <2>3 DEF DeletePeerRow
  <1>13. CASE SavePeer(a)
    <2>1. o.pos = "save" /\ Shaped(o.row) BY <1>1, <1>13 DEF SavePeer, Fit
    <2>2. CASE UNCHANGED peers /\ Then(a, [o EXCEPT !.pos = Onward(a, FALSE), !.failed = TRUE])
      BY <1>10, <2>2, OnwardIsPlain
    <2>3. CASE peers' = Upserted(o.row) /\ Then(a, [o EXCEPT !.pos = Onward(a, TRUE)])
      <3> DEFINE p == Onward(a, TRUE)
                 o2 == [o EXCEPT !.pos = p]
      <3>1. Plain(p) BY OnwardIsPlain
      <3>2. Then(a, o2) BY <2>3
      <3> HIDE DEF p
      <3>3. /\ Has(o2, OpFields) /\ o2.crowd = o.crowd /\ o2.ctx = o.ctx /\ o2.kind = o.kind
            /\ o2.pos = p /\ o2.row = o.row /\ o2.todo = o.todo /\ o2.owned = o.owned
        BY <1>1 DEF Has, OpFields
      <3> HIDE DEF o2
      <3>4. Fit(o2) BY <1>1, <3>1, <3>3 DEF Fit, Plain
      <3>5. ASSUME NEW k \in Key PROVE peers'[k] = IF k = o.row.id THEN o.row ELSE peers[k]
        BY <1>1, <2>3 DEF TableShaped, Upserted
      <3>6. TableShaped'
        <4>1. peers' = [k \in Key |-> peers'[k]] BY <1>1, <2>3 DEF TableShaped, Upserted
        <4>2. ASSUME NEW k \in Key
              PROVE  peers'[k] = NoPeer \/ (Shaped(peers'[k]) /\ peers'[k].id = k)
          BY <1>1, <2>1, <3>5 DEF TableShaped
        <4> QED BY <4>1, <4>2 DEF TableShaped
      <3>7. ASSUME ~ o.ctx.admin, ~ o.crowd
            PROVE  /\ TodoOwned(o2, peers') /\ OldOwned(o2, peers')
                   /\ RowOwned(o2, peers') /\ IdFree(o2, peers')
                   /\ o.row.owner = o.ctx.id
                   /\ \/ ~ peers[o.row.id].exists
                      \/ /\ o.row.id \in o.owned /\ peers[o.row.id].owner = o.row.owner
                         /\ peers[o.row.id].addr = o.row.addr
        <4>1. TodoOwned(o, peers) /\ RowOwned(o, peers) BY <1>1, <3>7 DEF Owned
        <4>2. o.row # NoPeer BY <2>1, ShapedExists
        <4>3. /\ o.row.owner = o.ctx.id /\ o.row.id \notin o.todo
              /\ \/ ~ peers[o.row.id].exists
                 \/ /\ o.row.id \in o.owned /\ peers[o.row.id].owner = o.row.owner
                    /\ peers[o.row.id].addr = o.row.addr
          BY <2>1, <4>1, <4>2 DEF RowOwned
        <4>4. TodoOwned(o2, peers') BY <3>3, <3>5, <4>1, <4>3 DEF TodoOwned
        <4>5. OldOwned(o2, peers') /\ RowOwned(o2, peers') /\ IdFree(o2, peers')
          BY <3>1, <3>3 DEF OldOwned, RowOwned, IdFree, Plain
        <4> QED BY <4>3, <4>4, <4>5
      <3>8. Owned(o2, peers') BY <3>3, <3>7 DEF Owned
      <3>9. Inv' BY <3>2, <3>3, <3>4, <3>6, <3>8, ActStep
      <3>10. ASSUME NEW b \in Slot, op'[b] # op[b] PROVE b = a
        BY <3>2, <3>10 DEF Then, Inv, Actor
      <3>11. OwnStep(a)
        <4> SUFFICES ASSUME ~ o.ctx.admin, ~ o.crowd, NEW k \in Key, peers'[k] # peers[k]
                     PROVE  IF peers[k].exists
                            THEN /\ k \in o.owned
                                 /\ peers'[k].exists => /\ peers'[k].owner = peers[k].owner
                                                        /\ peers'[k].addr = peers[k].addr
                            ELSE peers'[k].owner = o.ctx.id
          BY DEF OwnStep
        <4>1. k = o.row.id /\ peers'[k] = o.row BY <3>5
        <4> QED BY <3>7, <4>1
      <3> QED BY <3>9, <3>10, <3>11 DEF OwnSteps, OwnStep
    <2> QED BY <1>13, <2>2, <2>3 DEF SavePeer
  <1>14. CASE Return(a)
    BY <1>14, QuietStep DEF Return, KeepStored
  <1> QED BY <1>4, <1>5, <1>6, <1>7, <1>8, <1>9, <1>11, <1>12, <1>13, <1>14 DEF GoesOn

---------------------------------------------------------------------------

LEMMA InitHolds == Init => Inv
  <1> SUFFICES ASSUME Init PROVE Inv OBVIOUS
  <1>1. PICK ks \in SUBSET Key, u \in User, auto \in BOOLEAN :
          peers = [k \in Key |->
             IF k \in ks THEN [exists |-> TRUE, id |-> k, pub |-> k, private |-> TRUE, owner |-> u,
                               addr |-> InterfaceAddress + 1, disabled |-> FALSE, auto |-> auto]
             ELSE NoPeer]
    BY DEF Init
  <1>2. ASSUME NEW k \in Key PROVE peers[k] = NoPeer \/ (Shaped(peers[k]) /\ peers[k].id = k)
    <2>1. CASE k \notin ks BY <1>1, <2>1
    <2>2. CASE k \in ks
      <3> DEFINE r == [exists |-> TRUE, id |-> k, pub |-> k, private |-> TRUE, owner |-> u,
                       addr |-> InterfaceAddress + 1, disabled |-> FALSE, auto |-> auto]
      <3>1. peers[k] = r BY <1>1, <2>2
      <3>2. Has(r, PeerFields) BY DEF Has, PeerFields
      <3>3. r.exists = TRUE /\ r.id = k /\ r.pub = k OBVIOUS
      <3> HIDE DEF r
      <3> QED BY <3>1, <3>2, <3>3 DEF Shaped
    <2> QED BY <2>1, <2>2
  <1>3. TableShaped BY <1>1, <1>2 DEF TableShaped
  <1>4. op = [a \in Actor |-> Idle] BY DEF Init
  <1> QED BY <1>3, <1>4 DEF Inv, Proper

LEMMA StepHolds == Inv /\ [Next]_vars => Inv' /\ OwnSteps
  <1> SUFFICES ASSUME Inv, [Next]_vars PROVE Inv' /\ OwnSteps OBVIOUS
  <1>1. CASE UNCHANGED vars
    <2>1. op' = op /\ peers' = peers BY <1>1 DEF vars
    <2>2. Inv' BY <2>1 DEF Inv, TableShaped
    <2> QED BY <2>1, <2>2 DEF OwnSteps, OwnStep
  <1>2. ASSUME NEW a \in Slot, Begins(a) PROVE Inv' /\ OwnSteps
    BY <1>2, BeginsKeep DEF Actor
  <1>3. ASSUME NEW a \in Actor, Running(a), GoesOn(a) PROVE Inv' /\ OwnSteps
    BY <1>3, GoesOnKeep DEF Running
  <1> QED BY <1>1, <1>2, <1>3, HandlersKeep DEF Next

\* The inductive invariant: a request that no other one has overlapped runs
\* alone, and what it is about to store or delete passed its checks.
THEOREM Invariance == Spec => []Inv
  <1>1. Inv /\ [Next]_vars => Inv' BY StepHolds
  <1> QED BY <1>1, InitHolds, PTL DEF Spec

\* A user changes his own peers only, neither their owner nor their address, and
\* what he creates is his (wireguard_peers.go).
THEOREM UsersChangeTheirOwn == Spec => OwnersOnly
  <1> DEFINE A == \A a \in Slot :
          (op[a] # Idle /\ op'[a] # op[a] /\ ~ op[a].ctx.admin /\ ~ op[a].crowd) =>
            \A k \in Key : peers'[k] # peers[k] =>
               IF peers[k].exists
               THEN /\ k \in op[a].owned
                    /\ peers'[k].exists => /\ peers'[k].owner = peers[k].owner
                                           /\ peers'[k].addr = peers[k].addr
               ELSE peers'[k].owner = op[a].ctx.id
  <1>1. Inv /\ [Next]_vars => [A]_vars BY StepHolds DEF OwnSteps, OwnStep
  <1>2. Spec => [][A]_vars BY <1>1, Invariance, PTL DEF Spec
  <1> QED BY <1>2 DEF OwnersOnly
---------------------------------------------------------------------------
(* What a request that no other one has overlapped can count on, and who   *)
(* may be about to store a default peer                                    *)

Updates == {"update", "bulkEnable", "bulkDisable"}
Kinds == Updates \union {"create", "multiple", "delete", "bulkDelete", "default"}

\* nobody has the address, or it is outside the network
Free(n) == \A k \in Existing : peers[k].addr = n => peers[k].addr > LastAddress

\* the address of a new peer, once it has been chosen
AddressFree(o) ==
    (/\ ~ o.crowd /\ ~ o.chosen /\ o.kind \in {"create", "multiple", "default"}
     /\ (o.pos = "save" \/ (o.pos = "prepare" /\ o.ctx.admin /\ o.row.private)))
    => Free(o.row.addr)

Count == Cardinality(Existing)

\* an update: the old peer is there until it is removed, the new one is not,
\* and the number of peers is the one at the beginning but in between
UpdateProgress(o) ==
    /\ o.pos \in {"next", "ok", "error"} => Count = o.count
    /\ o.pos \in {"reread", "unlink", "remove"} =>
          /\ Count = o.count /\ Shaped(o.row) /\ o.old \in Key
          /\ DeleteAllowed(o.ctx, o.old) /\ ~ peers[o.row.id].exists
    /\ o.pos = "save" =>
          \/ /\ Count = o.count /\ peers[o.row.id].exists /\ o.row.id = o.old
          \/ /\ Count + 1 = o.count /\ ~ peers[o.row.id].exists
             /\ ~ peers[o.old].exists /\ o.old \notin served /\ o.row.id # o.old
    /\ o.kind = "update" =>
          /\ o.pos \in {"reread", "unlink", "remove", "save", "ok"}
          /\ o.todo = {} /\ o.keys = {o.old, o.row.id}

\* the key of the device is gone before the row is, and nothing changes at the end
RekeyProgress(o) ==
    /\ o.pos = "remove" => o.old \notin served
    /\ (o.pos = "ok" /\ o.kind = "update") =>
          /\ peers[o.row.id] = o.row
          /\ \A k \in o.keys : (k \in served) = (peers[k].exists /\ ~ peers[k].disabled)

DeleteProgress(o) ==
    /\ o.row = NoPeer /\ o.todo = {} /\ o.keys = {o.old} /\ o.old \in Key
    /\ o.pos \in {"unlink", "remove", "ok"}
    /\ o.pos \in {"unlink", "remove"} => Count = o.count /\ peers[o.old].exists
    /\ o.pos \in {"remove", "ok"} => o.old \notin served
    /\ o.pos = "ok" => Count = o.count - 1 /\ ~ peers[o.old].exists

Progress(o) ==
    (~ o.crowd /\ ~ o.failed) =>
        /\ o.kind \in Updates => UpdateProgress(o) /\ RekeyProgress(o)
        /\ o.kind = "delete" => DeleteProgress(o)

\* an update that stores a default peer has it from the table, or has removed it
DefaultKept(o) ==
    (~ o.crowd /\ o.kind \in Updates) =>
        /\ (o.pos \in {"reread", "unlink", "remove"} /\ o.row.auto) =>
              o.old \in Key /\ DefaultPeerOf(o.old, o.row.owner)
        /\ (o.pos = "save" /\ o.row.auto) =>
              \/ DefaultPeerOf(o.row.id, o.row.owner)
              \/ \A k \in Key : ~ DefaultPeerOf(k, o.row.owner)

\* who stores default peers
Simple(o) ==
    /\ o.kind \in Kinds
    /\ o.kind # "default" => o.user = "nobody"
    /\ o.kind \in {"delete", "bulkDelete"} => o.row = NoPeer
    /\ (o.kind \in {"create", "multiple"} /\ o.row # NoPeer) => ~ o.row.auto
    /\ o.pos = "prepare" => o.kind = "create"
    /\ o.pos = "reread" => o.kind \in Updates
    /\ o.pos \in {"unlink", "remove"} => o.kind \in Updates \union {"delete", "bulkDelete"}

\* the lock of a handler: it works for one user, and no other handler does
Locked(a) ==
    op[a] # Idle /\ op[a].kind = "default" =>
        /\ a \in Handler
        /\ a = "interface" => op[a].user = "nobody"
        /\ a # "interface" =>
              /\ op[a].user \in User /\ op[a].user \in userLockMap
              /\ op[a].todo \subseteq {op[a].user}
              /\ op[a].pos = "save" => op[a].row.owner = op[a].user

Defaulting(a) == op[a] # Idle /\ op[a].kind = "default"
LocksDiffer ==
    \A a, b \in Actor :
        (a # b /\ Defaulting(a) /\ Defaulting(b) /\ a # "interface" /\ b # "interface")
        => op[a].user # op[b].user

InterfaceAlone ==
    \A a \in Actor : (Defaulting(a) /\ Defaulting("interface")) => a = "interface"

OneEach ==
    \A k, k2 \in Key : (/\ DefaultPeerOf(k, peers[k].owner) /\ DefaultPeerOf(k2, peers[k2].owner)
                        /\ peers[k].owner = peers[k2].owner) => k = k2

\* a handler that is about to store a default peer has seen the user without one
StillNone ==
    \A a \in Actor : (Defaulting(a) /\ op[a].pos = "save") =>
        \A k \in Key : ~ DefaultPeerOf(k, op[a].row.owner)

Singles ==
    /\ InterfaceAlone /\ OneEach /\ StillNone
    /\ \A a \in Actor : \A o \in {op[a]} : o # Idle => DefaultKept(o)

Sure(o) == Simple(o) /\ AddressFree(o) /\ Progress(o)

CareInv ==
    /\ \A a \in Actor : \A o \in {op[a]} : o # Idle => Sure(o)
    /\ (\A a \in Actor : Locked(a)) /\ LocksDiffer
    /\ ~ excused => Singles

\* the next address of the network, or the one behind its end (getFreshPeerIpConfig)
LEMMA FreshIsFree == Free(FreshAddress)
  <1> DEFINE R == OpToRel(<, Nat)
             T == {n \in 1 .. LastAddress + 1 : n \notin UsedAddresses}
  <1>1. LastAddress \in Nat /\ LastAddress >= 1 BY PeerRequestsAssumption
  <1>2. LastAddress + 1 \in T BY <1>1 DEF UsedAddresses
  <1>3. T \subseteq Nat /\ T # {} BY <1>1, <1>2
  <1>4. IsWellFoundedOn(R, Nat) BY NatLessThanWellFounded
  <1>5. PICK m \in T : \A y \in T : ~ (<<y, m>> \in R)
    <2> HIDE DEF R, T
    <2> QED BY <1>3, <1>4, WFMin
  <1>6. ASSUME NEW x \in 1 .. m - 1 PROVE x \in UsedAddresses
    <2>1. m \in 1 .. LastAddress + 1 BY <1>5
    <2>2. x \in 1 .. LastAddress + 1 /\ x < m BY <1>1, <2>1
    <2>3. x \in Nat /\ m \in Nat /\ <<x, m>> \in R BY <1>1, <2>1, <2>2 DEF OpToRel
    <2>4. x \notin T
      <3> HIDE DEF R, T
      <3> QED BY <1>5, <2>3
    <2> QED BY <2>2, <2>4
  <1>7. \E n \in 1 .. LastAddress + 1 :
           n \notin UsedAddresses /\ \A x \in 1 .. n - 1 : x \in UsedAddresses
    BY <1>5, <1>6
  <1>8. FreshAddress \in 1 .. LastAddress + 1 /\ FreshAddress \notin UsedAddresses
    BY <1>7 DEF FreshAddress
  <1>9. ASSUME NEW k \in Existing, peers[k].addr = FreshAddress PROVE peers[k].addr > LastAddress
    <2>1. FreshAddress \notin 0 .. LastAddress BY <1>8, <1>9 DEF UsedAddresses
    <2> QED BY <1>1, <1>8, <1>9, <2>1
  <1> QED BY <1>9 DEF Free

---------------------------------------------------------------------------
(* What the steps of a request do, in one formula for each kind of step    *)

SameCall(o, o2) ==
    /\ Has(o2, OpFields) /\ o2.kind = o.kind /\ o2.ctx = o.ctx /\ o2.crowd = o.crowd
    /\ o2.user = o.user /\ o2.count = o.count /\ o2.chosen = o.chosen
    /\ o2.todo \subseteq o.todo

\* an update has passed its checks
Wants(o) ==
    /\ o.old \in Key /\ Shaped(o.row) /\ o.keys = {o.old, o.row.id}
    /\ DeleteAllowed(o.ctx, o.old)
    /\ \/ o.pos = "save" /\ o.row.id = o.old
       \/ o.pos = "reread" /\ o.row.id # o.old /\ ~ peers[o.row.id].exists
    /\ o.row.auto => DefaultPeerOf(o.old, o.row.owner)

Quiet == peers' = peers /\ served' = served

\* PrepareCreated
Chooses(o, o2) ==
    /\ Quiet /\ o.pos = "prepare" /\ o2.pos = "save"
    /\ \/ /\ o.ctx.admin /\ o.row.private
          /\ o2.row.addr = o.row.addr /\ o2.row.auto = o.row.auto
       \/ o2.row.addr = FreshAddress /\ ~ o2.row.auto

\* CreateNext, PrepareDefaultPeer
Prepares(o, o2) ==
    /\ Quiet /\ o.kind \in {"multiple", "default"} /\ o2.pos = "save"
    /\ o2.row.addr = FreshAddress /\ o2.row.owner \in o.todo
    /\ o.kind = "multiple" => ~ o2.row.auto
    /\ o.kind = "default" => UserPeers(o2.row.owner) = {}

\* BulkNext
Finds(o, o2) ==
    /\ Quiet /\ o.kind \in {"bulkEnable", "bulkDisable"} /\ o.pos = "next"
    /\ o2.failed = o.failed /\ Wants(o2)

\* a step that fails, or finds that there is nothing to do
Rests(o, o2) ==
    /\ peers' = peers /\ o2.pos \in {"next", "ok", "error"} /\ o2.row = o.row /\ o2.old = o.old
    /\ \/ o2.failed
       \/ o.pos = "next" /\ o2.failed = o.failed /\ served' = served
       \/ /\ o.pos = "reread" /\ o2.failed = o.failed /\ served' = served
          /\ ~ DeleteAllowed(o.ctx, o.old)

SameWish(o, o2) ==
    o2.row = o.row /\ o2.old = o.old /\ o2.keys = o.keys /\ o2.failed = o.failed

\* RereadOld, BulkDelete
Reaches(o, o2) ==
    /\ Quiet /\ o2.pos = "unlink" /\ o2.row = o.row /\ o2.failed = o.failed
    /\ \/ o.pos = "reread" /\ SameWish(o, o2) /\ DeleteAllowed(o.ctx, o.old)
       \/ o.pos = "next" /\ o.kind = "bulkDelete"

\* DeletePeer
Unlinks(o, o2) ==
    /\ o.pos = "unlink" /\ o2.pos = "remove" /\ SameWish(o, o2)
    /\ peers' = peers /\ served' = served \ {o.old}

TakesOut(k) == peers' = [peers EXCEPT ![k] = NoPeer]

\* DeletePeerRow
Removes(o, o2) ==
    /\ o.pos = "remove" /\ SameWish(o, o2)
    /\ TakesOut(o.old) /\ served' = served
    /\ IF o.row = NoPeer THEN o2.pos \in {"next", "ok"} /\ (o2.pos = "next" => o.todo # {})
       ELSE o2.pos = "save"

\* SavePeer
Saves(o, o2) ==
    /\ o.pos = "save" /\ o2.pos \in {"next", "ok"} /\ SameWish(o, o2)
    /\ o2.pos = "next" => o.todo # {}
    /\ peers' = Upserted(o.row) /\ served' = Served(o.row)

Moves(a) ==
    /\ SameCall(op[a], op'[a]) /\ userLockMap' = userLockMap /\ (excused => excused')
    /\ \/ Chooses(op[a], op'[a]) \/ Prepares(op[a], op'[a]) \/ Finds(op[a], op'[a])
       \/ Rests(op[a], op'[a]) \/ Reaches(op[a], op'[a]) \/ Unlinks(op[a], op'[a])
       \/ Removes(op[a], op'[a])
       \/ Saves(op[a], op'[a]) /\ (Revives(a) => excused')

Returns(a) ==
    /\ op'[a] = Idle /\ peers' = peers /\ served' = served /\ excused' = excused
    /\ userLockMap' = userLockMap \ {op[a].user}

LEMMA ThenFacts ==
    ASSUME Inv, NEW a \in Actor, NEW o2, Then(a, o2)
    PROVE  op'[a] = o2 /\ \A x \in Actor \ {a} : op'[x] = op[x]
  BY DEF Then, Inv

\* the checks of an update (UpdatePeer)
LEMMA UpdateWants ==
    ASSUME TableShaped, NEW o, Has(o, OpFields), NEW k \in Key, NEW form, Shaped(form), form.id = k,
           form.auto => peers[k].auto /\ form.owner = peers[k].owner,
           NEW o2, o2 = UpdatePeer(o, form)
    PROVE  /\ SameCall(o, o2) /\ o2.todo = o.todo /\ o2.failed = o.failed
           /\ \/ o2.pos = "error" /\ o2.row = o.row /\ o2.old = o.old
              \/ Wants(o2)
  <1> DEFINE new == IF o.ctx.admin THEN form ELSE OverwriteUserEditableFields(peers[k], form)
             row == [new EXCEPT !.id = new.pub]
  <1>1. CASE ~ UpdateAllowed(o.ctx, form) \/ ~ KeyIsFree(new.pub, k)
    <2>1. o2 = [o EXCEPT !.pos = "error"] BY <1>1 DEF UpdatePeer
    <2>2. /\ Has(o2, OpFields) /\ o2.pos = "error" /\ o2.row = o.row /\ o2.old = o.old
          /\ o2.kind = o.kind /\ o2.ctx = o.ctx /\ o2.crowd = o.crowd /\ o2.user = o.user
          /\ o2.count = o.count /\ o2.chosen = o.chosen /\ o2.todo = o.todo
          /\ o2.failed = o.failed
      BY <2>1 DEF Has, OpFields
    <2> QED BY <2>2 DEF SameCall
  <1>2. CASE UpdateAllowed(o.ctx, form) /\ KeyIsFree(new.pub, k)
    <2> DEFINE p == IF new.pub # k THEN "reread" ELSE "save"
               ks == {k, new.pub}
    <2>1. o2 = [o EXCEPT !.pos = p, !.old = k, !.row = row, !.keys = ks] BY <1>2 DEF UpdatePeer
    <2>2. DeleteAllowed(o.ctx, k) BY <1>2 DEF UpdateAllowed, DeleteAllowed
    <2>3. peers[k].exists BY <2>2 DEF DeleteAllowed
    <2>4. Shaped(peers[k]) BY <2>3, TableExists
    <2>5. Shaped(new) BY <2>4, OverwriteFacts
    <2>6. new.auto => DefaultPeerOf(k, new.owner)
      <3>1. CASE o.ctx.admin BY <2>3, <3>1 DEF DefaultPeerOf
      <3>2. CASE ~ o.ctx.admin
        <4>1. new = OverwriteUserEditableFields(peers[k], form) BY <3>2
        <4>2. new.owner = peers[k].owner /\ new.auto = peers[k].auto
          BY <2>4, <4>1 DEF OverwriteUserEditableFields, Shaped, Has, PeerFields
        <4> QED BY <2>3, <4>2 DEF DefaultPeerOf
      <3> QED BY <3>1, <3>2
    <2>7. new.pub = k \/ ~ peers[new.pub].exists BY <1>2 DEF KeyIsFree
    <2> HIDE DEF new
    <2>8. /\ Shaped(row) /\ row.id = new.pub /\ row.owner = new.owner /\ row.auto = new.auto
      <3>1. /\ Has(row, PeerFields) /\ row.exists = TRUE /\ row.id = new.pub /\ new.pub \in Key
            /\ row.pub = new.pub /\ row.owner = new.owner /\ row.auto = new.auto
        BY <2>5 DEF Shaped, Has, PeerFields
      <3> QED BY <3>1 DEF Shaped
    <2>9. \/ p = "save" /\ row.id = k
          \/ p = "reread" /\ row.id # k /\ ~ peers[row.id].exists
      BY <2>7, <2>8
    <2>10. ks = {k, row.id} BY <2>8
    <2> HIDE DEF row, p, ks
    <2>11. /\ Has(o2, OpFields) /\ o2.pos = p /\ o2.row = row /\ o2.old = k /\ o2.keys = ks
           /\ o2.kind = o.kind /\ o2.ctx = o.ctx /\ o2.crowd = o.crowd /\ o2.user = o.user
           /\ o2.count = o.count /\ o2.chosen = o.chosen /\ o2.todo = o.todo
           /\ o2.failed = o.failed
      BY <2>1 DEF Has, OpFields
    <2>12. SameCall(o, o2) BY <2>11 DEF SameCall
    <2>13. Wants(o2) BY <2>2, <2>6, <2>8, <2>9, <2>10, <2>11 DEF Wants
    <2> QED BY <2>11, <2>12, <2>13
  <1> QED BY <1>1, <1>2

LEMMA GoesOnMoves ==
    ASSUME Inv, NEW a \in Actor, op[a] # Idle, GoesOn(a)
    PROVE  /\ \A x \in Actor \ {a} : op'[x] = op[x]
           /\ Returns(a) \/ Moves(a)
  <1> DEFINE o == op[a]
             o2 == op'[a]
  <1>1. Fit(o) /\ Has(o, OpFields) /\ TableShaped BY DEF Inv, Proper, Fit
  <1>2. ASSUME NEW n, Then(a, n) PROVE o2 = n /\ \A x \in Actor \ {a} : op'[x] = op[x]
    BY <1>2, ThenFacts
  <1>3. CASE PrepareCreated(a)
    <2>1. o.pos = "prepare" /\ Quiet /\ userLockMap' = userLockMap /\ excused' = excused
      BY <1>3 DEF PrepareCreated, KeepStored, Keep, Quiet
    <2>2. CASE /\ o.ctx.admin /\ o.row.private
               /\ Then(a, [o EXCEPT !.pos = "save", !.row.id = o.row.pub, !.keys = {o.row.pub}])
      <3> DEFINE r == o.row
                 row == [r EXCEPT !.id = r.pub]
                 ks == {r.pub}
                 n == [o EXCEPT !.pos = "save", !.row = row, !.keys = ks]
      <3>1. Shaped(r) BY <1>1, <2>1 DEF Fit
      <3>2. row.addr = r.addr /\ row.auto = r.auto BY <3>1 DEF Shaped, Has, PeerFields
      <3>3. Then(a, n) BY <2>2
      <3> HIDE DEF row, ks
      <3>4. n.pos = "save" /\ n.row = row /\ SameCall(o, n) BY <1>1 DEF Has, OpFields, SameCall
      <3> HIDE DEF n
      <3>5. o2 = n /\ \A x \in Actor \ {a} : op'[x] = op[x] BY <1>2, <3>3
      <3>6. Chooses(o, o2) BY <2>1, <2>2, <3>2, <3>4, <3>5 DEF Chooses
      <3> QED BY <2>1, <3>4, <3>5, <3>6 DEF Moves
    <2>3. CASE \E k \in FreshKeys :
                 LET row == OverwriteUserEditableFields(PreparePeer(o.ctx, k), o.row)
                 IN  Then(a, [o EXCEPT !.pos = "save", !.row = row, !.keys = {k, row.id},
                                       !.made = {k}])
      <3>1. PICK k \in FreshKeys :
              LET row == OverwriteUserEditableFields(PreparePeer(o.ctx, k), o.row)
              IN  Then(a, [o EXCEPT !.pos = "save", !.row = row, !.keys = {k, row.id},
                                    !.made = {k}])
        BY <2>3
      <3> DEFINE p == PreparePeer(o.ctx, k)
                 row == OverwriteUserEditableFields(p, o.row)
                 ks == {k, row.id}
                 ms == {k}
                 n == [o EXCEPT !.pos = "save", !.row = row, !.keys = ks, !.made = ms]
      <3>2. Then(a, n) BY <3>1
      <3>3. k \in Key BY DEF FreshKeys
      <3>4. Shaped(p) BY <3>3, PreparedFacts
      <3>5. p.addr = FreshAddress /\ p.auto = FALSE BY DEF PreparePeer
      <3> HIDE DEF p
      <3>6. row.addr = p.addr /\ row.auto = p.auto
        BY <3>4 DEF OverwriteUserEditableFields, Shaped, Has, PeerFields
      <3> HIDE DEF row, ks, ms
      <3>7. n.pos = "save" /\ n.row = row /\ SameCall(o, n) BY <1>1 DEF Has, OpFields, SameCall
      <3> HIDE DEF n
      <3>8. o2 = n /\ \A x \in Actor \ {a} : op'[x] = op[x] BY <1>2, <3>2
      <3>9. Chooses(o, o2) BY <2>1, <3>5, <3>6, <3>7, <3>8 DEF Chooses
      <3> QED BY <2>1, <3>7, <3>8, <3>9 DEF Moves
    <2> QED BY <1>3, <2>2, <2>3 DEF PrepareCreated
  <1>4. CASE CreateNext(a)
    <2>1. PICK u \in o.todo, k \in FreshKeys :
            Then(a, [o EXCEPT !.pos = "save", !.todo = o.todo \ {u}, !.keys = {k}, !.made = {k},
                              !.row = [PreparePeer(Admin, k) EXCEPT !.owner = u]])
      BY <1>4 DEF CreateNext
    <2> DEFINE td == o.todo \ {u}
               ks == {k}
               row == [PreparePeer(Admin, k) EXCEPT !.owner = u]
               n == [o EXCEPT !.pos = "save", !.todo = td, !.keys = ks, !.made = ks, !.row = row]
    <2>2. row.addr = FreshAddress /\ row.owner = u /\ ~ row.auto BY DEF PreparePeer
    <2>3. Then(a, n) BY <2>1
    <2>4. td \subseteq o.todo OBVIOUS
    <2> HIDE DEF row, ks, td
    <2>5. n.pos = "save" /\ n.row = row /\ SameCall(o, n)
      BY <1>1, <2>4 DEF Has, OpFields, SameCall
    <2> HIDE DEF n
    <2>6. o2 = n /\ \A x \in Actor \ {a} : op'[x] = op[x] BY <1>2, <2>3
    <2>7. /\ o.kind = "multiple" /\ Quiet /\ userLockMap' = userLockMap /\ excused' = excused
      BY <1>4 DEF CreateNext, KeepStored, Keep, Quiet
    <2>8. Prepares(o, o2) BY <2>1, <2>2, <2>5, <2>6, <2>7 DEF Prepares
    <2> QED BY <2>5, <2>6, <2>7, <2>8 DEF Moves
  <1>5. CASE PrepareDefaultPeer(a)
    <2>1. /\ o.kind = "default" /\ o.pos = "next" /\ Quiet /\ userLockMap' = userLockMap
          /\ excused' = excused
      BY <1>5 DEF PrepareDefaultPeer, KeepStored, Keep, Quiet
    <2>2. PICK u \in o.todo :
            LET n == [o EXCEPT !.todo = @ \ {u}]
            IN  \/ Then(a, [n EXCEPT !.pos = IF n.todo = {} THEN "ok" ELSE "next"])
                \/ /\ UserPeers(u) = {}
                   /\ \E k \in FreshKeys :
                        Then(a, [n EXCEPT !.pos = "save", !.keys = {k}, !.made = {k},
                                  !.row = [PreparePeer(System, k) EXCEPT !.owner = u, !.auto = TRUE]])
      BY <1>5, Zenon DEF PrepareDefaultPeer
    <2> DEFINE td == o.todo \ {u}
               n == [o EXCEPT !.todo = td]
    <2>3. td \subseteq o.todo OBVIOUS
    <2>4. CASE Then(a, [n EXCEPT !.pos = IF n.todo = {} THEN "ok" ELSE "next"])
      <3> DEFINE p == IF n.todo = {} THEN "ok" ELSE "next"
                 m == [n EXCEPT !.pos = p]
      <3>1. p \in {"ok", "next"} /\ Then(a, m) BY <2>4
      <3> HIDE DEF p, td
      <3>2. /\ m.pos = p /\ m.row = o.row /\ m.old = o.old /\ m.failed = o.failed
            /\ SameCall(o, m)
        BY <1>1, <2>3 DEF Has, OpFields, SameCall
      <3> HIDE DEF m
      <3>3. o2 = m /\ \A x \in Actor \ {a} : op'[x] = op[x] BY <1>2, <3>1
      <3>4. Rests(o, o2) BY <2>1, <3>1, <3>2, <3>3 DEF Rests, Quiet
      <3> QED BY <2>1, <3>2, <3>3, <3>4 DEF Moves
    <2>5. ASSUME UserPeers(u) = {}, NEW k \in FreshKeys,
                 Then(a, [n EXCEPT !.pos = "save", !.keys = {k}, !.made = {k},
                            !.row = [PreparePeer(System, k) EXCEPT !.owner = u, !.auto = TRUE]])
          PROVE  Moves(a) /\ \A x \in Actor \ {a} : op'[x] = op[x]
      <3> DEFINE row == [PreparePeer(System, k) EXCEPT !.owner = u, !.auto = TRUE]
                 ks == {k}
                 m == [n EXCEPT !.pos = "save", !.keys = ks, !.made = ks, !.row = row]
      <3>1. row.addr = FreshAddress /\ row.owner = u BY DEF PreparePeer
      <3>2. Then(a, m) BY <2>5
      <3> HIDE DEF row, ks, td
      <3>3. m.pos = "save" /\ m.row = row /\ SameCall(o, m)
        BY <1>1, <2>3 DEF Has, OpFields, SameCall
      <3> HIDE DEF m
      <3>4. o2 = m /\ \A x \in Actor \ {a} : op'[x] = op[x] BY <1>2, <3>2
      <3>5. Prepares(o, o2) BY <2>1, <2>2, <2>5, <3>1, <3>3, <3>4 DEF Prepares
      <3> QED BY <2>1, <3>3, <3>4, <3>5 DEF Moves
    <2> QED BY <2>2, <2>4, <2>5
  <1>6. CASE BulkNext(a)
    <2>1. PICK k \in o.todo :
            LET n == [o EXCEPT !.todo = @ \ {k}]
                row == [peers[k] EXCEPT !.disabled = (o.kind = "bulkDisable")]
            IN  Then(a, IF peers[k].exists /\ ValidateUserAccessRights(n.ctx, peers[k].owner)
                        THEN UpdatePeer(n, row) ELSE [n EXCEPT !.pos = "error"])
      BY <1>6, Zenon DEF BulkNext
    <2> DEFINE td == o.todo \ {k}
               n == [o EXCEPT !.todo = td]
               d == (o.kind = "bulkDisable")
               row == [peers[k] EXCEPT !.disabled = d]
    <2>2. /\ o.kind \in {"bulkEnable", "bulkDisable"} /\ o.pos = "next" /\ Quiet
          /\ userLockMap' = userLockMap /\ excused' = excused
      BY <1>6 DEF BulkNext, KeepStored, Keep, Quiet
    <2>3. td \subseteq o.todo OBVIOUS
    <2> HIDE DEF td, d
    <2>4. /\ Has(n, OpFields) /\ n.pos = o.pos /\ n.row = o.row /\ n.old = o.old
          /\ n.failed = o.failed /\ SameCall(o, n)
      BY <1>1, <2>3 DEF Has, OpFields, SameCall
    <2>5. CASE Then(a, [n EXCEPT !.pos = "error"])
      <3> DEFINE m == [n EXCEPT !.pos = "error"]
      <3>1. /\ SameCall(n, m) /\ m.pos = "error" /\ m.failed = n.failed
            /\ m.row = n.row /\ m.old = n.old
        BY <2>4 DEF Has, OpFields, SameCall
      <3>2. Then(a, m) BY <2>5
      <3> HIDE DEF m, n
      <3>3. o2 = m /\ \A x \in Actor \ {a} : op'[x] = op[x] BY <1>2, <3>2
      <3>4. SameCall(o, o2) BY <2>4, <3>1, <3>3 DEF SameCall
      <3>5. Rests(o, o2) BY <2>2, <2>4, <3>1, <3>3 DEF Rests, Quiet
      <3> QED BY <2>2, <3>3, <3>4, <3>5 DEF Moves
    <2>6. CASE peers[k].exists /\ Then(a, UpdatePeer(n, row))
      <3> DEFINE m == UpdatePeer(n, row)
      <3>1. k \in Key BY <1>1, <2>2 DEF Fit
      <3>2. Shaped(peers[k]) /\ peers[k].id = k BY <1>1, <2>6, <3>1, TableExists
      <3>3. Shaped(row) /\ row.id = k /\ row.auto = peers[k].auto /\ row.owner = peers[k].owner
        <4>1. /\ Has(row, PeerFields) /\ row.exists = TRUE /\ row.id = k
              /\ row.pub = peers[k].pub
              /\ row.auto = peers[k].auto /\ row.owner = peers[k].owner
          BY <3>2 DEF Shaped, Has, PeerFields
        <4> QED BY <3>2, <4>1 DEF Shaped
      <3>4. Then(a, m) BY <2>6
      <3> HIDE DEF n, row
      <3>5. /\ SameCall(n, m) /\ m.todo = n.todo /\ m.failed = n.failed
            /\ \/ m.pos = "error" /\ m.row = n.row /\ m.old = n.old
               \/ Wants(m)
        BY <1>1, <2>4, <3>1, <3>3, UpdateWants
      <3> HIDE DEF m
      <3>6. o2 = m /\ \A x \in Actor \ {a} : op'[x] = op[x] BY <1>2, <3>4
      <3>7. SameCall(o, o2) BY <2>4, <3>5, <3>6 DEF SameCall
      <3>8. Rests(o, o2) \/ Finds(o, o2) BY <2>2, <2>4, <3>5, <3>6 DEF Rests, Finds, Quiet
      <3> QED BY <2>2, <3>6, <3>7, <3>8 DEF Moves
    <2> QED BY <2>1, <2>5, <2>6 DEF td, d
  <1>7. CASE BulkDelete(a)
    <2>1. PICK k \in o.todo :
            LET n == [o EXCEPT !.todo = @ \ {k}]
            IN  Then(a, IF DeleteAllowed(n.ctx, k) THEN [n EXCEPT !.pos = "unlink", !.old = k]
                        ELSE [n EXCEPT !.pos = "error"])
      BY <1>7, Zenon DEF BulkDelete
    <2> DEFINE td == o.todo \ {k}
               n == [o EXCEPT !.todo = td]
    <2>2. /\ o.kind = "bulkDelete" /\ o.pos = "next" /\ Quiet
          /\ userLockMap' = userLockMap /\ excused' = excused
      BY <1>7 DEF BulkDelete, KeepStored, Keep, Quiet
    <2>3. td \subseteq o.todo OBVIOUS
    <2> HIDE DEF td
    <2>4. CASE Then(a, [n EXCEPT !.pos = "error"])
      <3> DEFINE m == [n EXCEPT !.pos = "error"]
      <3>1. /\ m.pos = "error" /\ m.failed = o.failed /\ m.row = o.row /\ m.old = o.old
            /\ SameCall(o, m)
        BY <1>1, <2>3 DEF Has, OpFields, SameCall
      <3>2. Then(a, m) BY <2>4
      <3> HIDE DEF m
      <3>3. o2 = m /\ \A x \in Actor \ {a} : op'[x] = op[x] BY <1>2, <3>2
      <3>4. Rests(o, o2) BY <2>2, <3>1, <3>3 DEF Rests, Quiet
      <3> QED BY <2>2, <3>1, <3>3, <3>4 DEF Moves
    <2>5. CASE Then(a, [n EXCEPT !.pos = "unlink", !.old = k])
      <3> DEFINE m == [n EXCEPT !.pos = "unlink", !.old = k]
      <3>1. /\ m.pos = "unlink" /\ m.failed = o.failed /\ m.row = o.row /\ SameCall(o, m)
        BY <1>1, <2>3 DEF Has, OpFields, SameCall
      <3>2. Then(a, m) BY <2>5
      <3> HIDE DEF m
      <3>3. o2 = m /\ \A x \in Actor \ {a} : op'[x] = op[x] BY <1>2, <3>2
      <3>4. Reaches(o, o2) BY <2>2, <3>1, <3>3 DEF Reaches
      <3> QED BY <2>2, <3>1, <3>3, <3>4 DEF Moves
    <2> QED BY <2>1, <2>4, <2>5 DEF td
  <1>8. CASE RereadOld(a)
    <2>1. /\ o.pos = "reread" /\ Quiet /\ userLockMap' = userLockMap /\ excused' = excused
          /\ \/ DeleteAllowed(o.ctx, o.old) /\ Then(a, [o EXCEPT !.pos = "unlink"])
             \/ ~ DeleteAllowed(o.ctx, o.old) /\ Then(a, [o EXCEPT !.pos = "error"])
      BY <1>8 DEF RereadOld, KeepStored, Keep, Quiet
    <2>2. ASSUME NEW p, Then(a, [o EXCEPT !.pos = p])
          PROVE  /\ \A x \in Actor \ {a} : op'[x] = op[x]
                 /\ SameCall(o, o2) /\ o2.pos = p /\ SameWish(o, o2)
      <3>1. o2 = [o EXCEPT !.pos = p] /\ \A x \in Actor \ {a} : op'[x] = op[x] BY <1>2, <2>2
      <3> QED BY <1>1, <3>1 DEF Has, OpFields, SameCall, SameWish
    <2>3. CASE DeleteAllowed(o.ctx, o.old) /\ Then(a, [o EXCEPT !.pos = "unlink"])
      <3>1. Reaches(o, o2) BY <2>1, <2>2, <2>3 DEF Reaches, SameWish
      <3> QED BY <2>1, <2>2, <2>3, <3>1 DEF Moves
    <2>4. CASE ~ DeleteAllowed(o.ctx, o.old) /\ Then(a, [o EXCEPT !.pos = "error"])
      <3>1. Rests(o, o2) BY <2>1, <2>2, <2>4 DEF Rests, SameWish, Quiet
      <3> QED BY <2>1, <2>2, <2>4, <3>1 DEF Moves
    <2> QED BY <2>1, <2>3, <2>4
  <1>9. ASSUME NEW p, p \in {"next", "ok", "error"}, peers' = peers,
                userLockMap' = userLockMap, excused => excused',
                Then(a, [o EXCEPT !.pos = p, !.failed = TRUE])
         PROVE  Moves(a) /\ \A x \in Actor \ {a} : op'[x] = op[x]
    <2>1. o2 = [o EXCEPT !.pos = p, !.failed = TRUE] /\ \A x \in Actor \ {a} : op'[x] = op[x]
      BY <1>2, <1>9
    <2>2. /\ SameCall(o, o2) /\ o2.pos = p /\ o2.failed = TRUE /\ o2.row = o.row /\ o2.old = o.old
      BY <1>1, <2>1 DEF Has, OpFields, SameCall
    <2>3. Rests(o, o2) BY <1>9, <2>2 DEF Rests
    <2> QED BY <1>9, <2>1, <2>2, <2>3 DEF Moves
  <1>10. ASSUME NEW p, Then(a, [o EXCEPT !.pos = p])
         PROVE  /\ \A x \in Actor \ {a} : op'[x] = op[x]
                /\ SameCall(o, o2) /\ o2.pos = p /\ SameWish(o, o2)
    <2>1. o2 = [o EXCEPT !.pos = p] /\ \A x \in Actor \ {a} : op'[x] = op[x] BY <1>2, <1>10
    <2> QED BY <1>1, <2>1 DEF Has, OpFields, SameCall, SameWish
  <1>11. CASE DeletePeer(a)
    <2>1. /\ o.pos = "unlink" /\ peers' = peers /\ userLockMap' = userLockMap
          /\ excused' = excused
      BY <1>11 DEF DeletePeer, Keep
    <2>2. CASE served' = served \ {o.old} /\ Then(a, [o EXCEPT !.pos = "remove"])
      <3>1. Unlinks(o, o2) BY <1>10, <2>1, <2>2 DEF Unlinks
      <3> QED BY <1>10, <2>1, <2>2, <3>1 DEF Moves
    <2>3. CASE Then(a, [o EXCEPT !.pos = "error", !.failed = TRUE]) BY <1>9, <2>1, <2>3
    <2> QED BY <1>11, <2>2, <2>3 DEF DeletePeer
  <1>12. CASE DeletePeerRow(a)
    <2>1. /\ o.pos = "remove" /\ served' = served /\ userLockMap' = userLockMap
          /\ excused' = excused
      BY <1>12 DEF DeletePeerRow, Keep
    <2>2. CASE /\ peers' = [peers EXCEPT ![o.old] = NoPeer]
               /\ Then(a, [o EXCEPT !.pos = IF o.row = NoPeer THEN Onward(a, TRUE) ELSE "save"])
      <3> DEFINE p == IF o.row = NoPeer THEN Onward(a, TRUE) ELSE "save"
      <3>1. IF o.row = NoPeer THEN p \in {"next", "ok"} /\ (p = "next" => o.todo # {})
            ELSE p = "save"
        BY DEF Onward
      <3> HIDE DEF p
      <3>2. Then(a, [o EXCEPT !.pos = p]) BY <2>2 DEF p
      <3>3. Removes(o, o2) BY <1>10, <2>1, <2>2, <3>1, <3>2 DEF Removes, TakesOut
      <3> QED BY <1>10, <2>1, <3>2, <3>3 DEF Moves
    <2>3. CASE peers' = peers /\ Then(a, [o EXCEPT !.pos = "error", !.failed = TRUE])
      BY <1>9, <2>1, <2>3
    <2> QED BY <1>12, <2>2, <2>3 DEF DeletePeerRow
  <1>13. CASE SavePeer(a)
    <2>1. /\ o.pos = "save" /\ userLockMap' = userLockMap
          /\ (excused => excused') /\ (Revives(a) => excused')
      BY <1>13 DEF SavePeer, Keep
    <2>2. CASE /\ peers' = Upserted(o.row) /\ served' = Served(o.row)
               /\ Then(a, [o EXCEPT !.pos = Onward(a, TRUE)])
      <3> DEFINE p == Onward(a, TRUE)
      <3>1. p \in {"next", "ok"} /\ (p = "next" => o.todo # {}) BY DEF Onward
      <3> HIDE DEF p
      <3>2. Then(a, [o EXCEPT !.pos = p]) BY <2>2 DEF p
      <3>3. Saves(o, o2) BY <1>10, <2>1, <2>2, <3>1, <3>2 DEF Saves
      <3> QED BY <1>10, <2>1, <3>2, <3>3 DEF Moves
    <2>3. CASE peers' = peers /\ Then(a, [o EXCEPT !.pos = Onward(a, FALSE), !.failed = TRUE])
      <3> DEFINE p == Onward(a, FALSE)
      <3>1. p \in {"next", "ok", "error"} BY DEF Onward
      <3> HIDE DEF p
      <3>2. Then(a, [o EXCEPT !.pos = p, !.failed = TRUE]) BY <2>3 DEF p
      <3> QED BY <1>9, <2>1, <2>3, <3>1, <3>2
    <2> QED BY <1>13, <2>2, <2>3 DEF SavePeer
  <1>14. CASE Return(a)
    <2>1. o2 = Idle /\ \A x \in Actor \ {a} : op'[x] = op[x] BY <1>2, <1>14 DEF Return
    <2> QED BY <1>14, <2>1 DEF Return, KeepStored, Returns
  <1> QED BY <1>3, <1>4, <1>5, <1>6, <1>7, <1>8, <1>11, <1>12, <1>13, <1>14 DEF GoesOn

---------------------------------------------------------------------------
(* What a request or an event is when it begins                            *)

NewCreate(o) ==
    /\ o.kind = "create" /\ o.pos = "prepare" /\ ~ o.row.auto
    /\ (o.ctx.admin /\ o.row.private) => o.chosen \/ o.row.addr = FreshAddress

NewUpdate(o) == o.kind = "update" /\ o.todo = {} /\ Wants(o)

NewDelete(o) ==
    /\ o.kind = "delete" /\ o.pos = "unlink" /\ o.row = NoPeer /\ o.todo = {}
    /\ o.old \in Key /\ o.keys = {o.old} /\ peers[o.old].exists

NewList(o) ==
    /\ o.kind \in {"multiple", "bulkEnable", "bulkDisable", "bulkDelete"}
    /\ o.pos = "next" /\ o.row = NoPeer

NewDefault(a, o) ==
    /\ o.kind = "default" /\ o.pos = "next" /\ a \in Handler
    /\ \/ a = "interface" /\ o.user = "nobody" /\ userLockMap' = userLockMap
       \/ /\ a # "interface" /\ o.user \in User /\ o.todo = {o.user}
          /\ o.user \notin userLockMap /\ userLockMap' = userLockMap \union {o.user}

IsNew(a, o) ==
    /\ Has(o, OpFields) /\ ~ o.failed /\ o.count = Count
    /\ \/ /\ NewCreate(o) \/ NewUpdate(o) \/ NewDelete(o) \/ NewList(o)
          /\ o.user = "nobody" /\ userLockMap' = userLockMap
       \/ NewDefault(a, o)

Starts(a) ==
    /\ op[a] = Idle /\ IsNew(a, op'[a]) /\ Quiet /\ (op'[a].crowd <=> Crowded(a))
    /\ \A x \in Actor \ {a} : IF op[x] = Idle THEN op'[x] = Idle
                              ELSE op'[x] = [op[x] EXCEPT !.crowd = TRUE]
    /\ excused => excused'
    /\ (/\ a \in Handler
        /\ \E x \in Handler \ {a} : op[x] # Idle /\ "interface" \in {a, x}) => excused'

LEMMA BeginStarts ==
    ASSUME Inv, NEW a \in Actor, NEW rec, Begin(a, rec), IsNew(a, rec) PROVE Starts(a)
  <1> DEFINE c == Crowded(a)
             n == [rec EXCEPT !.crowd = c]
  <1>1. op' = [x \in Actor |-> IF x = a THEN n
                              ELSE IF Running(x) THEN [op[x] EXCEPT !.crowd = TRUE] ELSE op[x]]
    BY DEF Begin
  <1>2. Has(rec, OpFields) BY DEF IsNew
  <1> HIDE DEF c
  <1>3. /\ Has(n, OpFields) /\ n.crowd = c /\ n.kind = rec.kind /\ n.pos = rec.pos
        /\ n.row = rec.row /\ n.ctx = rec.ctx /\ n.chosen = rec.chosen /\ n.todo = rec.todo
        /\ n.old = rec.old /\ n.keys = rec.keys /\ n.user = rec.user /\ n.failed = rec.failed
        /\ n.count = rec.count
    BY <1>2 DEF Has, OpFields
  <1> HIDE DEF n
  <1>4. op'[a] = n BY <1>1
  <1>5. IsNew(a, n)
    <2>1. NewCreate(rec) => NewCreate(n) BY <1>3 DEF NewCreate
    <2>2. NewUpdate(rec) => NewUpdate(n) BY <1>3 DEF NewUpdate, Wants
    <2>3. NewDelete(rec) => NewDelete(n) BY <1>3 DEF NewDelete
    <2>4. NewList(rec) => NewList(n) BY <1>3 DEF NewList
    <2>5. NewDefault(a, rec) => NewDefault(a, n) BY <1>3 DEF NewDefault
    <2> QED BY <1>3, <2>1, <2>2, <2>3, <2>4, <2>5 DEF IsNew
  <1>6. n.crowd <=> Crowded(a) BY <1>3 DEF c
  <1>7. \A x \in Actor \ {a} : IF op[x] = Idle THEN op'[x] = Idle
                               ELSE op'[x] = [op[x] EXCEPT !.crowd = TRUE]
    BY <1>1 DEF Running
  <1>8. op[a] = Idle /\ Quiet BY DEF Begin, Quiet
  <1>9. excused' <=> (excused \/ /\ a \in Handler
                                 /\ \E x \in Handler \ {a} : Running(x) /\ "interface" \in {a, x})
    BY DEF Begin
  <1> QED BY <1>4, <1>5, <1>6, <1>7, <1>8, <1>9 DEF Starts, Running

LEMMA RequestStart ==
    ASSUME NEW kind, NEW pos, NEW ctx, NEW q, q = Request(kind, pos, ctx)
    PROVE  /\ Has(q, OpFields) /\ q.kind = kind /\ q.pos = pos /\ q.ctx = ctx /\ ~ q.failed
           /\ q.row = NoPeer /\ q.todo = {} /\ q.user = "nobody" /\ q.count = Count
  <1>1. ~ q.failed /\ q.user = "nobody" /\ q.count = Count BY DEF Request, Count
  <1> QED BY <1>1, RequestFacts

LEMMA BeginsStart == ASSUME Inv, NEW a \in Actor, Begins(a) PROVE Starts(a)
  <1>1. CASE HandleCreatePost(a)
    <2>1. PICK ctx \in Caller, form \in Form :
            Begin(a, [Request("create", "prepare", ctx) EXCEPT
                        !.row = NewDomainPeer(form), !.keys = {form.id, form.pub},
                        !.chosen = ctx.admin /\ form.private])
      BY <1>1 DEF HandleCreatePost
    <2> DEFINE q == Request("create", "prepare", ctx)
               row == NewDomainPeer(form)
               ks == {form.id, form.pub}
               ch == ctx.admin /\ form.private
               rec == [q EXCEPT !.row = row, !.keys = ks, !.chosen = ch]
    <2>2. Begin(a, rec) /\ userLockMap' = userLockMap BY <1>1, <2>1 DEF HandleCreatePost
    <2>3. Shaped(form) BY FormFacts
    <2>4. row.auto = FALSE /\ row.private = form.private
      BY <2>3 DEF NewDomainPeer, Shaped, Has, PeerFields
    <2>5. /\ Has(q, OpFields) /\ q.kind = "create" /\ q.pos = "prepare" /\ q.ctx = ctx
          /\ ~ q.failed /\ q.user = "nobody" /\ q.count = Count
      BY RequestStart
    <2>6. ctx.admin /\ form.private => ch OBVIOUS
    <2> HIDE DEF q, row, ks, ch
    <2>7. /\ Has(rec, OpFields) /\ rec.kind = "create" /\ rec.pos = "prepare" /\ rec.row = row
          /\ rec.ctx = ctx /\ rec.chosen = ch /\ ~ rec.failed /\ rec.user = "nobody"
          /\ rec.count = Count
      BY <2>5 DEF Has, OpFields
    <2> HIDE DEF rec
    <2>8. IsNew(a, rec) BY <2>2, <2>4, <2>6, <2>7 DEF IsNew, NewCreate
    <2> QED BY <2>2, <2>8, BeginStarts
  <1>2. CASE HandleCreatePostV1(a)
    <2>1. PICK form \in Form :
            Begin(a, [Request("create", "prepare", Admin) EXCEPT
                        !.row = NewDomainPeerV1(form), !.keys = {form.id},
                        !.chosen = form.private])
      BY <1>2 DEF HandleCreatePostV1
    <2> DEFINE q == Request("create", "prepare", Admin)
               row == NewDomainPeerV1(form)
               ks == {form.id}
               ch == form.private
               rec == [q EXCEPT !.row = row, !.keys = ks, !.chosen = ch]
    <2>2. Begin(a, rec) /\ userLockMap' = userLockMap BY <1>2, <2>1 DEF HandleCreatePostV1
    <2>3. Shaped(form) BY FormFacts
    <2>4. row.auto = FALSE /\ row.private = form.private
      BY <2>3 DEF NewDomainPeerV1, Shaped, Has, PeerFields
    <2>5. /\ Has(q, OpFields) /\ q.kind = "create" /\ q.pos = "prepare"
          /\ ~ q.failed /\ q.user = "nobody" /\ q.count = Count
      BY RequestStart
    <2>6. ch = form.private OBVIOUS
    <2> HIDE DEF q, row, ks, ch
    <2>7. /\ Has(rec, OpFields) /\ rec.kind = "create" /\ rec.pos = "prepare" /\ rec.row = row
          /\ rec.chosen = ch /\ ~ rec.failed /\ rec.user = "nobody"
          /\ rec.count = Count
      BY <2>5 DEF Has, OpFields
    <2> HIDE DEF rec
    <2>8. IsNew(a, rec) BY <2>2, <2>4, <2>6, <2>7 DEF IsNew, NewCreate
    <2> QED BY <2>2, <2>8, BeginStarts
  <1>3. CASE HandleNewPeerPost(a)
    <2>1. PICK ctx \in Caller, owner \in User : NewPeer(a, ctx, owner)
      BY <1>3 DEF HandleNewPeerPost
    <2>2. PICK k \in FreshKeys, given \in {TRUE, FALSE} :
            LET form == [PreparePeer(ctx, k) EXCEPT !.owner = owner, !.private = ~ given]
            IN  Begin(a, [Request("create", "prepare", ctx) EXCEPT !.row = form, !.keys = {k},
                            !.made = IF given THEN {} ELSE {k}])
      BY <2>1 DEF NewPeer
    <2> DEFINE q == Request("create", "prepare", ctx)
               g == ~ given
               row == [PreparePeer(ctx, k) EXCEPT !.owner = owner, !.private = g]
               ks == {k}
               md == IF given THEN {} ELSE {k}
               rec == [q EXCEPT !.row = row, !.keys = ks, !.made = md]
    <2>3. Begin(a, rec) /\ userLockMap' = userLockMap BY <2>1, <2>2 DEF NewPeer
    <2>4. row.auto = FALSE /\ row.addr = FreshAddress BY DEF PreparePeer
    <2>5. /\ Has(q, OpFields) /\ q.kind = "create" /\ q.pos = "prepare"
          /\ ~ q.failed /\ q.user = "nobody" /\ q.count = Count
      BY RequestStart
    <2> HIDE DEF q, g, row, ks, md
    <2>6. /\ Has(rec, OpFields) /\ rec.kind = "create" /\ rec.pos = "prepare" /\ rec.row = row
          /\ ~ rec.failed /\ rec.user = "nobody" /\ rec.count = Count
      BY <2>5 DEF Has, OpFields
    <2> HIDE DEF rec
    <2>7. IsNew(a, rec) BY <2>3, <2>4, <2>6 DEF IsNew, NewCreate
    <2> QED BY <2>3, <2>7, BeginStarts
  <1>4. CASE HandleCreateMultiplePost(a)
    <2> DEFINE q == Request("multiple", "next", Admin)
               rec == [q EXCEPT !.todo = User]
    <2>1. Begin(a, rec) /\ userLockMap' = userLockMap BY <1>4 DEF HandleCreateMultiplePost
    <2>2. /\ Has(q, OpFields) /\ q.kind = "multiple" /\ q.pos = "next" /\ q.row = NoPeer
          /\ ~ q.failed /\ q.user = "nobody" /\ q.count = Count
      BY RequestStart
    <2> HIDE DEF q
    <2>3. /\ Has(rec, OpFields) /\ rec.kind = "multiple" /\ rec.pos = "next" /\ rec.row = NoPeer
          /\ ~ rec.failed /\ rec.user = "nobody" /\ rec.count = Count
      BY <2>2 DEF Has, OpFields
    <2> HIDE DEF rec
    <2>4. IsNew(a, rec) BY <2>1, <2>3 DEF IsNew, NewList
    <2> QED BY <2>1, <2>4, BeginStarts
  <1>5. ASSUME NEW ctx, NEW k \in Existing, NEW form, form \in Edits(k),
               UpdatePeer(Request("update", "read", ctx), [form EXCEPT !.auto = FALSE]).pos # "error",
               Begin(a, UpdatePeer(Request("update", "read", ctx), [form EXCEPT !.auto = FALSE])),
               userLockMap' = userLockMap
        PROVE  Starts(a)
    <2> DEFINE q == Request("update", "read", ctx)
               sent == [form EXCEPT !.auto = FALSE]
               rec == UpdatePeer(q, sent)
    <2>1. /\ Has(q, OpFields) /\ q.kind = "update" /\ q.todo = {}
          /\ ~ q.failed /\ q.user = "nobody" /\ q.count = Count
      BY RequestStart
    <2>2. k \in Key BY DEF Existing
    <2>3. Shaped(sent) /\ sent.id = k /\ sent.auto = FALSE BY <1>5, <2>2, EditFacts
    <2>4. rec.pos # "error" BY <1>5
    <2>5. Begin(a, rec) BY <1>5
    <2> HIDE DEF q, sent
    <2>6. SameCall(q, rec) /\ rec.failed = q.failed /\ Wants(rec)
      BY <2>1, <2>2, <2>3, <2>4, UpdateWants DEF Inv
    <2> HIDE DEF rec
    <2>7. /\ Has(rec, OpFields) /\ rec.kind = "update" /\ rec.todo = {} /\ ~ rec.failed
          /\ rec.user = "nobody" /\ rec.count = Count
      BY <2>1, <2>6 DEF SameCall
    <2>8. IsNew(a, rec) BY <1>5, <2>6, <2>7 DEF IsNew, NewUpdate
    <2> QED BY <2>5, <2>8, BeginStarts
  <1>6. CASE HandleUpdatePut(a)
    <2>1. PICK ctx \in Caller, k \in Existing : \E form \in Edits(k) :
            LET rec == UpdatePeer(Request("update", "read", ctx), NewDomainPeer(form))
            IN  rec.pos # "error" /\ Begin(a, rec) /\ userLockMap' = userLockMap
      BY <1>6, Zenon DEF HandleUpdatePut
    <2> QED BY <1>5, <2>1 DEF NewDomainPeer
  <1>7. CASE HandleUpdatePutV1(a)
    <2>1. PICK k \in Existing : \E form \in Edits(k) :
            LET rec == UpdatePeer(Request("update", "read", Admin), NewDomainPeerV1(form))
            IN  rec.pos # "error" /\ Begin(a, rec) /\ userLockMap' = userLockMap
      BY <1>7, Zenon DEF HandleUpdatePutV1
    <2> QED BY <1>5, <2>1 DEF NewDomainPeerV1
  <1>8. ASSUME NEW ctx, DeleteFor(a, ctx) PROVE Starts(a)
    <2>1. PICK k \in Key :
            /\ DeleteAllowed(ctx, k)
            /\ Begin(a, [Request("delete", "unlink", ctx) EXCEPT !.old = k, !.keys = {k}])
      BY <1>8 DEF DeleteFor
    <2> DEFINE q == Request("delete", "unlink", ctx)
               ks == {k}
               rec == [q EXCEPT !.old = k, !.keys = ks]
    <2>2. Begin(a, rec) /\ userLockMap' = userLockMap BY <1>8, <2>1 DEF DeleteFor
    <2>3. /\ Has(q, OpFields) /\ q.kind = "delete" /\ q.pos = "unlink" /\ q.row = NoPeer
          /\ q.todo = {} /\ ~ q.failed /\ q.user = "nobody" /\ q.count = Count
      BY RequestStart
    <2>4. peers[k].exists BY <2>1 DEF DeleteAllowed
    <2>5. ks = {k} OBVIOUS
    <2> HIDE DEF q, ks
    <2>6. /\ Has(rec, OpFields) /\ rec.kind = "delete" /\ rec.pos = "unlink" /\ rec.row = NoPeer
          /\ rec.todo = {} /\ ~ rec.failed /\ rec.user = "nobody" /\ rec.count = Count
          /\ rec.old = k /\ rec.keys = ks
      BY <2>3 DEF Has, OpFields
    <2> HIDE DEF rec
    <2>7. IsNew(a, rec) BY <2>2, <2>4, <2>5, <2>6 DEF IsNew, NewDelete
    <2> QED BY <2>2, <2>7, BeginStarts
  <1>9. ASSUME NEW kind \in {"bulkEnable", "bulkDisable", "bulkDelete"}, HandleBulkPost(a, kind)
        PROVE  Starts(a)
    <2>1. PICK ctx \in Caller, ks \in SUBSET Existing :
            Begin(a, [Request(kind, "next", ctx) EXCEPT !.todo = ks, !.keys = ks])
      BY <1>9 DEF HandleBulkPost
    <2> DEFINE q == Request(kind, "next", ctx)
               rec == [q EXCEPT !.todo = ks, !.keys = ks]
    <2>2. Begin(a, rec) /\ userLockMap' = userLockMap BY <1>9, <2>1 DEF HandleBulkPost
    <2>3. /\ Has(q, OpFields) /\ q.kind = kind /\ q.pos = "next" /\ q.row = NoPeer
          /\ ~ q.failed /\ q.user = "nobody" /\ q.count = Count
      BY RequestStart
    <2> HIDE DEF q
    <2>4. /\ Has(rec, OpFields) /\ rec.kind = kind /\ rec.pos = "next" /\ rec.row = NoPeer
          /\ ~ rec.failed /\ rec.user = "nobody" /\ rec.count = Count
      BY <2>3 DEF Has, OpFields
    <2> HIDE DEF rec
    <2>5. IsNew(a, rec) BY <1>9, <2>2, <2>4 DEF IsNew, NewList
    <2> QED BY <2>2, <2>5, BeginStarts
  <1> QED BY <1>1, <1>2, <1>3, <1>4, <1>6, <1>7, <1>8, <1>9
          DEF Begins, HandleDelete, HandleDeleteV1, HandleBulkEnable, HandleBulkDisable,
              HandleBulkDelete

LEMMA HandlersStart ==
    ASSUME Inv, \/ \E u \in User : HandleUserCreationEvent(u) \/ HandleUserLoginEvent(u)
                \/ HandleInterfaceCreatedEvent
    PROVE  \E a \in Actor : Starts(a)
  <1> DEFINE q == Request("default", "next", System)
  <1>1. /\ Has(q, OpFields) /\ q.kind = "default" /\ q.pos = "next"
        /\ ~ q.failed /\ q.user = "nobody" /\ q.count = Count
    BY RequestStart
  <1>2. Handler \subseteq Actor /\ Handler = {"created", "login", "interface"}
    BY DEF Actor, Handler
  <1>3. CASE HandleInterfaceCreatedEvent
    <2> DEFINE rec == [q EXCEPT !.todo = User]
    <2>1. Begin("interface", rec) /\ userLockMap' = userLockMap
      BY <1>3 DEF HandleInterfaceCreatedEvent, DefaultForAll
    <2> HIDE DEF q
    <2>2. /\ Has(rec, OpFields) /\ rec.kind = "default" /\ rec.pos = "next"
          /\ ~ rec.failed /\ rec.user = "nobody" /\ rec.count = Count
      BY <1>1 DEF Has, OpFields
    <2> HIDE DEF rec
    <2>3. IsNew("interface", rec) BY <1>2, <2>1, <2>2 DEF IsNew, NewDefault
    <2> QED BY <1>2, <2>1, <2>3, BeginStarts
  <1>4. ASSUME NEW u \in User, NEW a \in {"created", "login"}, LockUser(a, u, DefaultFor(u))
        PROVE  Starts(a)
    <2> DEFINE us == {u}
               rec == [q EXCEPT !.todo = us, !.user = u]
    <2>1. Begin(a, rec) /\ u \notin userLockMap /\ userLockMap' = userLockMap \union {u}
      BY <1>4 DEF LockUser, DefaultFor
    <2>2. us = {u} OBVIOUS
    <2> HIDE DEF q, us
    <2>3. /\ Has(rec, OpFields) /\ rec.kind = "default" /\ rec.pos = "next"
          /\ ~ rec.failed /\ rec.user = u /\ rec.todo = us /\ rec.count = Count
      BY <1>1 DEF Has, OpFields
    <2> HIDE DEF rec
    <2>4. IsNew(a, rec) BY <1>2, <1>4, <2>1, <2>2, <2>3 DEF IsNew, NewDefault
    <2> QED BY <1>2, <2>1, <2>4, BeginStarts
  <1> QED BY <1>2, <1>3, <1>4 DEF HandleUserCreationEvent, HandleUserLoginEvent

---------------------------------------------------------------------------
(* The number of peers *)

LEMMA CountFacts == IsFiniteSet(Existing) /\ Count \in Nat
  <1>1. IsFiniteSet(Key) BY PeerRequestsAssumption
  <1>2. Existing \in SUBSET Key BY DEF Existing
  <1>3. IsFiniteSet(Existing) BY <1>1, <1>2, FS_Subset
  <1> QED BY <1>3, FS_CardinalityType DEF Count

LEMMA CountRemove ==
    ASSUME TableShaped, NEW k \in Key, peers[k].exists, TakesOut(k)
    PROVE  /\ Count' = Count - 1
           /\ \A x \in Key : peers'[x] = IF x = k THEN NoPeer ELSE peers[x]
           /\ ~ peers'[k].exists
  <1>1. ASSUME NEW x \in Key PROVE peers'[x] = IF x = k THEN NoPeer ELSE peers[x]
    BY DEF TableShaped, TakesOut
  <1>2. ~ NoPeer.exists BY DEF NoPeer
  <1>3. Existing' = Existing \ {k} BY <1>1, <1>2 DEF Existing
  <1>4. k \in Existing BY DEF Existing
  <1>5. Count' = Cardinality(Existing \ {k}) BY <1>3 DEF Count
  <1> QED BY <1>1, <1>2, <1>4, <1>5, CountFacts, FS_RemoveElement DEF Count

LEMMA CountStore ==
    ASSUME TableShaped, NEW row, Shaped(row), peers' = Upserted(row)
    PROVE  /\ Count' = IF peers[row.id].exists THEN Count ELSE Count + 1
           /\ \A x \in Key : peers'[x] = IF x = row.id THEN row ELSE peers[x]
  <1>1. row.id \in Key /\ row.exists BY DEF Shaped
  <1>2. ASSUME NEW x \in Key PROVE peers'[x] = IF x = row.id THEN row ELSE peers[x]
    BY DEF TableShaped, Upserted
  <1>3. Existing' = Existing \union {row.id} BY <1>1, <1>2 DEF Existing
  <1>4. Count' = Cardinality(Existing \union {row.id}) BY <1>3 DEF Count
  <1>5. row.id \in Existing <=> peers[row.id].exists BY <1>1 DEF Existing
  <1> QED BY <1>2, <1>4, <1>5, CountFacts, FS_AddElement DEF Count

---------------------------------------------------------------------------
(* A step keeps what its request can count on *)

LEMMA SimpleKept ==
    ASSUME Inv, NEW a \in Actor, Moves(a), NEW o, o = op[a], NEW o2, o2 = op'[a],
           Simple(o), Fit(o)
    PROVE  Simple(o2)
  <1>1. o2.kind = o.kind /\ o2.user = o.user BY DEF Moves, SameCall
  <1>2. CASE Chooses(o, o2)
    <2>1. o.kind = "create" /\ Shaped(o.row) BY <1>2 DEF Chooses, Simple, Fit
    <2>2. ~ o2.row.auto /\ o2.pos = "save" BY <1>2, <2>1, ShapedExists DEF Chooses, Simple
    <2> QED BY <1>1, <2>1, <2>2 DEF Simple, Updates
  <1>3. CASE Prepares(o, o2) BY <1>1, <1>3 DEF Prepares, Simple, Updates
  <1>4. CASE Finds(o, o2) BY <1>1, <1>4 DEF Finds, Wants, Simple, Updates
  <1>5. CASE Rests(o, o2) BY <1>1, <1>5 DEF Rests, Simple, Updates
  <1>6. CASE Reaches(o, o2) BY <1>1, <1>6 DEF Reaches, SameWish, Simple, Updates
  <1>7. CASE Unlinks(o, o2) BY <1>1, <1>7 DEF Unlinks, SameWish, Simple, Updates
  <1>8. CASE Removes(o, o2) BY <1>1, <1>8 DEF Removes, SameWish, Simple, Updates
  <1>9. CASE Saves(o, o2) BY <1>1, <1>9 DEF Saves, SameWish, Simple, Updates
  <1> QED BY <1>2, <1>3, <1>4, <1>5, <1>6, <1>7, <1>8, <1>9 DEF Moves

\* addresses are chosen from the table of this moment
LEMMA AddressKept ==
    ASSUME Inv, NEW a \in Actor, Moves(a), NEW o, o = op[a], NEW o2, o2 = op'[a],
           Simple(o), AddressFree(o)
    PROVE  AddressFree(o2)'
  <1>1. o2.kind = o.kind /\ o2.crowd = o.crowd /\ o2.chosen = o.chosen BY DEF Moves, SameCall
  <1> SUFFICES ASSUME ~ o.crowd, ~ o.chosen, o.kind \in {"create", "multiple", "default"},
                      o2.pos \in {"save", "prepare"}
               PROVE  Free(o2.row.addr)'
    BY <1>1 DEF AddressFree
  <1>2. Quiet => \A n : Free(n)' = Free(n) BY DEF Quiet, Free, Existing
  <1>3. CASE Chooses(o, o2)
    <2>1. CASE o2.row.addr = FreshAddress BY <1>2, <1>3, <2>1, FreshIsFree DEF Chooses
    <2>2. CASE o.ctx.admin /\ o.row.private /\ o2.row.addr = o.row.addr
      BY <1>2, <1>3, <2>2 DEF Chooses, AddressFree
    <2> QED BY <1>3, <2>1, <2>2 DEF Chooses
  <1>4. CASE Prepares(o, o2) BY <1>2, <1>4, FreshIsFree DEF Prepares
  <1>5. CASE Finds(o, o2) BY <1>5 DEF Finds
  <1>6. CASE Rests(o, o2) BY <1>6 DEF Rests
  <1>7. CASE Reaches(o, o2) BY <1>7 DEF Reaches
  <1>8. CASE Unlinks(o, o2) BY <1>8 DEF Unlinks
  <1>9. CASE Removes(o, o2) BY <1>9 DEF Removes, Simple, Updates
  <1>10. CASE Saves(o, o2) BY <1>10 DEF Saves
  <1> QED BY <1>3, <1>4, <1>5, <1>6, <1>7, <1>8, <1>9, <1>10 DEF Moves

LEMMA UpdateKept ==
    ASSUME Inv, NEW a \in Actor, Moves(a), NEW o, o = op[a], NEW o2, o2 = op'[a], Fit(o),
           o.kind \in Updates, ~ o2.failed, Simple(o),
           ~ o.failed => UpdateProgress(o) /\ RekeyProgress(o)
    PROVE  UpdateProgress(o2)' /\ RekeyProgress(o2)'
  <1>1. /\ o2.kind = o.kind /\ o2.ctx = o.ctx /\ o2.count = o.count /\ o2.todo \subseteq o.todo
    BY DEF Moves, SameCall
  <1>2. TableShaped BY DEF Inv
  <1>3. peers' = peers => /\ Count' = Count
                          /\ \A k : DeleteAllowed(o.ctx, k)' = DeleteAllowed(o.ctx, k)
    BY DEF Count, Existing, DeleteAllowed
  <1>4. CASE Chooses(o, o2) BY <1>4 DEF Chooses, Simple, Updates
  <1>5. CASE Prepares(o, o2) BY <1>5 DEF Prepares, Updates
  <1>6. CASE Finds(o, o2)
    <2>1. UpdateProgress(o) /\ o.pos = "next" /\ peers' = peers BY <1>6 DEF Finds, Quiet
    <2>2. o2.kind # "update" /\ Count' = o2.count
      BY <1>1, <1>3, <1>6, <2>1 DEF Finds, UpdateProgress
    <2>3. o2.pos \in {"save", "reread"} /\ peers'[o2.old].exists
      BY <1>6, <2>1 DEF Finds, Wants, DeleteAllowed
    <2>4. DeleteAllowed(o2.ctx, o2.old)' BY <1>1, <1>3, <1>6, <2>1 DEF Finds, Wants
    <2>5. UpdateProgress(o2)' BY <1>6, <2>1, <2>2, <2>3, <2>4 DEF Finds, Wants, UpdateProgress
    <2> QED BY <2>2, <2>3, <2>5 DEF RekeyProgress
  <1>7. CASE Rests(o, o2)
    <2>1. UpdateProgress(o) /\ peers' = peers BY <1>7 DEF Rests
    <2>2. o.pos = "next" BY <1>7, <2>1 DEF Rests, UpdateProgress
    <2>3. o.kind # "update" /\ Count' = o2.count BY <1>1, <1>3, <2>1, <2>2 DEF UpdateProgress
    <2> QED BY <1>1, <1>7, <2>3 DEF Rests, UpdateProgress, RekeyProgress
  <1>8. CASE Reaches(o, o2)
    <2>1. /\ UpdateProgress(o) /\ o.pos = "reread" /\ o2.pos = "unlink" /\ SameWish(o, o2)
          /\ peers' = peers
      BY <1>8 DEF Reaches, Quiet, Updates
    <2>2. /\ Count' = o.count /\ Shaped(o.row) /\ o.old \in Key
          /\ DeleteAllowed(o.ctx, o.old)' /\ ~ peers'[o.row.id].exists
      BY <1>3, <2>1 DEF UpdateProgress
    <2>3. DeleteAllowed(o2.ctx, o2.old)' BY <1>1, <2>1, <2>2 DEF SameWish
    <2>4. o.kind = "update" => o2.todo = {} /\ o2.keys = {o2.old, o2.row.id}
      BY <1>1, <2>1 DEF UpdateProgress, SameWish
    <2> QED BY <1>1, <2>1, <2>2, <2>3, <2>4 DEF UpdateProgress, RekeyProgress, SameWish
  <1>9. CASE Unlinks(o, o2)
    <2>1. /\ UpdateProgress(o) /\ o.pos = "unlink" /\ o2.pos = "remove" /\ SameWish(o, o2)
          /\ peers' = peers /\ o2.old \notin served'
      BY <1>9 DEF Unlinks, SameWish
    <2>2. /\ Count' = o.count /\ Shaped(o.row) /\ o.old \in Key
          /\ DeleteAllowed(o.ctx, o.old)' /\ ~ peers'[o.row.id].exists
      BY <1>3, <2>1 DEF UpdateProgress
    <2>3. DeleteAllowed(o2.ctx, o2.old)' BY <1>1, <2>1, <2>2 DEF SameWish
    <2>4. o.kind = "update" => o2.todo = {} /\ o2.keys = {o2.old, o2.row.id}
      BY <1>1, <2>1 DEF UpdateProgress, SameWish
    <2> QED BY <1>1, <2>1, <2>2, <2>3, <2>4 DEF UpdateProgress, RekeyProgress, SameWish
  <1>10. CASE Removes(o, o2)
    <2>1. /\ UpdateProgress(o) /\ RekeyProgress(o) /\ o.pos = "remove" /\ SameWish(o, o2)
          /\ TakesOut(o.old) /\ served' = served
      BY <1>10 DEF Removes, SameWish
    <2>2. /\ Count = o.count /\ Shaped(o.row) /\ o.old \in Key
          /\ peers[o.old].exists /\ ~ peers[o.row.id].exists /\ o.old \notin served
      BY <2>1 DEF UpdateProgress, RekeyProgress, DeleteAllowed
    <2>3. o2.pos = "save" BY <1>10, <2>2, ShapedExists DEF Removes
    <2>4. /\ Count' = Count - 1 /\ ~ peers'[o.old].exists
          /\ \A x \in Key : peers'[x] = IF x = o.old THEN NoPeer ELSE peers[x]
      BY <1>2, <2>1, <2>2, CountRemove
    <2>5. o.row.id \in Key /\ o.row.id # o.old BY <2>2 DEF Shaped
    <2>6. ~ peers'[o.row.id].exists BY <2>2, <2>4, <2>5
    <2>7. o.kind = "update" => o2.todo = {} /\ o2.keys = {o2.old, o2.row.id}
      BY <1>1, <2>1 DEF UpdateProgress, SameWish
    <2>8. Count' + 1 = o.count BY <2>2, <2>4, CountFacts
    <2> QED BY <1>1, <2>1, <2>2, <2>3, <2>4, <2>5, <2>6, <2>7, <2>8
            DEF UpdateProgress, RekeyProgress, SameWish
  <1>11. CASE Saves(o, o2)
    <2>1. /\ UpdateProgress(o) /\ o.pos = "save" /\ SameWish(o, o2) /\ o2.pos \in {"next", "ok"}
          /\ peers' = Upserted(o.row) /\ served' = Served(o.row)
          /\ o2.pos = "next" => o.todo # {}
      BY <1>11 DEF Saves, SameWish
    <2>2. Shaped(o.row) BY <2>1 DEF Fit
    <2>3. /\ Count' = IF peers[o.row.id].exists THEN Count ELSE Count + 1
          /\ \A x \in Key : peers'[x] = IF x = o.row.id THEN o.row ELSE peers[x]
      BY <1>2, <2>1, <2>2, CountStore
    <2>4. o.row.id \in Key /\ o.row.exists BY <2>2 DEF Shaped
    <2>5. Count' = o2.count
      <3>1. CASE peers[o.row.id].exists BY <1>1, <2>1, <2>3, <3>1 DEF UpdateProgress
      <3>2. CASE ~ peers[o.row.id].exists BY <1>1, <2>1, <2>3, <3>2 DEF UpdateProgress
      <3> QED BY <3>1, <3>2
    <2>6. ASSUME o.kind = "update"
          PROVE  /\ o2.pos = "ok" /\ o2.todo = {} /\ o2.keys = {o2.old, o2.row.id}
                 /\ peers'[o2.row.id] = o2.row
                 /\ \A k \in o2.keys : (k \in served') = (peers'[k].exists /\ ~ peers'[k].disabled)
      <3>1. o.todo = {} /\ o.keys = {o.old, o.row.id} BY <2>1, <2>6 DEF UpdateProgress
      <3>2. o2.pos = "ok" /\ o2.todo = {} BY <1>1, <2>1, <3>1
      <3>3. peers'[o.row.id] = o.row BY <2>3, <2>4
      <3>4. (o.row.id \in served') = (peers'[o.row.id].exists /\ ~ peers'[o.row.id].disabled)
        BY <2>1, <2>4, <3>3 DEF Served
      <3>5. ASSUME o.old # o.row.id
            PROVE  (o.old \in served') = (peers'[o.old].exists /\ ~ peers'[o.old].disabled)
        <4>1. ~ peers[o.old].exists /\ o.old \notin served BY <2>1, <3>5 DEF UpdateProgress
        <4>2. peers'[o.old] = peers[o.old]
          BY <1>2, <2>1, <3>5 DEF Upserted, TableShaped
        <4> QED BY <2>1, <3>5, <4>1, <4>2 DEF Served
      <3> QED BY <2>1, <3>1, <3>2, <3>3, <3>4, <3>5 DEF SameWish
    <2> QED BY <1>1, <2>1, <2>5, <2>6 DEF UpdateProgress, RekeyProgress
  <1> QED BY <1>4, <1>5, <1>6, <1>7, <1>8, <1>9, <1>10, <1>11 DEF Moves

LEMMA DeleteKept ==
    ASSUME Inv, NEW a \in Actor, Moves(a), NEW o, o = op[a], NEW o2, o2 = op'[a],
           o.kind = "delete", ~ o2.failed, Simple(o),
           ~ o.failed => DeleteProgress(o)
    PROVE  DeleteProgress(o2)'
  <1>1. o2.kind = o.kind /\ o2.count = o.count /\ o2.todo \subseteq o.todo
    BY DEF Moves, SameCall
  <1>2. TableShaped BY DEF Inv
  <1>3. CASE Chooses(o, o2) BY <1>3 DEF Chooses, Simple
  <1>4. CASE Prepares(o, o2) BY <1>4 DEF Prepares
  <1>5. CASE Finds(o, o2) BY <1>5 DEF Finds
  <1>6. CASE Rests(o, o2) BY <1>6 DEF Rests, DeleteProgress
  <1>7. CASE Reaches(o, o2) BY <1>7 DEF Reaches, DeleteProgress, SameWish
  <1>8. CASE Unlinks(o, o2)
    <2>1. /\ DeleteProgress(o) /\ o.pos = "unlink" /\ o2.pos = "remove" /\ SameWish(o, o2)
          /\ peers' = peers /\ served' = served \ {o.old}
      BY <1>8 DEF Unlinks, SameWish
    <2>2. Count' = Count /\ o.old \notin served' BY <2>1 DEF Count, Existing
    <2> QED BY <1>1, <2>1, <2>2 DEF DeleteProgress, SameWish
  <1>9. CASE Removes(o, o2)
    <2>1. /\ DeleteProgress(o) /\ o.pos = "remove" /\ SameWish(o, o2)
          /\ TakesOut(o.old) /\ served' = served
      BY <1>9 DEF Removes, SameWish
    <2>2. /\ o.row = NoPeer /\ o.todo = {} /\ o.keys = {o.old} /\ o.old \in Key
          /\ Count = o.count /\ peers[o.old].exists /\ o.old \notin served
      BY <2>1 DEF DeleteProgress
    <2>3. Count' = Count - 1 /\ ~ peers'[o.old].exists BY <1>2, <2>1, <2>2, CountRemove
    <2>4. o2.pos = "ok" BY <1>9, <2>2 DEF Removes
    <2> QED BY <1>1, <2>1, <2>2, <2>3, <2>4 DEF DeleteProgress, SameWish
  <1>10. CASE Saves(o, o2) BY <1>10 DEF Saves, DeleteProgress, SameWish
  <1> QED BY <1>3, <1>4, <1>5, <1>6, <1>7, <1>8, <1>9, <1>10 DEF Moves

LEMMA ProgressKept ==
    ASSUME Inv, NEW a \in Actor, Moves(a), NEW o, o = op[a], NEW o2, o2 = op'[a],
           Simple(o), Fit(o), Progress(o)
    PROVE  Progress(o2)'
  <1>1. o2.kind = o.kind /\ o2.crowd = o.crowd BY DEF Moves, SameCall
  <1>2. ASSUME ~ o.crowd, ~ o2.failed, o.kind \in Updates
        PROVE  UpdateProgress(o2)' /\ RekeyProgress(o2)'
    BY <1>2, UpdateKept DEF Progress
  <1>3. ASSUME ~ o.crowd, ~ o2.failed, o.kind = "delete" PROVE DeleteProgress(o2)'
    BY <1>3, DeleteKept DEF Progress
  <1> QED BY <1>1, <1>2, <1>3 DEF Progress

\* which peers are default peers after a change of the table
LEMMA DefaultsAfterRemove ==
    ASSUME TableShaped, NEW d \in Key, TakesOut(d),
           NEW k \in Key, NEW u
    PROVE  DefaultPeerOf(k, u)' <=> k # d /\ DefaultPeerOf(k, u)
  <1>1. peers'[k] = IF k = d THEN NoPeer ELSE peers[k] BY DEF TableShaped, TakesOut
  <1>2. ~ NoPeer.exists BY DEF NoPeer
  <1> QED BY <1>1, <1>2 DEF DefaultPeerOf

LEMMA DefaultsAfterStore ==
    ASSUME TableShaped, NEW row, Shaped(row), peers' = Upserted(row), NEW k \in Key, NEW u
    PROVE  DefaultPeerOf(k, u)' <=> IF k = row.id THEN row.owner = u /\ row.auto
                                    ELSE DefaultPeerOf(k, u)
  <1>1. peers'[k] = IF k = row.id THEN row ELSE peers[k] BY DEF TableShaped, Upserted
  <1>2. row.exists BY DEF Shaped
  <1> QED BY <1>1, <1>2 DEF DefaultPeerOf

LEMMA OneEachUser ==
    ASSUME OneEach, NEW u, NEW k \in Key, NEW k2 \in Key, DefaultPeerOf(k, u), DefaultPeerOf(k2, u)
    PROVE  k = k2
  BY DEF OneEach, DefaultPeerOf

\* a removed default peer was the only one of its user
LEMMA DefaultKeptOn ==
    ASSUME Inv, NEW a \in Actor, Moves(a), NEW o, o = op[a], NEW o2, o2 = op'[a],
           Simple(o), Fit(o), OneEach, DefaultKept(o)
    PROVE  DefaultKept(o2)'
  <1>1. o2.kind = o.kind /\ o2.crowd = o.crowd BY DEF Moves, SameCall
  <1>2. TableShaped BY DEF Inv
  <1> SUFFICES ASSUME ~ o.crowd, o.kind \in Updates PROVE DefaultKept(o2)'
    BY <1>1 DEF DefaultKept
  <1>3. peers' = peers => \A k, u : DefaultPeerOf(k, u)' = DefaultPeerOf(k, u)
    BY DEF DefaultPeerOf
  <1>4. CASE Chooses(o, o2) BY <1>4 DEF Chooses, Simple, Updates
  <1>5. CASE Prepares(o, o2) BY <1>5 DEF Prepares, Updates
  <1>6. CASE Finds(o, o2)
    <2>1. o2.row.auto => DefaultPeerOf(o2.old, o2.row.owner)' BY <1>3, <1>6 DEF Finds, Wants, Quiet
    <2> QED BY <1>6, <2>1 DEF Finds, Wants, DefaultKept
  <1>7. CASE Rests(o, o2) BY <1>7 DEF Rests, DefaultKept
  <1>8. CASE Reaches(o, o2)
    <2>1. o.pos = "reread" /\ SameWish(o, o2) /\ o2.pos = "unlink" /\ peers' = peers
      BY <1>8 DEF Reaches, Quiet, Updates
    <2>2. o.row.auto => DefaultPeerOf(o.old, o.row.owner)' BY <1>3, <2>1 DEF DefaultKept
    <2> QED BY <2>1, <2>2 DEF DefaultKept, SameWish
  <1>9. CASE Unlinks(o, o2)
    <2>1. o.pos = "unlink" /\ SameWish(o, o2) /\ o2.pos = "remove" /\ peers' = peers
      BY <1>9 DEF Unlinks
    <2>2. o.row.auto => DefaultPeerOf(o.old, o.row.owner)' BY <1>3, <2>1 DEF DefaultKept
    <2> QED BY <2>1, <2>2 DEF DefaultKept, SameWish
  <1>10. CASE Removes(o, o2)
    <2>1. /\ o.pos = "remove" /\ SameWish(o, o2) /\ TakesOut(o.old)
          /\ o2.pos \in {"next", "ok", "save"}
      BY <1>10 DEF Removes
    <2>2. ASSUME o.row.auto, NEW k \in Key PROVE ~ DefaultPeerOf(k, o.row.owner)'
      <3>1. o.old \in Key /\ DefaultPeerOf(o.old, o.row.owner) BY <2>1, <2>2 DEF DefaultKept
      <3>2. DefaultPeerOf(k, o.row.owner) => k = o.old BY <3>1, OneEachUser
      <3> QED BY <1>2, <2>1, <3>1, <3>2, DefaultsAfterRemove
    <2> QED BY <2>1, <2>2 DEF DefaultKept, SameWish
  <1>11. CASE Saves(o, o2) BY <1>11 DEF Saves, DefaultKept
  <1> QED BY <1>4, <1>5, <1>6, <1>7, <1>8, <1>9, <1>10, <1>11 DEF Moves

---------------------------------------------------------------------------
(* What the step of one request leaves of the others *)

Steps(a) ==
    \/ Starts(a)
    \/ /\ op[a] # Idle /\ (Returns(a) \/ Moves(a))
       /\ \A x \in Actor \ {a} : op'[x] = op[x]

LooksSame(o, o2) ==
    /\ Has(o2, OpFields) /\ o2.kind = o.kind /\ o2.pos = o.pos /\ o2.row = o.row
    /\ o2.todo = o.todo /\ o2.user = o.user /\ o2.crowd

LEMMA NotIdle == ASSUME NEW o, Has(o, OpFields) PROVE o # Idle
  <1>1. "kind" \in DOMAIN o BY DEF Has, OpFields
  <1>2. "kind" \notin DOMAIN Idle BY DEF Idle
  <1> QED BY <1>1, <1>2

LEMMA OthersLook ==
    ASSUME Inv, NEW a \in Actor, Steps(a), NEW x \in Actor \ {a}, NEW o, o = op[x],
           NEW o2, o2 = op'[x]
    PROVE  IF o = Idle THEN o2 = Idle ELSE o2 # Idle /\ LooksSame(o, o2)
  <1> SUFFICES ASSUME o # Idle PROVE o2 # Idle /\ LooksSame(o, o2) BY DEF Steps, Starts
  <1>1. Has(o, OpFields) BY DEF Inv, Proper, Fit
  <1>2. CASE Starts(a)
    <2>1. o2 = [o EXCEPT !.crowd = TRUE] BY <1>2 DEF Starts
    <2>2. LooksSame(o, o2) BY <1>1, <2>1 DEF Has, OpFields, LooksSame
    <2> QED BY <2>2, NotIdle DEF LooksSame
  <1>3. CASE op[a] # Idle /\ o2 = o
    <2>1. o.crowd BY <1>3 DEF Inv
    <2> QED BY <1>1, <1>3, <2>1 DEF LooksSame
  <1> QED BY <1>2, <1>3 DEF Steps

\* the others have been overlapped, and are promised nothing but their kind
LEMMA OthersSure ==
    ASSUME NEW o, NEW o2, LooksSame(o, o2), Simple(o)
    PROVE  Simple(o2) /\ AddressFree(o2)' /\ Progress(o2)' /\ DefaultKept(o2)'
  BY DEF LooksSame, Simple, AddressFree, Progress, DefaultKept

\* a new request
LEMMA StartsSure ==
    ASSUME Inv, NEW a \in Actor, Starts(a), NEW o2, o2 = op'[a]
    PROVE  Simple(o2) /\ AddressFree(o2)' /\ Progress(o2)' /\ DefaultKept(o2)'
  <1>1. IsNew(a, o2) /\ peers' = peers /\ served' = served BY DEF Starts, Quiet
  <1>2. Has(o2, OpFields) /\ o2.count = Count BY <1>1 DEF IsNew
  <1>3. /\ Count' = Count /\ \A n : Free(n)' = Free(n)
        /\ \A c, k : DeleteAllowed(c, k)' = DeleteAllowed(c, k)
        /\ \A k, u : DefaultPeerOf(k, u)' = DefaultPeerOf(k, u)
    BY <1>1 DEF Count, Existing, Free, DeleteAllowed, DefaultPeerOf
  <1>4. CASE NewCreate(o2) /\ o2.user = "nobody"
    <2>1. Simple(o2) BY <1>4 DEF NewCreate, Simple, Kinds, Updates
    <2>2. AddressFree(o2)' BY <1>3, <1>4, FreshIsFree DEF NewCreate, AddressFree
    <2>3. Progress(o2)' /\ DefaultKept(o2)' BY <1>4 DEF NewCreate, Progress, DefaultKept, Updates
    <2> QED BY <2>1, <2>2, <2>3
  <1>5. CASE NewUpdate(o2) /\ o2.user = "nobody"
    <2>1. o2.kind = "update" /\ o2.todo = {} /\ Wants(o2) BY <1>5 DEF NewUpdate
    <2>2. Simple(o2) BY <1>5, <2>1 DEF Wants, Simple, Kinds, Updates
    <2>3. AddressFree(o2)' BY <2>1 DEF AddressFree
    <2>4. DefaultKept(o2)' BY <1>3, <2>1 DEF DefaultKept, Wants
    <2>5. peers'[o2.old].exists BY <1>1, <2>1 DEF Wants, DeleteAllowed
    <2>6. DeleteAllowed(o2.ctx, o2.old)' BY <1>3, <2>1 DEF Wants
    <2>7. UpdateProgress(o2)' BY <1>1, <1>2, <1>3, <2>1, <2>5, <2>6 DEF UpdateProgress, Wants
    <2>8. RekeyProgress(o2)' BY <2>1 DEF RekeyProgress, Wants
    <2> QED BY <2>1, <2>2, <2>3, <2>4, <2>7, <2>8 DEF Progress
  <1>6. CASE NewDelete(o2) /\ o2.user = "nobody"
    <2>1. Simple(o2) BY <1>6 DEF NewDelete, Simple, Kinds, Updates
    <2>2. AddressFree(o2)' /\ DefaultKept(o2)'
      BY <1>6 DEF NewDelete, AddressFree, DefaultKept, Updates
    <2>3. DeleteProgress(o2)' BY <1>1, <1>2, <1>3, <1>6 DEF NewDelete, DeleteProgress
    <2> QED BY <1>6, <2>1, <2>2, <2>3 DEF Progress, NewDelete, Updates
  <1>7. CASE NewList(o2) /\ o2.user = "nobody"
    <2>1. Simple(o2) BY <1>7 DEF NewList, Simple, Kinds, Updates
    <2>2. AddressFree(o2)' /\ DefaultKept(o2)' BY <1>7 DEF NewList, AddressFree, DefaultKept
    <2>3. UpdateProgress(o2)' /\ RekeyProgress(o2)'
      BY <1>2, <1>3, <1>7 DEF NewList, UpdateProgress, RekeyProgress
    <2> QED BY <1>7, <2>1, <2>2, <2>3 DEF Progress, NewList
  <1>8. CASE NewDefault(a, o2)
    <2>1. Simple(o2) BY <1>8 DEF NewDefault, Simple, Kinds, Updates
    <2>2. AddressFree(o2)' /\ DefaultKept(o2)' /\ Progress(o2)'
      BY <1>8 DEF NewDefault, AddressFree, DefaultKept, Progress, Updates
    <2> QED BY <2>1, <2>2
  <1> QED BY <1>1, <1>4, <1>5, <1>6, <1>7, <1>8 DEF IsNew

---------------------------------------------------------------------------
(* Locks of users, and default peers *)

LEMMA LocksKept ==
    ASSUME Inv, CareInv, NEW a \in Actor, Steps(a)
    PROVE  (\A x \in Actor : Locked(x))' /\ LocksDiffer'
  <1>1. ASSUME NEW x \in Actor \ {a}
        PROVE  IF op[x] = Idle THEN op'[x] = Idle ELSE LooksSame(op[x], op'[x])
    BY OthersLook
  <1>2. ASSUME NEW x \in Actor \ {a}
        PROVE  /\ Defaulting(x)' <=> Defaulting(x)
               /\ Defaulting(x) => /\ op'[x].user = op[x].user /\ op'[x].todo = op[x].todo
                                   /\ op'[x].pos = op[x].pos /\ op'[x].row = op[x].row
    BY <1>1, NotIdle DEF Defaulting, LooksSame
  <1>3. CASE Starts(a)
    <2>1. /\ Defaulting(a)' => NewDefault(a, op'[a])
          /\ ~ Defaulting(a)' => userLockMap' = userLockMap
      <3>1. IsNew(a, op'[a]) BY <1>3 DEF Starts
      <3>2. op'[a] # Idle BY <3>1, NotIdle DEF IsNew
      <3>3. /\ NewCreate(op'[a]) \/ NewUpdate(op'[a]) \/ NewDelete(op'[a]) \/ NewList(op'[a])
               => op'[a].kind # "default"
            /\ NewDefault(a, op'[a]) => op'[a].kind = "default"
        BY DEF NewCreate, NewUpdate, NewDelete, NewList, NewDefault
      <3> QED BY <3>1, <3>2, <3>3 DEF IsNew, Defaulting
    <2>2. userLockMap \subseteq userLockMap' BY <2>1 DEF NewDefault
    <2>3. ASSUME NEW x \in Actor PROVE Locked(x)'
      <3>1. CASE x = a BY <2>1, <3>1 DEF Locked, Defaulting, NewDefault
      <3>2. CASE x # a
        <4>1. Locked(x) BY DEF CareInv
        <4> QED BY <1>2, <2>2, <3>2, <4>1 DEF Locked, Defaulting
      <3> QED BY <3>1, <3>2
    <2>4. ASSUME NEW x \in Actor \ {a}, Defaulting(x), Defaulting(a)', x # "interface", a # "interface"
          PROVE  op'[a].user # op'[x].user
      <3>1. op[x].user \in userLockMap BY <2>4 DEF CareInv, Locked, Defaulting
      <3>2. op'[a].user \notin userLockMap BY <2>1, <2>4 DEF NewDefault
      <3> QED BY <1>2, <2>4, <3>1, <3>2
    <2>5. ASSUME NEW x \in Actor, NEW y \in Actor, x # y, Defaulting(x)', Defaulting(y)',
                 x # "interface", y # "interface"
          PROVE  op'[x].user # op'[y].user
      <3>1. CASE x = a BY <1>2, <2>4, <2>5, <3>1
      <3>2. CASE y = a BY <1>2, <2>4, <2>5, <3>2
      <3>3. CASE x # a /\ y # a
        <4>1. Defaulting(x) /\ Defaulting(y) BY <1>2, <2>5, <3>3
        <4>2. op[x].user # op[y].user BY <2>5, <4>1 DEF CareInv, LocksDiffer
        <4> QED BY <1>2, <3>3, <4>1, <4>2
      <3> QED BY <3>1, <3>2, <3>3
    <2> QED BY <2>3, <2>5 DEF LocksDiffer
  <1>4. CASE op[a] # Idle /\ Moves(a)
    <2>1. /\ SameCall(op[a], op'[a]) /\ userLockMap' = userLockMap BY <1>4 DEF Moves
    <2>2. /\ Defaulting(a)' <=> Defaulting(a) /\ op'[a].user = op[a].user
          /\ op'[a].todo \subseteq op[a].todo
      BY <1>4, <2>1, NotIdle DEF SameCall, Defaulting
    <2>3. Defaulting(a) /\ op'[a].pos = "save" => op'[a].row.owner \in op[a].todo
      <3>1. ASSUME Defaulting(a), op'[a].pos = "save" PROVE Prepares(op[a], op'[a])
        <4>1. Simple(op[a]) /\ op[a].kind = "default" BY <3>1 DEF CareInv, Sure, Defaulting
        <4>2. ~ Chooses(op[a], op'[a]) BY <4>1 DEF Chooses, Simple
        <4>3. ~ Finds(op[a], op'[a]) BY <4>1 DEF Finds
        <4>4. ~ Rests(op[a], op'[a]) /\ ~ Reaches(op[a], op'[a]) /\ ~ Unlinks(op[a], op'[a])
              /\ ~ Saves(op[a], op'[a])
          BY <3>1 DEF Rests, Reaches, Unlinks, Saves
        <4>5. ~ Removes(op[a], op'[a]) BY <4>1 DEF Removes, Simple, Updates
        <4> QED BY <1>4, <4>2, <4>3, <4>4, <4>5 DEF Moves
      <3> QED BY <3>1 DEF Prepares
    <2>4. ASSUME NEW x \in Actor PROVE Locked(x)'
      <3>1. Locked(x) BY DEF CareInv
      <3>2. CASE x = a BY <2>1, <2>2, <2>3, <3>1, <3>2 DEF Locked, Defaulting
      <3>3. CASE x # a BY <1>2, <2>1, <3>1, <3>3 DEF Locked, Defaulting
      <3> QED BY <3>2, <3>3
    <2>5. LocksDiffer' BY <1>2, <2>2 DEF CareInv, LocksDiffer
    <2> QED BY <2>4, <2>5
  <1>5. CASE op[a] # Idle /\ Returns(a)
    <2>1. op'[a] = Idle /\ userLockMap' = userLockMap \ {op[a].user} BY <1>5 DEF Returns
    <2>2. ~ Defaulting(a)' BY <2>1 DEF Defaulting
    <2>3. ASSUME NEW x \in Actor \ {a}, Defaulting(x), x # "interface" PROVE op[x].user # op[a].user
      <3>1. op[x].user \in User BY <2>3 DEF CareInv, Locked, Defaulting
      <3>2. CASE Defaulting(a) /\ a # "interface" BY <2>3, <3>2 DEF CareInv, LocksDiffer
      <3>3. CASE ~ (Defaulting(a) /\ a # "interface")
        <4>1. op[a].user = "nobody"
          <5>1. Simple(op[a]) /\ Locked(a) BY <1>5 DEF CareInv, Sure
          <5> QED BY <1>5, <3>3, <5>1 DEF Simple, Locked, Defaulting
        <4> QED BY <3>1, <4>1, PeerRequestsAssumption
      <3> QED BY <3>2, <3>3
    <2>4. ASSUME NEW x \in Actor PROVE Locked(x)'
      <3>1. Locked(x) BY DEF CareInv
      <3>2. CASE x = a BY <2>2, <3>2 DEF Locked, Defaulting
      <3>3. CASE x # a BY <1>2, <2>1, <2>3, <3>1, <3>3 DEF Locked, Defaulting
      <3> QED BY <3>2, <3>3
    <2>5. LocksDiffer' BY <1>2, <2>2 DEF CareInv, LocksDiffer
    <2> QED BY <2>4, <2>5
  <1> QED BY <1>3, <1>4, <1>5 DEF Steps

LEMMA SinglesKept ==
    ASSUME Inv, TableShaped', CareInv, NEW a \in Actor, Steps(a), ~ excused'
    PROVE  InterfaceAlone' /\ OneEach' /\ StillNone'
  <1>1. ASSUME NEW x \in Actor \ {a}
        PROVE  IF op[x] = Idle THEN op'[x] = Idle ELSE LooksSame(op[x], op'[x])
    BY OthersLook
  <1>2. ASSUME NEW x \in Actor \ {a}
        PROVE  /\ Defaulting(x)' <=> Defaulting(x)
               /\ Defaulting(x) => op'[x].pos = op[x].pos /\ op'[x].row = op[x].row
    BY <1>1, NotIdle DEF Defaulting, LooksSame
  <1>3. ~ excused BY DEF Steps, Starts, Returns, Moves
  <1>4. /\ Singles /\ InterfaceAlone /\ OneEach /\ StillNone
        /\ \A x \in Actor : Locked(x)
    BY <1>3 DEF CareInv, Singles
  <1>5. TableShaped BY DEF Inv
  <1>6. "interface" \in Actor BY DEF Actor, Handler
  <1>7. peers' = peers => \A k, u : DefaultPeerOf(k, u)' = DefaultPeerOf(k, u)
    BY DEF DefaultPeerOf
  <1>8. peers' = peers => OneEach' BY <1>4 DEF OneEach, DefaultPeerOf
  <1>9. CASE Starts(a)
    <2>1. IsNew(a, op'[a]) /\ peers' = peers BY <1>9 DEF Starts, Quiet
    <2>2. Defaulting(a)' => a \in Handler /\ op'[a].pos = "next"
      BY <2>1 DEF Defaulting, IsNew, NewCreate, NewUpdate, NewDelete, NewList, NewDefault
    <2>3. ASSUME NEW x \in Actor, Defaulting(x)', Defaulting("interface")', x # "interface"
          PROVE  FALSE
      <3>1. CASE x = a
        <4>1. op["interface"] # Idle BY <1>2, <1>6, <2>3, <3>1 DEF Defaulting
        <4>2. "interface" \in Handler \ {a} BY <2>3, <3>1 DEF Handler
        <4> QED BY <1>9, <2>2, <2>3, <3>1, <4>1, <4>2 DEF Starts
      <3>2. CASE x # a /\ a = "interface"
        <4>1. Defaulting(x) BY <1>2, <2>3, <3>2
        <4>2. x \in Handler \ {a} /\ op[x] # Idle
          BY <1>4, <2>3, <3>2, <4>1 DEF Locked, Defaulting
        <4> QED BY <1>9, <2>2, <2>3, <3>2, <4>2 DEF Starts
      <3>3. CASE x # a /\ a # "interface"
        BY <1>2, <1>4, <1>6, <2>3, <3>3 DEF InterfaceAlone
      <3> QED BY <3>1, <3>2, <3>3
    <2>4. InterfaceAlone' BY <2>3 DEF InterfaceAlone
    <2>5. ASSUME NEW x \in Actor, Defaulting(x)', op'[x].pos = "save", NEW k \in Key,
                 NEW u, u = op'[x].row.owner
          PROVE  ~ DefaultPeerOf(k, u)'
      <3>1. x # a BY <2>2, <2>5
      <3>2. Defaulting(x) /\ op[x].pos = "save" /\ op'[x].row = op[x].row BY <1>2, <2>5, <3>1
      <3>3. ~ DefaultPeerOf(k, u) BY <1>4, <2>5, <3>2 DEF StillNone
      <3> QED BY <1>7, <2>1, <3>3
    <2>6. StillNone' BY <2>5 DEF StillNone, DefaultPeerOf
    <2> QED BY <1>8, <2>1, <2>4, <2>6
  <1>10. CASE op[a] # Idle /\ Returns(a)
    <2>1. ~ Defaulting(a)' /\ peers' = peers BY <1>10 DEF Defaulting, Returns
    <2>2. InterfaceAlone' BY <1>2, <1>4, <1>6, <2>1 DEF InterfaceAlone
    <2>3. ASSUME NEW x \in Actor, Defaulting(x)', op'[x].pos = "save", NEW k \in Key,
                 NEW u, u = op'[x].row.owner
          PROVE  ~ DefaultPeerOf(k, u)'
      <3>1. x # a BY <2>1, <2>3
      <3>2. Defaulting(x) /\ op[x].pos = "save" /\ op'[x].row = op[x].row BY <1>2, <2>3, <3>1
      <3>3. ~ DefaultPeerOf(k, u) BY <1>4, <2>3, <3>2 DEF StillNone
      <3> QED BY <1>7, <2>1, <3>3
    <2>4. StillNone' BY <2>3 DEF StillNone, DefaultPeerOf
    <2> QED BY <1>8, <2>1, <2>2, <2>4
  <1>11. CASE op[a] # Idle /\ Moves(a)
    <2>1. PICK o, o2 : o = op[a] /\ o2 = op'[a] OBVIOUS
    <2>2. /\ Fit(o) /\ Simple(o) /\ DefaultKept(o) /\ SameCall(o, o2)
      BY <1>4, <1>11, <2>1 DEF Inv, Proper, CareInv, Sure, Singles, Moves
    <2>3. Defaulting(a)' <=> Defaulting(a)
      BY <1>11, <2>1, <2>2, NotIdle DEF SameCall, Defaulting
    <2>4. InterfaceAlone' BY <1>2, <1>4, <1>6, <2>3 DEF InterfaceAlone
    \* those who were about to store a default peer
    <2>5. ASSUME NEW x \in Actor, Defaulting(x), op[x].pos = "save", op'[x].row = op[x].row,
                 NEW k \in Key, NEW u, u = op'[x].row.owner,
                 DefaultPeerOf(k, u)' => DefaultPeerOf(k, u)
          PROVE  ~ DefaultPeerOf(k, u)'
      <3>1. ~ DefaultPeerOf(k, u) BY <1>4, <2>5 DEF StillNone
      <3> QED BY <2>5, <3>1
    <2>6. ASSUME \A k \in Key : \A u : DefaultPeerOf(k, u)' => DefaultPeerOf(k, u),
                 ~ Prepares(o, o2) PROVE OneEach' /\ StillNone'
      <3>1. OneEach' BY <1>4, <2>6 DEF OneEach, DefaultPeerOf
      <3>2. Defaulting(a) => o2.pos # "save"
        <4>1. SUFFICES ASSUME o.kind = "default", o2.pos = "save" PROVE FALSE
          BY <2>1, <2>2 DEF Defaulting, SameCall
        <4>2. ~ Chooses(o, o2) BY <2>2, <4>1 DEF Chooses, Simple
        <4>3. ~ Finds(o, o2) /\ ~ Rests(o, o2) /\ ~ Reaches(o, o2) /\ ~ Unlinks(o, o2)
              /\ ~ Saves(o, o2)
          BY <4>1 DEF Finds, Rests, Reaches, Unlinks, Saves
        <4>4. ~ Removes(o, o2) BY <2>2, <4>1 DEF Removes, Simple, Updates
        <4> QED BY <1>11, <2>1, <2>6, <4>2, <4>3, <4>4 DEF Moves
      <3>3. ASSUME NEW x \in Actor, Defaulting(x)', op'[x].pos = "save", NEW k \in Key,
                   NEW u, u = op'[x].row.owner
            PROVE  ~ DefaultPeerOf(k, u)'
        <4>1. x # a BY <2>1, <2>3, <3>2, <3>3
        <4>2. Defaulting(x) /\ op[x].pos = "save" /\ op'[x].row = op[x].row
          BY <1>2, <3>3, <4>1
        <4> QED BY <2>5, <2>6, <3>3, <4>2
      <3>4. StillNone' BY <3>3 DEF StillNone, DefaultPeerOf
      <3> QED BY <3>1, <3>4
    <2>7. CASE Prepares(o, o2)
      <3>1. peers' = peers BY <2>7 DEF Prepares, Quiet
      <3>2. ASSUME NEW x \in Actor, Defaulting(x)', op'[x].pos = "save", NEW k \in Key,
                   NEW u, u = op'[x].row.owner
            PROVE  ~ DefaultPeerOf(k, u)'
        <4>1. CASE x = a
          <5>1. UserPeers(u) = {}
            BY <2>1, <2>2, <2>7, <3>2, <4>1 DEF Prepares, Defaulting, SameCall
          <5>2. ~ DefaultPeerOf(k, u) BY <5>1 DEF UserPeers, Existing, DefaultPeerOf
          <5> QED BY <1>7, <3>1, <5>2
        <4>2. CASE x # a
          <5>1. Defaulting(x) /\ op[x].pos = "save" /\ op'[x].row = op[x].row
            BY <1>2, <3>2, <4>2
          <5> QED BY <1>7, <2>5, <3>1, <3>2, <5>1
        <4> QED BY <4>1, <4>2
      <3>3. StillNone' BY <3>2 DEF StillNone, DefaultPeerOf
      <3> QED BY <1>8, <2>4, <3>1, <3>3
    <2>8. CASE peers' = peers /\ ~ Prepares(o, o2) BY <1>7, <2>4, <2>6, <2>8
    <2>9. CASE Removes(o, o2)
      <3>1. TakesOut(o.old) BY <2>9 DEF Removes
      <3>2. ASSUME NEW k \in Key, NEW u, DefaultPeerOf(k, u)' PROVE DefaultPeerOf(k, u)
        <4>1. ~ NoPeer.exists BY DEF NoPeer
        <4> QED BY <1>5, <3>1, <3>2, <4>1 DEF TakesOut, TableShaped, DefaultPeerOf
      <3>3. ~ Prepares(o, o2) BY <2>2, <2>9 DEF Removes, Prepares, Simple, Updates
      <3> QED BY <2>4, <2>6, <3>2, <3>3
    <2>10. CASE Saves(o, o2) /\ (Revives(a) => excused')
      <3>1. /\ o.pos = "save" /\ Shaped(o.row) /\ peers' = Upserted(o.row)
            /\ o2.pos \in {"next", "ok"}
        BY <2>2, <2>10 DEF Saves, Fit
      <3>2. ASSUME NEW k \in Key, NEW u
            PROVE  DefaultPeerOf(k, u)' <=> IF k = o.row.id THEN o.row.owner = u /\ o.row.auto
                                            ELSE DefaultPeerOf(k, u)
        BY <1>5, <3>1, DefaultsAfterStore
      <3>3. ~ Prepares(o, o2) BY <3>1 DEF Prepares
      <3>4. o.row.id \in Key BY <3>1 DEF Shaped
      <3>5. CASE ~ o.row.auto BY <2>4, <2>6, <3>2, <3>3, <3>5
      <3>6. CASE o.row.auto /\ DefaultPeerOf(o.row.id, o.row.owner)
        <4>1. ASSUME NEW k \in Key, NEW u, DefaultPeerOf(k, u)' PROVE DefaultPeerOf(k, u)
          BY <3>2, <3>6, <4>1
        <4> QED BY <2>4, <2>6, <3>3, <4>1
      <3>7. CASE o.row.auto /\ ~ DefaultPeerOf(o.row.id, o.row.owner)
        \* either a handler, which has the lock, or an update that is alone
        <4>1. o.kind = "default" \/ (o.kind \in Updates /\ ~ o.crowd)
          <5>1. o.row # NoPeer BY <3>1, ShapedExists
          <5>2. o.kind \in Updates \union {"default"} BY <2>2, <3>7, <5>1 DEF Simple, Kinds
          <5>3. o.kind \in Updates => ~ o.crowd BY <1>4, <2>1, <2>10, <3>7 DEF Revives, Updates
          <5> QED BY <5>2, <5>3
        <4>2. \A k \in Key : ~ DefaultPeerOf(k, o.row.owner)
          <5>1. CASE o.kind = "default" BY <1>4, <1>11, <2>1, <3>1, <5>1 DEF StillNone, Defaulting
          <5>2. CASE o.kind \in Updates /\ ~ o.crowd
            BY <2>2, <3>1, <3>7, <5>2 DEF DefaultKept
          <5> QED BY <4>1, <5>1, <5>2
        <4>3. ASSUME NEW k \in Key, DefaultPeerOf(k, o.row.owner)' PROVE k = o.row.id
          BY <3>2, <4>2, <4>3
        <4>4. ASSUME NEW k \in Key, NEW u, u # o.row.owner, DefaultPeerOf(k, u)'
              PROVE  DefaultPeerOf(k, u)
          BY <3>2, <4>4
        <4>5. ASSUME NEW k \in Key, NEW k2 \in Key, NEW u,
                     DefaultPeerOf(k, u)', DefaultPeerOf(k2, u)'
              PROVE  k = k2
          <5>1. CASE u = o.row.owner BY <4>3, <4>5, <5>1
          <5>2. CASE u # o.row.owner
            <6>1. DefaultPeerOf(k, u) /\ DefaultPeerOf(k2, u) BY <4>4, <4>5, <5>2
            <6> QED BY <1>4, <6>1, OneEachUser
          <5> QED BY <5>1, <5>2
        <4>6. OneEach' BY <4>5 DEF OneEach, DefaultPeerOf
        <4>7. ASSUME NEW x \in Actor, Defaulting(x)', op'[x].pos = "save", NEW k \in Key,
                     NEW u, u = op'[x].row.owner
              PROVE  ~ DefaultPeerOf(k, u)'
          <5>1. x # a BY <2>1, <3>1, <4>7
          <5>2. Defaulting(x) /\ op[x].pos = "save" /\ op'[x].row = op[x].row
            BY <1>2, <4>7, <5>1
          <5>3. op[x].row.owner # o.row.owner
            <6>1. op[x] # Idle BY <5>2 DEF Defaulting
            <6>2. o.crowd BY <1>11, <2>1, <5>1, <6>1 DEF Inv
            <6>3. Defaulting(a) BY <1>11, <2>1, <4>1, <6>2 DEF Defaulting
            <6>4. a # "interface" /\ x # "interface"
              BY <1>4, <1>6, <5>1, <5>2, <6>3 DEF InterfaceAlone
            <6>5. op[x].user # o.user BY <2>1, <5>1, <5>2, <6>3, <6>4 DEF CareInv, LocksDiffer
            <6>6. op[x].row.owner = op[x].user /\ o.row.owner = o.user
              BY <1>4, <2>1, <3>1, <5>2, <6>3, <6>4 DEF Locked, Defaulting
            <6> QED BY <6>5, <6>6
          <5> QED BY <2>5, <4>4, <4>7, <5>2, <5>3
        <4>8. StillNone' BY <4>7 DEF StillNone, DefaultPeerOf
        <4> QED BY <2>4, <4>6, <4>8
      <3> QED BY <3>5, <3>6, <3>7
    <2>11. Chooses(o, o2) \/ Finds(o, o2) \/ Rests(o, o2) \/ Reaches(o, o2) \/ Unlinks(o, o2)
           => peers' = peers
      BY DEF Chooses, Finds, Rests, Reaches, Unlinks, Quiet
    <2> QED BY <1>11, <2>1, <2>7, <2>8, <2>9, <2>10, <2>11 DEF Moves
  <1> QED BY <1>9, <1>10, <1>11 DEF Steps

---------------------------------------------------------------------------

LEMMA CareKept ==
    ASSUME Inv, Inv', CareInv, NEW a \in Actor, Steps(a) PROVE CareInv'
  <1>1. ASSUME NEW x \in Actor, NEW o2, o2 = op'[x], o2 # Idle
        PROVE  Simple(o2) /\ AddressFree(o2)' /\ Progress(o2)' /\ (~ excused' => DefaultKept(o2)')
    <2>1. PICK o : o = op[x] OBVIOUS
    <2>2. op[x] # Idle => Simple(o) /\ AddressFree(o) /\ Progress(o) /\ Fit(o)
      BY <2>1 DEF CareInv, Sure, Inv, Proper
    <2>3. CASE x # a
      <3>1. o # Idle /\ LooksSame(o, o2) BY <1>1, <2>1, <2>3, OthersLook
      <3> QED BY <2>1, <2>2, <3>1, OthersSure
    <2>4. CASE x = a /\ Starts(a) BY <1>1, <2>4, StartsSure
    <2>5. CASE x = a /\ op[a] # Idle /\ Moves(a)
      <3>1. Simple(o2) BY <1>1, <2>1, <2>2, <2>5, SimpleKept
      <3>2. AddressFree(o2)' BY <1>1, <2>1, <2>2, <2>5, AddressKept
      <3>3. Progress(o2)' BY <1>1, <2>1, <2>2, <2>5, ProgressKept
      <3>4. ASSUME ~ excused' PROVE DefaultKept(o2)'
        <4>1. Singles BY <2>5, <3>4 DEF Moves, CareInv
        <4>2. OneEach /\ DefaultKept(o) BY <2>1, <2>5, <4>1 DEF Singles
        <4> QED BY <1>1, <2>1, <2>2, <2>5, <4>2, DefaultKeptOn
      <3> QED BY <3>1, <3>2, <3>3, <3>4
    <2>6. CASE x = a /\ Returns(a) BY <1>1, <2>6 DEF Returns
    <2> QED BY <2>3, <2>4, <2>5, <2>6 DEF Steps
  <1>2. (\A x \in Actor : \A o \in {op[x]} : o # Idle => Sure(o))' BY <1>1 DEF Sure
  <1>3. (\A x \in Actor : Locked(x))' /\ LocksDiffer' BY LocksKept
  <1>4. ASSUME ~ excused' PROVE Singles'
    <2>1. InterfaceAlone' /\ OneEach' /\ StillNone' BY <1>4, SinglesKept DEF Inv
    <2>2. (\A x \in Actor : \A o \in {op[x]} : o # Idle => DefaultKept(o))' BY <1>1, <1>4
    <2> QED BY <2>1, <2>2 DEF Singles
  <1> QED BY <1>2, <1>3, <1>4 DEF CareInv

\* at the beginning at most one peer exists
LEMMA AtMostOne ==
    ASSUME NEW S, IsFiniteSet(S), Cardinality(S) <= 1, NEW x \in S, NEW y \in S PROVE x = y
  <1>1. Cardinality(S) \in Nat BY FS_CardinalityType
  <1>2. CASE Cardinality(S) = 0 BY <1>2, FS_EmptySet
  <1>3. CASE Cardinality(S) = 1
    <2>1. \E z : S = {z} BY <1>3, FS_Singleton
    <2> QED BY <2>1
  <1> QED BY <1>1, <1>2, <1>3

LEMMA CareInit == Init => CareInv
  <1> SUFFICES ASSUME Init PROVE CareInv OBVIOUS
  <1>1. \A a \in Actor : op[a] = Idle BY DEF Init
  <1>2. PICK ks \in SUBSET Key, u \in User, auto \in BOOLEAN :
          /\ Cardinality(ks) <= 1
          /\ peers = [k \in Key |->
                IF k \in ks THEN [exists |-> TRUE, id |-> k, pub |-> k, private |-> TRUE, owner |-> u,
                                 addr |-> InterfaceAddress + 1, disabled |-> FALSE, auto |-> auto]
                ELSE NoPeer]
    BY DEF Init
  <1>3. IsFiniteSet(ks) BY FS_Subset, PeerRequestsAssumption
  <1>4. ASSUME NEW k \in Key, peers[k].exists PROVE k \in ks
    <2>1. ~ NoPeer.exists BY DEF NoPeer
    <2> QED BY <1>2, <1>4, <2>1
  <1>5. \A k, k2 \in Key : peers[k].exists /\ peers[k2].exists => k = k2
    BY <1>2, <1>3, <1>4, AtMostOne
  <1>6. OneEach BY <1>5 DEF OneEach, DefaultPeerOf
  <1>7. "interface" \in Actor BY DEF Actor, Handler
  <1>8. InterfaceAlone /\ StillNone BY <1>1 DEF InterfaceAlone, StillNone, Defaulting
  <1>9. Singles BY <1>1, <1>6, <1>8 DEF Singles
  <1>10. (\A a \in Actor : Locked(a)) /\ LocksDiffer BY <1>1 DEF Locked, LocksDiffer, Defaulting
  <1> QED BY <1>1, <1>9, <1>10 DEF CareInv

LEMMA CareNext == Inv /\ Inv' /\ CareInv /\ [Next]_vars => CareInv'
  <1> SUFFICES ASSUME Inv, Inv', CareInv, [Next]_vars PROVE CareInv' OBVIOUS
  <1>1. CASE UNCHANGED vars
    <2>1. /\ peers' = peers /\ served' = served /\ op' = op /\ userLockMap' = userLockMap
          /\ excused' = excused
      BY <1>1 DEF vars
    <2>2. /\ Count' = Count /\ \A n : Free(n)' = Free(n)
          /\ \A c, k : DeleteAllowed(c, k)' = DeleteAllowed(c, k)
          /\ \A k, u : DefaultPeerOf(k, u)' = DefaultPeerOf(k, u)
      BY <2>1 DEF Count, Existing, Free, DeleteAllowed, DefaultPeerOf
    <2>3. ASSUME NEW o, Sure(o) PROVE Sure(o)'
      <3>1. AddressFree(o)' BY <2>2, <2>3 DEF Sure, AddressFree
      <3>2. UpdateProgress(o) => UpdateProgress(o)' BY <2>1, <2>2 DEF UpdateProgress
      <3>3. RekeyProgress(o) => RekeyProgress(o)' BY <2>1 DEF RekeyProgress
      <3>4. DeleteProgress(o) => DeleteProgress(o)' BY <2>1, <2>2 DEF DeleteProgress
      <3> QED BY <2>3, <3>1, <3>2, <3>3, <3>4 DEF Sure, Progress
    <2>4. ASSUME NEW o, DefaultKept(o) PROVE DefaultKept(o)' BY <2>2, <2>4 DEF DefaultKept
    <2>5. (\A a \in Actor : \A o \in {op[a]} : o # Idle => Sure(o))' BY <2>1, <2>3 DEF CareInv
    <2>6. (\A a \in Actor : Locked(a))' /\ LocksDiffer'
      BY <2>1 DEF CareInv, Locked, LocksDiffer, Defaulting
    <2>7. ASSUME ~ excused PROVE Singles'
      <3>1. Singles BY <2>7 DEF CareInv
      <3>2. InterfaceAlone' BY <2>1, <3>1 DEF Singles, InterfaceAlone, Defaulting
      <3>3. OneEach' BY <2>1, <3>1 DEF Singles, OneEach, DefaultPeerOf
      <3>4. StillNone' BY <2>1, <3>1 DEF Singles, StillNone, Defaulting, DefaultPeerOf
      <3>5. (\A a \in Actor : \A o \in {op[a]} : o # Idle => DefaultKept(o))'
        BY <2>1, <2>4, <3>1 DEF Singles
      <3> QED BY <3>2, <3>3, <3>4, <3>5 DEF Singles
    <2> QED BY <2>1, <2>5, <2>6, <2>7 DEF CareInv
  <1>2. ASSUME NEW a \in Slot, Begins(a) PROVE CareInv'
    <2>1. a \in Actor BY DEF Actor
    <2>2. Steps(a) BY <1>2, <2>1, BeginsStart DEF Steps
    <2> QED BY <2>1, <2>2, CareKept
  <1>3. CASE \/ \E u \in User : HandleUserCreationEvent(u) \/ HandleUserLoginEvent(u)
             \/ HandleInterfaceCreatedEvent
    <2>1. PICK a \in Actor : Starts(a) BY <1>3, HandlersStart
    <2> QED BY <2>1, CareKept DEF Steps
  <1>4. ASSUME NEW a \in Actor, Running(a), GoesOn(a) PROVE CareInv'
    <2>1. Steps(a) BY <1>4, GoesOnMoves DEF Steps, Running
    <2> QED BY <2>1, CareKept
  <1> QED BY <1>1, <1>2, <1>3, <1>4 DEF Next

---------------------------------------------------------------------------

\* The second inductive invariant: how far a request has come that no other
\* one has overlapped, that the address it has chosen is still free, whom the
\* locks belong to, and that nobody is about to store a second default peer.
THEOREM CareInvariance == Spec => []CareInv
  <1> QED BY Invariance, CareInit, CareNext, PTL DEF Spec

\* A new peer has an address that nobody has, as long as the network has one left,
\* if its request is alone and does not choose the address itself
\* (getFreshPeerIpConfig and the requests that call it).
THEOREM AddressesAreFree == Spec => AddressesUnique
  <1> DEFINE A == \A a \in Actor :
          Stores(a) /\ op[a].kind \in {"create", "multiple", "default"} /\ ~ op[a].crowd /\ ~ op[a].chosen
          => \A k \in Existing : peers[k].addr = op[a].row.addr => peers[k].addr > LastAddress
  <1>1. CareInv => A
    <2> SUFFICES ASSUME CareInv, NEW a \in Actor, Stores(a),
                        op[a].kind \in {"create", "multiple", "default"}, ~ op[a].crowd, ~ op[a].chosen
                 PROVE  Free(op[a].row.addr)
      BY DEF Free
    <2>1. op[a].pos = "save" BY DEF Stores
    <2>2. op[a] # Idle BY <2>1 DEF Idle
    <2>3. AddressFree(op[a]) BY <2>2 DEF CareInv, Sure
    <2> QED BY <2>1, <2>3 DEF AddressFree
  <1>2. Spec => [][A]_vars BY <1>1, CareInvariance, PTL
  <1> QED BY <1>2 DEF AddressesUnique

\* A request that ends, undisturbed by a failure or by another request, has left
\* the peers as it should, on the device too: no half of an update, whose new key
\* is a deletion and a creation, and no half of a deletion (UpdatePeer, DeletePeer).
THEOREM RequestsEndComplete == Spec => []RequestsComplete
  <1>1. CareInv => RequestsComplete
    <2> SUFFICES ASSUME CareInv, NEW a \in Slot, op[a].pos \in {"ok", "error"},
                        ~ op[a].crowd, ~ op[a].failed
                 PROVE  /\ op[a].kind \in Updates => Count = op[a].count
                        /\ op[a].kind = "update" => op[a].pos = "ok" /\ peers[op[a].row.id] = op[a].row
                        /\ op[a].kind = "delete" => Count = op[a].count - 1 /\ ~ peers[op[a].old].exists
                        /\ (faults = 0 /\ op[a].kind \in {"update", "delete"}) =>
                             \A k \in op[a].keys :
                                (k \in served) = (peers[k].exists /\ ~ peers[k].disabled)
      BY DEF RequestsComplete, Updates, Count
    <2>1. op[a] # Idle /\ a \in Actor BY DEF Idle, Actor
    <2>2. PICK o : o = op[a] OBVIOUS
    <2>3. Progress(o) BY <2>1, <2>2 DEF CareInv, Sure
    <2>4. o.kind \in Updates => UpdateProgress(o) /\ RekeyProgress(o) BY <2>2, <2>3 DEF Progress
    <2>5. o.kind = "delete" => DeleteProgress(o) BY <2>2, <2>3 DEF Progress
    <2>6. o.kind \in Updates => Count = o.count BY <2>2, <2>4 DEF UpdateProgress
    <2>7. ASSUME o.kind = "update"
          PROVE  /\ o.pos = "ok" /\ peers[o.row.id] = o.row
                 /\ \A k \in o.keys : (k \in served) = (peers[k].exists /\ ~ peers[k].disabled)
      <3>1. UpdateProgress(o) /\ RekeyProgress(o) BY <2>4, <2>7 DEF Updates
      <3>2. o.pos = "ok" BY <2>2, <2>7, <3>1 DEF UpdateProgress
      <3> QED BY <2>7, <3>1, <3>2 DEF RekeyProgress
    <2>8. ASSUME o.kind = "delete"
          PROVE  /\ Count = o.count - 1 /\ ~ peers[o.old].exists
                 /\ \A k \in o.keys : (k \in served) = (peers[k].exists /\ ~ peers[k].disabled)
      <3>1. /\ o.keys = {o.old} /\ o.pos = "ok" /\ o.old \notin served
            /\ Count = o.count - 1 /\ ~ peers[o.old].exists
        BY <2>2, <2>5, <2>8 DEF DeleteProgress
      <3> QED BY <3>1
    <2> QED BY <2>2, <2>6, <2>7, <2>8
  <1> QED BY <1>1, CareInvariance, PTL

\* A user has one default peer at most, whatever events and requests overlap, except
\* where an overlap is excused (prepareDefaultPeer and the locks of its callers).
THEOREM OneDefaultPeerEach == Spec => []OneDefaultPeer
  <1>1. CareInv => OneDefaultPeer
    <2> SUFFICES ASSUME CareInv, ~ excused, NEW u \in User,
                        NEW S, S = {k \in UserPeers(u) : peers[k].auto}
                 PROVE  Cardinality(S) <= 1
      BY DEF OneDefaultPeer
    <2>1. \A k \in S : k \in Key /\ DefaultPeerOf(k, u)
      BY DEF UserPeers, Existing, DefaultPeerOf
    <2>2. OneEach BY DEF CareInv, Singles
    <2>3. \A k, k2 \in S : k = k2 BY <2>1, <2>2, OneEachUser
    <2>4. CASE S = {} BY <2>4, FS_EmptySet
    <2>5. CASE S # {}
      <3>1. PICK k \in S : TRUE BY <2>5
      <3>2. S = {k} BY <2>3, <3>1
      <3> QED BY <3>2, FS_Singleton
    <2> QED BY <2>4, <2>5
  <1> QED BY <1>1, CareInvariance, PTL

===============================================================================
