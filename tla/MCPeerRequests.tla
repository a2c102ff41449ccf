---------------------------- MODULE MCPeerRequests ----------------------------
(* One or two users, three keys: keys and slots are alike. *)
EXTENDS PeerRequests, TLC

Alike == Permutations(Key) \union Permutations(Slot) \union Permutations(User)

=============================================================================
