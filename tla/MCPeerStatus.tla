----------------------------- MODULE MCPeerStatus -----------------------------
(* One peer and one ping worker. *)
EXTENDS PeerStatus

=============================================================================
