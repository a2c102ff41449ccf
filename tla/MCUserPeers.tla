----------------------------- MODULE MCUserPeers -----------------------------
(* A small instance of UserPeers: two peers, one with an expiry date, each   *)
(* enabled or disabled by an admin when the portal starts; a user that is    *)
(* changed twice, one edit by an admin or by the user; liveness is checked,  *)
(* hence no symmetry.                                                        *)
EXTENDS UserPeers
=============================================================================
