--------------------------- MODULE MCRemoteBackend ---------------------------
(* Two operations at a time on a small device. *)
EXTENDS RemoteBackend, TLC

Symmetry ==
    Permutations(Slot) \union Permutations(Address)
        \union Permutations(Server) \union Permutations(Name)
=============================================================================
