---------------------------- MODULE MCGameServer ----------------------------
(* Instances of GameServer for TLC. *)
EXTENDS GameServerInv, TLC

\* Connections are interchangeable; sound for invariants only.
Symmetry == Permutations(Conn)

=============================================================================
