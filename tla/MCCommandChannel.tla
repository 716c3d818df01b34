-------------------------- MODULE MCCommandChannel --------------------------
(* Instances of CommandChannel for TLC.                                     *)
EXTENDS CommandChannel, TLC

Symmetry == Permutations(Clients)

=============================================================================
