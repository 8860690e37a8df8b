------------------------------ MODULE MCTurns ------------------------------
(* ChatTurns on a small instance. *)
EXTENDS ChatTurns, TLC

Requests == Permutations(Req)
Symmetric == Permutations(Req) \cup Permutations(Key) \cup Permutations(Mode)
=============================================================================
