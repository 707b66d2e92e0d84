---------------------------- MODULE MCTcpServer -----------------------------
(* Model-checking instances of TcpServer. *)
EXTENDS TcpServer, TLC

Symmetry == Permutations(Conns) \union Permutations(Msgs) \union Permutations(Threads)
=============================================================================
