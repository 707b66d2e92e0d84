----------------------------- MODULE MCLogging ------------------------------
(* Model-checking instance of Logging: up to two items in a statement. *)
EXTENDS Logging

Items == {Text(<<"a">>), Text(<<"a", "b", "c", "d">>), Number(-10), Number(7), Pointer(26)}

MCStatements ==
  {[errno |-> e, items |-> is] : e \in {0, 2}, is \in UNION {[1 .. n -> Items] : n \in 0 .. 2}}
=============================================================================
