------------------------------- MODULE MCReactor -------------------------------
(* Instances of Reactor for TLC: connections are interchangeable model values; *)
(* descriptors are numbers, because accept takes the lowest and NewConnection  *)
(* takes them modulo the number of sub reactors.                              *)
EXTENDS Reactor, TLC

Symmetry == Permutations(Conns)
=============================================================================
