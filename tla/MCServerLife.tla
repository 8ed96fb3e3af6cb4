----------------------------- MODULE MCServerLife -----------------------------
(* Instances of ServerLife for TLC: task i is the loop of sub reactor i.      *)
EXTENDS ServerLife

MCTasks == 0..(Cardinality(Workers) - 1)
MCMain == {Main}
=============================================================================
