---------------------------- MODULE MCConnectionIO ----------------------------
(* Instances of ConnectionIO for TLC: the zero byte is the fifth one.        *)
EXTENDS ConnectionIO

MCZeros == {5}
=============================================================================
