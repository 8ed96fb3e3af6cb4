------------------------------ MODULE MCLintFile ------------------------------
(* Instances of LintFile for TLC: one header of each type.                    *)
EXTENDS LintFile

MCHeaderType == [h \in Headers |-> h]
=============================================================================
