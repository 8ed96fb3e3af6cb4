----------------------------- MODULE LintBranches -----------------------------
(***************************************************************************)
(* The docstring of cpplint's UpdatePreprocessor as a specification: a      *)
(* preprocessor condition holds from #if up to the first #else, #elif or    *)
(* #endif, and not from there to the #endif, so that only the lines of first *)
(* branches change the nesting stack.                                       *)
(***************************************************************************)
EXTENDS LintBlocks

VARIABLES
  stack,    \* the blocks that first branches have opened and not closed
  later,    \* for each open #if, whether its first branch is over
  eof,      \* whether the file has ended
  reported  \* the kinds of blocks reported as not complete

vars == <<stack, later, eof, reported>>

Init == stack = <<>> /\ later = <<>> /\ eof = FALSE /\ reported = {}

Skipping == \E i \in DOMAIN later : later[i]

Text(line) ==
  /\ stack' = IF Skipping THEN stack ELSE Updated(stack, line)
  /\ UNCHANGED <<later, eof, reported>>

\* The line itself belongs to the branch it begins, parentheses and all.
Directive(d, condition) ==
  /\ later' = CASE d = "if" -> Append(later, FALSE)
                [] d = "else" /\ later # <<>> -> [later EXCEPT ![Len(later)] = TRUE]
                [] d = "endif" /\ later # <<>> -> Pop(later)
                [] OTHER -> later
  /\ stack' = IF Skipping' THEN stack ELSE Updated(stack, condition)
  /\ UNCHANGED <<eof, reported>>

\* Of a file that ends inside a later branch nothing is said.
Complete ==
  /\ eof' = TRUE
  /\ reported' \in SUBSET Kinds
  /\ ~Skipping => reported' = Incomplete(stack)
  /\ UNCHANGED <<stack, later>>

Next ==
  /\ ~eof
  /\ \/ \E line \in TextLines : Text(line)
     \/ \E d \in Directives : \E condition \in Conditions(d) : Directive(d, condition)
     \/ Complete

Spec == Init /\ [][Next]_vars
=============================================================================
