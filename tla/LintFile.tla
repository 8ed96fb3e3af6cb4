------------------------------- MODULE LintFile -------------------------------
(***************************************************************************)
(* cpplint on one file, line by line: what ProcessLine keeps from one line  *)
(* to the next across preprocessor directives.  NestingState holds the open *)
(* blocks and, for each open #if, the stacks to go back to; _IncludeState   *)
(* holds the headers included so far, by branch, and how far the includes   *)
(* have come in their prescribed order.                                     *)
(*                                                                         *)
(* A file is any sequence of directives, includes and lines of text, of at  *)
(* most MaxLines lines.                                                     *)
(***************************************************************************)
EXTENDS LintBlocks, FiniteSets

CONSTANTS
  Headers,   \* what is included
  HeaderType, \* what _ClassifyInclude says of a header
  MaxLines   \* bound: the lines of the file

\* "unkept" are the sources of another package, and what looks like a third
\* party's header, as a capital letter in the name is enough to do.
HeaderTypes == {"c", "cpp", "my", "other", "unkept"}

ASSUME FileAssumption ==
  /\ HeaderType \in [Headers -> HeaderTypes]
  /\ MaxLines \in Nat

VARIABLES
  stack,        \* NestingState.stack
  pp_stack,     \* NestingState.pp_stack
  include_list, \* _IncludeState.include_list, without the line numbers
  section,      \* _IncludeState._section
  eof,          \* whether CheckCompletedBlocks has been called
  reported,     \* the kinds of blocks it reported
  \* history
  lines,        \* how many lines there have been
  path,         \* the branches the line is in, each by the line that opens it
  included,     \* each header to be kept, with the branches it was included in
  stray         \* whether an #else or #endif had no #if

nesting == <<stack, pp_stack>>
includes == <<include_list, section>>
ended == <<eof, reported>>
vars == <<nesting, includes, ended, lines, path, included, stray>>

\* The sections, in the order they are to come in.
Initial == 0
MyH == 1
CSys == 2
CppSys == 3
OtherH == 4

Init ==
  /\ stack = <<>> /\ pp_stack = <<>>
  /\ include_list = <<{}>> /\ section = Initial
  /\ eof = FALSE /\ reported = {}
  /\ lines = 0 /\ path = <<>> /\ included = {} /\ stray = FALSE

-----------------------------------------------------------------------------
(* The preprocessor.                                                        *)

Checkpoint(s) == [before_if |-> s, before_else |-> <<>>, seen_else |-> FALSE]

\* #if, #ifdef, #ifndef
BeginIf == pp_stack' = Append(pp_stack, Checkpoint(stack))

\* Mutant: every #else and #elif moves the checkpoint.
MutantBeginElse ==
  pp_stack' = [pp_stack EXCEPT ![Len(pp_stack)] =
                 [@ EXCEPT !.seen_else = TRUE, !.before_else = stack]]

\* #else, #elif: the first one keeps the stack for the #endif.
BeginElse ==
  pp_stack' = IF Top(pp_stack).seen_else THEN pp_stack
              ELSE [pp_stack EXCEPT ![Len(pp_stack)] =
                      [@ EXCEPT !.seen_else = TRUE, !.before_else = stack]]

EndIf == pp_stack' = Pop(pp_stack)

\* Without an #if there is nothing to go back to.
UpdatePreprocessor(d) ==
  \/ d = "if" /\ BeginIf
  \/ d = "else" /\ pp_stack # <<>> /\ BeginElse
  \/ d = "endif" /\ pp_stack # <<>> /\ EndIf
  \/ d \in {"else", "endif"} /\ pp_stack = <<>> /\ UNCHANGED pp_stack

\* The stack it leaves.
Restored(d) ==
  CASE d = "else" /\ pp_stack # <<>> -> Top(pp_stack).before_if
    [] d = "endif" /\ pp_stack # <<>> /\ Top(pp_stack).seen_else -> Top(pp_stack).before_else
    [] OTHER -> stack

\* Mutant: the list that goes is the one the #if found.
MutantForget(list) == [list EXCEPT ![1] = {}]

\* include_list[-1] = []
Forget(list) == [list EXCEPT ![Len(list)] = {}]

\* Nothing is ever popped from include_list.
ResetSection(d) ==
  /\ section' = Initial
  /\ include_list' = CASE d = "if" -> Append(include_list, {})
                       [] d = "else" -> Forget(include_list)
                       [] d = "endif" -> include_list

\* The branches after the directive.
NewPath(d) ==
  /\ path' = CASE d = "if" -> Append(path, lines + 1)
               [] d = "else" /\ path # <<>> -> [path EXCEPT ![Len(path)] = lines + 1]
               [] d = "endif" /\ path # <<>> -> Pop(path)
               [] OTHER -> path
  /\ stray' = (stray \/ (d # "if" /\ path = <<>>))

\* Update goes on with the line: the parenthesis that closes defined(X) takes away
\* the head of a class or namespace whose brace has not come yet.
Directive(d, condition) ==
  /\ UpdatePreprocessor(d)
  /\ stack' = Updated(Restored(d), condition)
  /\ ResetSection(d)
  /\ NewPath(d)
  /\ UNCHANGED <<ended, included>>

-----------------------------------------------------------------------------
(* The other lines.                                                         *)

Text(line) ==
  /\ stack' = Updated(stack, line)
  /\ UNCHANGED <<pp_stack, includes, ended, path, included, stray>>

Found(h) == \E i \in DOMAIN include_list : h \in include_list[i]

\* Mutant: the section of a late header is taken over.
MutantNextSection(t) ==
  CASE t = "c" -> CSys
    [] t = "cpp" -> CppSys
    [] t = "my" -> MyH
    [] t = "other" -> OtherH

\* CheckNextIncludeOrder: the section after a header, the same one when the
\* header comes too late, which is reported.
NextSection(t) ==
  CASE t = "c" -> IF section <= CSys THEN CSys ELSE section
    [] t = "cpp" -> IF section <= CppSys THEN CppSys ELSE section
    [] t = "my" -> IF section <= MyH THEN MyH ELSE OtherH
    [] t = "other" -> OtherH

Kept(h) == HeaderType[h] # "unkept"

\* CheckIncludeLine: a header that is found is reported and not kept again.
Include(h) ==
  /\ IF Found(h) \/ ~Kept(h) THEN UNCHANGED includes
     ELSE /\ include_list' = [include_list EXCEPT ![Len(include_list)] = @ \cup {h}]
          /\ section' = NextSection(HeaderType[h])
  /\ included' = IF Kept(h) THEN included \cup {[header |-> h, at |-> path]} ELSE included
  /\ UNCHANGED <<nesting, ended, path, stray>>

\* CheckCompletedBlocks, after the last line.
Complete ==
  /\ eof' = TRUE
  /\ reported' = Incomplete(stack)
  /\ UNCHANGED <<nesting, includes, lines, path, included, stray>>

NextLine ==
  /\ lines < MaxLines /\ lines' = lines + 1
  /\ \/ \E d \in Directives : \E condition \in Conditions(d) : Directive(d, condition)
     \/ \E line \in TextLines : Text(line)
     \/ \E h \in Headers : Include(h)

Next == ~eof /\ (NextLine \/ Complete)

Spec == Init /\ [][Next]_vars

-----------------------------------------------------------------------------
(* Properties.                                                              *)

Stacks == Seq(Blocks)
Checkpoints == [before_if : Stacks, before_else : Stacks, seen_else : BOOLEAN]

\* Every variable has its type; there is a list for every #if.
TypeOK ==
  /\ stack \in Stacks /\ pp_stack \in Seq(Checkpoints)
  /\ include_list \in Seq(SUBSET Headers) /\ Len(include_list) > Len(pp_stack)
  /\ section \in 0..4
  /\ eof \in BOOLEAN /\ reported \subseteq Kinds
  /\ lines \in 0..MaxLines
  /\ path \in Seq(1..MaxLines) /\ Len(path) = Len(pp_stack)
  /\ included \subseteq [header : Headers, at : Seq(1..MaxLines)]
  /\ stray \in BOOLEAN

IsPrefix(p, q) == Len(p) <= Len(q) /\ \A i \in 1..Len(p) : p[i] = q[i]

\* No repeated include goes unnoticed: a header that was included in a branch the
\* line is still in, and that is of a kind that is kept, is found, whatever #if,
\* #else and #endif came between and whatever lists they emptied
\* (cpplint.py:893-909 and 4813).
EnclosingIncludesAreFound ==
  ~stray => \A inc \in included : IsPrefix(inc.at, path) => Found(inc.header)

\* "self._section will move monotonically through this set", from one directive
\* to the next (cpplint.py:849).
SectionMovesForward ==
  [][UNCHANGED path /\ ~stray' => section' >= section]_vars

FirstElse(i) == pp_stack[i].seen_else /\ \A j \in 1..(i - 1) : ~pp_stack[j].seen_else

\* The stack of the first branches: behind an #else it waits in the checkpoint of
\* the outermost #if whose first branch is over.
FirstBranches ==
  IF \E i \in DOMAIN pp_stack : FirstElse(i)
  THEN pp_stack[CHOOSE i \in DOMAIN pp_stack : FirstElse(i)].before_else
  ELSE stack

Later == [i \in DOMAIN pp_stack |-> pp_stack[i].seen_else]

Branches == INSTANCE LintBranches WITH stack <- FirstBranches, later <- Later

\* Only the lines of first branches count, however the directives are nested,
\* and what is reported at the end is what they leave open
\* (cpplint.py:2767-2773 and 2998-3009).
ImplementsBranches == Branches!Spec
=============================================================================
