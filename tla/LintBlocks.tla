------------------------------ MODULE LintBlocks ------------------------------
(***************************************************************************)
(* The blocks of C++ that cpplint's NestingState sees in a line, and what   *)
(* Update makes of the stack of open blocks.                                *)
(*                                                                         *)
(* A line is a directive, or the tokens Update looks at, in its order:      *)
(* namespace and class heads, braces, semicolons and parentheses.  Inline   *)
(* assembly, access specifiers and what the checks say of layout are left   *)
(* out.                                                                     *)
(***************************************************************************)
EXTENDS Integers, Sequences, FiniteSets

Directives == {"if", "else", "endif"}

\* What Update finds behind a directive: nothing, or the parentheses of a condition
\* like defined(X).  Bound: one pair of them.  "else" is #elif too.
Conditions(d) == IF d = "endif" THEN {<<>>} ELSE {<<>>, <<"(", ")">>}

\* Lines that make or close blocks.
TextLines ==
  {<<"namespace", "{">>, <<"namespace">>, <<"class", "{">>, <<"class">>,
   <<"class", ";">>, <<"class", ")">>, <<"{">>, <<"}">>, <<"(">>, <<")", "{">>}

\* _BlockInfo and its subclasses: seen_open_brace and open_parentheses.
Kinds == {"class", "namespace", "block"}
Blocks == [kind : Kinds, open : BOOLEAN, parens : Int]

Block(k, isOpen) == [kind |-> k, open |-> isOpen, parens |-> 0]

Top(s) == s[Len(s)]
Pop(s) == SubSeq(s, 1, Len(s) - 1)

SeenOpenBrace(s) == s = <<>> \/ Top(s).open

Count(tok, line) == Cardinality({i \in DOMAIN line : line[i] = tok})

\* The parentheses of a line belong to the block that is innermost before it.
CountParens(s, line) ==
  IF s = <<>> THEN s
  ELSE [s EXCEPT ![Len(s)].parens = @ + Count("(", line) - Count(")", line)]

\* A class is not taken for one among the parameters of a function.
Consume(s, tok) ==
  CASE tok = "namespace" -> Append(s, Block("namespace", FALSE))
    [] tok = "class" ->
         IF s = <<>> \/ Top(s).parens = 0 THEN Append(s, Block("class", FALSE)) ELSE s
    [] tok = "{" ->
         IF SeenOpenBrace(s) THEN Append(s, Block("block", TRUE))
         ELSE [s EXCEPT ![Len(s)].open = TRUE]
    [] tok \in {";", ")"} -> IF SeenOpenBrace(s) THEN s ELSE Pop(s)
    [] tok = "}" -> IF s = <<>> THEN s ELSE Pop(s)
    [] OTHER -> s

\* Update, behind UpdatePreprocessor: the tokens of the line, a directive's too.
Updated(s, line) ==
  LET after[i \in 0..Len(line)] ==
        IF i = 0 THEN CountParens(s, line) ELSE Consume(after[i - 1], line[i])
  IN after[Len(line)]

\* CheckCompletedBlocks
Incomplete(s) == {s[i].kind : i \in DOMAIN s} \ {"block"}

=============================================================================
