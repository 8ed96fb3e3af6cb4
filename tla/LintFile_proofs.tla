---------------------------- MODULE LintFile_proofs ----------------------------
(***************************************************************************)
(* What one file does to cpplint's state, proved for every set of headers,  *)
(* every classification of them and every number of lines.                  *)
(*                                                                         *)
(* That a repeated include is found is not inductive: an #else empties the  *)
(* last list, and with it what a line outside its #if may still see, unless *)
(* that is in an earlier list.  EnclosedListsStay says that it is, and      *)
(* Opened that the line of an #else opens a branch no include was made in.  *)
(*                                                                         *)
(* The refinement maps the open blocks to those of first branches only.     *)
(* First branches nest, so the outermost #if that is past its first branch  *)
(* holds them; MapInv says that there is one when any #if is past it.       *)
(***************************************************************************)
EXTENDS LintFile, SequenceTheorems, FiniteSetTheorems, TLAPS

-----------------------------------------------------------------------------
(* Blocks.                                                                  *)

Tokens == {"namespace", "class", "{", "}", "(", ")", ";"}

\* What is left of a sequence without its last element.
LEMMA PopIsSeq ==
  ASSUME NEW S, NEW s \in Seq(S), s # <<>>
  PROVE  /\ Top(s) \in S /\ Pop(s) \in Seq(S) /\ Len(Pop(s)) = Len(s) - 1
         /\ \A i \in 1..(Len(s) - 1) : Pop(s)[i] = s[i]
<1>1. PICK n \in Nat : Len(s) = n /\ n > 0
  OBVIOUS
<1>2. Top(s) \in S
  BY DEF Top
<1>3. Pop(s) \in Seq(S)
  BY DEF Pop
<1>4. Len(Pop(s)) = Len(s) - 1
  <2>1. Pop(s) = SubSeq(s, 1, n - 1)
    BY <1>1 DEF Pop
  <2>2. \A i \in 1..(n - 1) : s[i] \in S
    BY <1>1
  <2>3. Len(SubSeq(s, 1, n - 1)) = IF 1 <= n - 1 THEN (n - 1) - 1 + 1 ELSE 0
    BY <1>1, <2>2, SubSeqProperties
  <2>4. (IF 1 <= n - 1 THEN (n - 1) - 1 + 1 ELSE 0) = n - 1
    BY <1>1
  <2> QED BY <1>1, <2>1, <2>3, <2>4, Zenon
<1>5. \A i \in 1..(Len(s) - 1) : Pop(s)[i] = s[i]
  BY DEF Pop
<1> QED BY <1>2, <1>3, <1>4, <1>5

LEMMA CountIsNat ==
  ASSUME NEW S, NEW line \in Seq(S), NEW tok
  PROVE  Count(tok, line) \in Nat
<1>1. IsFiniteSet(DOMAIN line)
  BY FS_Interval
<1>2. IsFiniteSet({i \in DOMAIN line : line[i] = tok})
  BY <1>1, FS_Subset
<1> QED BY <1>2, FS_CardinalityType DEF Count

\* CountParens and Consume make stacks of stacks, whatever the token.
LEMMA CountParensIsStack ==
  ASSUME NEW s \in Stacks, NEW T, NEW line \in Seq(T)
  PROVE  CountParens(s, line) \in Stacks
<1>1. CASE s # <<>>
  <2>1. s[Len(s)] \in Blocks
    BY <1>1 DEF Stacks
  <2>2. [s[Len(s)] EXCEPT !.parens = s[Len(s)].parens + Count("(", line) - Count(")", line)]
          \in Blocks
    BY CountIsNat, <2>1 DEF Blocks
  <2>3. CountParens(s, line) = [s EXCEPT ![Len(s)] =
         [s[Len(s)] EXCEPT !.parens = s[Len(s)].parens + Count("(", line) - Count(")", line)]]
    BY <1>1 DEF CountParens
  <2> QED BY <1>1, <2>2, <2>3 DEF Stacks
<1> QED BY <1>1 DEF CountParens

LEMMA ConsumeKeepsStack ==
  ASSUME NEW s \in Stacks, NEW tok
  PROVE  Consume(s, tok) \in Stacks
<1>1. \A k \in Kinds, b \in BOOLEAN : Block(k, b) \in Blocks
  BY DEF Block, Blocks
<1>2. \A k \in Kinds, b \in BOOLEAN : Append(s, Block(k, b)) \in Stacks
  BY <1>1 DEF Stacks
<1>3. s # <<>> => Pop(s) \in Stacks
  BY PopIsSeq DEF Stacks
<1>4. ~SeenOpenBrace(s) => s # <<>> /\ [s EXCEPT ![Len(s)].open = TRUE] \in Stacks
  <2> SUFFICES ASSUME s # <<>> PROVE [s EXCEPT ![Len(s)].open = TRUE] \in Stacks
    BY DEF SeenOpenBrace
  <2>1. s[Len(s)] \in Blocks
    BY DEF Stacks
  <2>2. [s[Len(s)] EXCEPT !.open = TRUE] \in Blocks
    BY <2>1 DEF Blocks
  <2>3. [s EXCEPT ![Len(s)].open = TRUE] = [s EXCEPT ![Len(s)] = [s[Len(s)] EXCEPT !.open = TRUE]]
    OBVIOUS
  <2> QED BY <2>3, <2>2 DEF Stacks
<1> QED BY <1>2, <1>3, <1>4 DEF Consume, Kinds

LEMMA UpToTwo ==
  ASSUME NEW S, NEW t \in S, NEW u \in S
  PROVE  /\ <<>> \in Seq(S) /\ Len(<<>>) = 0
         /\ <<t>> \in Seq(S) /\ Len(<<t>>) = 1
         /\ <<t, u>> \in Seq(S) /\ Len(<<t, u>>) = 2
OBVIOUS

\* What Update finds in a line, a directive's included.
Lines == TextLines \cup UNION {Conditions(d) : d \in Directives}

LEMMA UpToTwoTokens ==
  ASSUME NEW line \in Lines
  PROVE  line \in Seq(Tokens) /\ Len(line) \in {0, 1, 2}
<1>1. \E t, u \in Tokens : line \in {<<>>, <<t>>, <<t, u>>}
  BY DEF Lines, Conditions, TextLines, Tokens
<1>2. PICK t \in Tokens, u \in Tokens : line \in {<<>>, <<t>>, <<t, u>>}
  BY <1>1
<1> QED BY <1>2, UpToTwo

\* Update makes a stack: its recursion has as many steps as a line has tokens.
LEMMA UpdatedIsStack ==
  ASSUME NEW s \in Stacks, NEW line \in Lines
  PROVE  Updated(s, line) \in Stacks
<1> DEFINE A == CountParens(s, line)
           B == Consume(A, line[1])
           C == Consume(B, line[2])
           P(f) == f = [i \in 0..Len(line) |->
                     IF i = 0 THEN CountParens(s, line) ELSE Consume(f[i - 1], line[i])]
           f0 == CHOOSE f : P(f)
           g == [i \in 0..Len(line) |-> IF i = 0 THEN A ELSE IF i = 1 THEN B ELSE C]
<1>1. line \in Seq(Tokens) /\ Len(line) \in {0, 1, 2}
  BY UpToTwoTokens
<1>2. A \in Stacks /\ B \in Stacks /\ C \in Stacks
  BY <1>1, CountParensIsStack, ConsumeKeepsStack
<1> HIDE DEF A, B, C
<1>3. P(g)
  BY <1>1 DEF A, B, C
<1>4. P(f0)
  BY <1>3
<1>5. Updated(s, line) = f0[Len(line)]
  BY DEF Updated
<1> HIDE DEF f0, g
<1>6. f0[0] \in Stacks
  BY <1>1, <1>2, <1>4 DEF A
<1>7. Len(line) > 0 => f0[1] \in Stacks
  BY <1>1, <1>4, <1>6, ConsumeKeepsStack
<1>8. Len(line) = 2 => f0[2] \in Stacks
  BY <1>1, <1>4, <1>7, ConsumeKeepsStack
<1>9. Len(line) = 0 => Updated(s, line) = f0[0]
  BY <1>5
<1>10. Len(line) = 1 => Updated(s, line) = f0[1]
  BY <1>5
<1>11. Len(line) = 2 => Updated(s, line) = f0[2]
  BY <1>5
<1> QED BY <1>1, <1>6, <1>7, <1>8, <1>9, <1>10, <1>11

-----------------------------------------------------------------------------
(* Types.                                                                   *)

LEMMA AppendIsSeq ==
  ASSUME NEW S, NEW s \in Seq(S), NEW x \in S
  PROVE  /\ Append(s, x) \in Seq(S) /\ Len(Append(s, x)) = Len(s) + 1
         /\ \A i \in 1..Len(s) : Append(s, x)[i] = s[i]
         /\ Append(s, x)[Len(s) + 1] = x
OBVIOUS

\* A new last element, as the #else of pp_stack, path and include_list has it.
LEMMA SetLastIsSeq ==
  ASSUME NEW S, NEW s \in Seq(S), NEW x \in S, s # <<>>
  PROVE  /\ [s EXCEPT ![Len(s)] = x] \in Seq(S)
         /\ Len([s EXCEPT ![Len(s)] = x]) = Len(s)
         /\ [s EXCEPT ![Len(s)] = x][Len(s)] = x
         /\ \A i \in 1..(Len(s) - 1) : [s EXCEPT ![Len(s)] = x][i] = s[i]
OBVIOUS

LEMMA SetLast ==
  ASSUME NEW S, NEW s \in Seq(S), NEW x \in S, s # <<>>,
         NEW u, u = [s EXCEPT ![Len(s)] = x]
  PROVE  /\ u \in Seq(S) /\ Len(u) = Len(s) /\ u[Len(s)] = x
         /\ \A i \in 1..(Len(s) - 1) : u[i] = s[i]
BY SetLastIsSeq

LEMMA BeforeLast ==
  ASSUME NEW n \in Nat, NEW i \in 1..n, i # n
  PROVE  i \in 1..(n - 1)
OBVIOUS

\* What a directive makes of pp_stack, path and include_list.
LEMMA DirectiveType ==
  ASSUME TypeOK, lines < MaxLines, lines' = lines + 1,
         NEW d \in Directives, NEW c \in Conditions(d), Directive(d, c)
  PROVE  TypeOK'
<1>1. /\ stack \in Stacks /\ pp_stack \in Seq(Checkpoints)
      /\ path \in Seq(1..MaxLines) /\ include_list \in Seq(SUBSET Headers)
      /\ Len(path) = Len(pp_stack) /\ Len(include_list) > Len(pp_stack)
      /\ Len(path) \in Nat /\ Len(pp_stack) \in Nat /\ Len(include_list) \in Nat
      /\ lines + 1 \in 1..MaxLines
  BY FileAssumption DEF TypeOK, FileAssumption
<1>2. path = <<>> <=> pp_stack = <<>>
  BY <1>1
<1>3. include_list # <<>>
  BY <1>1
<1>4. pp_stack # <<>> =>
        /\ Top(pp_stack) \in Checkpoints
        /\ Top(pp_stack).before_if \in Stacks /\ Top(pp_stack).before_else \in Stacks
  <2> SUFFICES ASSUME pp_stack # <<>>
               PROVE  /\ Top(pp_stack) \in Checkpoints
                      /\ Top(pp_stack).before_if \in Stacks
                      /\ Top(pp_stack).before_else \in Stacks
    OBVIOUS
  <2>1. Top(pp_stack) \in Checkpoints
    BY <1>1, PopIsSeq
  <2> QED BY <2>1 DEF Checkpoints
<1>5. /\ section' \in 0..4 /\ lines' \in 0..MaxLines /\ stray' \in BOOLEAN
      /\ UNCHANGED <<eof, reported, included>>
  BY <1>1 DEF TypeOK, Directive, ResetSection, NewPath, Initial, ended
<1>s. stack' \in Stacks
  <2>1. Restored(d) \in Stacks
    BY <1>1, <1>4 DEF Restored
  <2>2. c \in Lines
    BY DEF Lines
  <2> QED BY <2>1, <2>2, UpdatedIsStack DEF Directive
<1>6. CASE d = "if"
  <2>1. /\ pp_stack' = Append(pp_stack, Checkpoint(stack))
        /\ include_list' = Append(include_list, {}) /\ path' = Append(path, lines + 1)
    BY <1>6 DEF Directive, UpdatePreprocessor, BeginIf, ResetSection, NewPath
  <2>2. Checkpoint(stack) \in Checkpoints
    BY <1>1 DEF Checkpoint, Checkpoints, Stacks
  <2>3. {} \in SUBSET Headers
    OBVIOUS
  <2>4. /\ pp_stack' \in Seq(Checkpoints) /\ Len(pp_stack') = Len(pp_stack) + 1
        /\ include_list' \in Seq(SUBSET Headers) /\ Len(include_list') = Len(include_list) + 1
        /\ path' \in Seq(1..MaxLines) /\ Len(path') = Len(path) + 1
    BY <1>1, <2>1, <2>2, <2>3, AppendIsSeq
  <2> QED BY <1>1, <1>5, <1>s, <2>4 DEF TypeOK
<1>7. CASE d = "else"
  <2>1. include_list' \in Seq(SUBSET Headers) /\ Len(include_list') = Len(include_list)
    <3>1. include_list' = [include_list EXCEPT ![Len(include_list)] = {}]
      BY <1>7 DEF Directive, ResetSection, Forget
    <3> QED BY <1>1, <1>3, <3>1, SetLastIsSeq
  <2>2. path' \in Seq(1..MaxLines) /\ Len(path') = Len(path)
    <3>1. path' = IF path # <<>> THEN [path EXCEPT ![Len(path)] = lines + 1] ELSE path
      BY <1>7 DEF Directive, NewPath
    <3> QED BY <1>1, <3>1, SetLastIsSeq
  <2>3. pp_stack' \in Seq(Checkpoints) /\ Len(pp_stack') = Len(pp_stack)
    <3>1. CASE pp_stack = <<>>
      BY <1>1, <1>7, <3>1 DEF Directive, UpdatePreprocessor
    <3>2. CASE pp_stack # <<>>
      <4>1. BeginElse
        BY <1>7, <3>2 DEF Directive, UpdatePreprocessor
      <4> DEFINE top == [Top(pp_stack) EXCEPT !.seen_else = TRUE, !.before_else = stack]
      <4>2. top \in Checkpoints
        BY <1>1, <1>4, <3>2 DEF Checkpoints
      <4>3. pp_stack' \in {pp_stack, [pp_stack EXCEPT ![Len(pp_stack)] = top]}
        BY <4>1 DEF BeginElse, Top
      <4> HIDE DEF top
      <4>4. /\ [pp_stack EXCEPT ![Len(pp_stack)] = top] \in Seq(Checkpoints)
            /\ Len([pp_stack EXCEPT ![Len(pp_stack)] = top]) = Len(pp_stack)
        BY <1>1, <3>2, <4>2, SetLastIsSeq
      <4> QED BY <1>1, <1>4, <3>2, <4>1, <4>3, <4>4 DEF BeginElse
    <3> QED BY <3>1, <3>2
  <2> QED BY <1>1, <1>5, <1>s, <2>1, <2>2, <2>3 DEF TypeOK
<1>8. CASE d = "endif"
  <2>1. include_list' = include_list
    BY <1>8 DEF Directive, ResetSection
  <2>2. CASE pp_stack = <<>>
    BY <1>1, <1>2, <1>5, <1>s, <1>8, <2>1, <2>2
       DEF TypeOK, Directive, UpdatePreprocessor, NewPath
  <2>3. CASE pp_stack # <<>>
    <3>1. EndIf /\ path' = Pop(path)
      BY <1>2, <1>8, <2>3 DEF Directive, UpdatePreprocessor, NewPath
    <3>2. /\ pp_stack' \in Seq(Checkpoints) /\ Len(pp_stack') = Len(pp_stack) - 1
          /\ path' \in Seq(1..MaxLines) /\ Len(path') = Len(path) - 1
      BY <1>1, <1>2, <2>3, <3>1, PopIsSeq DEF EndIf
    <3> QED BY <1>1, <1>5, <1>s, <2>1, <3>2 DEF TypeOK
  <2> QED BY <2>2, <2>3
<1> QED BY <1>6, <1>7, <1>8 DEF Directives

\* No include leads back to an earlier section.
LEMMA SectionsGrow ==
  ASSUME NEW h \in Headers, Kept(h), section \in 0..4
  PROVE  NextSection(HeaderType[h]) \in section..4
<1>1. HeaderType[h] \in {"c", "cpp", "my", "other"}
  BY FileAssumption DEF FileAssumption, HeaderTypes, Kept
<1> QED BY <1>1 DEF NextSection, CSys, CppSys, MyH, OtherH

LEMMA IncompleteKinds ==
  ASSUME NEW s \in Stacks
  PROVE  Incomplete(s) \subseteq Kinds
<1>1. \A i \in DOMAIN s : s[i] \in Blocks
  BY DEF Stacks
<1> QED BY <1>1 DEF Incomplete, Blocks

\* Every line keeps the types.
LEMMA TypeStep == TypeOK /\ [Next]_vars => TypeOK'
<1> SUFFICES ASSUME TypeOK, [Next]_vars PROVE TypeOK'
  OBVIOUS
<1>1. ASSUME NEW d \in Directives, NEW c \in Conditions(d), Directive(d, c), lines < MaxLines, lines' = lines + 1
      PROVE  TypeOK'
  BY <1>1, DirectiveType
<1>2. ASSUME NEW line \in TextLines, Text(line), lines < MaxLines, lines' = lines + 1
      PROVE  TypeOK'
  <2>1. stack' \in Stacks
    BY <1>2, UpdatedIsStack DEF Text, TypeOK, Lines
  <2> QED BY <1>2, <2>1, FileAssumption DEF FileAssumption, Text, TypeOK, includes, ended
<1>3. ASSUME NEW h \in Headers, Include(h), lines < MaxLines, lines' = lines + 1
      PROVE  TypeOK'
  <2>1. /\ include_list' \in Seq(SUBSET Headers) /\ Len(include_list') = Len(include_list)
        /\ section' \in 0..4
    <3>1. CASE Found(h) \/ ~Kept(h)
      BY <1>3, <3>1 DEF Include, includes, TypeOK
    <3>2. CASE ~Found(h) /\ Kept(h)
      <4>1. /\ include_list' = [include_list EXCEPT ![Len(include_list)] =
                                  include_list[Len(include_list)] \cup {h}]
            /\ section' = NextSection(HeaderType[h])
        BY <1>3, <3>2 DEF Include
      <4>2. /\ include_list \in Seq(SUBSET Headers) /\ include_list # <<>>
            /\ include_list[Len(include_list)] \cup {h} \in SUBSET Headers
            /\ section \in 0..4
        BY DEF TypeOK
      <4>3. section' \in 0..4
        BY <3>2, <4>1, <4>2, SectionsGrow
      <4> QED BY <4>1, <4>2, <4>3, SetLastIsSeq
    <3> QED BY <3>1, <3>2
  <2>2. included' \subseteq [header : Headers, at : Seq(1..MaxLines)]
    BY <1>3 DEF Include, TypeOK
  <2> QED BY <1>3, <2>1, <2>2, FileAssumption
          DEF FileAssumption, Include, TypeOK, nesting, ended
<1>4. CASE Complete
  BY <1>4, IncompleteKinds DEF Complete, TypeOK, nesting, includes
<1>5. CASE UNCHANGED vars
  BY <1>5 DEF vars, nesting, includes, ended, TypeOK
<1> QED BY <1>1, <1>2, <1>3, <1>4, <1>5 DEF Next, NextLine

-----------------------------------------------------------------------------
(* Includes.                                                                *)

\* Branches are told apart by the line that opens them.
Opened ==
  /\ \A i \in 1..Len(path) : path[i] <= lines
  /\ \A inc \in included : \A i \in 1..Len(inc.at) : inc.at[i] <= lines

\* What was included outside an open #if is in a list that no #else of its own
\* can empty: that list is not the last one.
EnclosedListsStay ==
  ~stray => \A inc \in included :
    IsPrefix(inc.at, path) /\ Len(inc.at) < Len(path) =>
      \E i \in 1..(Len(include_list) - 1) : inc.header \in include_list[i]

IInv == TypeOK /\ Opened /\ EnclosingIncludesAreFound /\ EnclosedListsStay

\* As long as no directive was stray, every #else and #endif has its #if.
LEMMA NotStray ==
  ASSUME NEW d \in Directives, NEW c \in Conditions(d), Directive(d, c), ~stray'
  PROVE  ~stray /\ (d # "if" => path # <<>>)
BY DEF Directive, NewPath

\* A directive that has its #if opens or closes a branch.
LEMMA DirectiveMoves ==
  ASSUME TypeOK, Opened, lines < MaxLines, lines' = lines + 1,
         NEW d \in Directives, NEW c \in Conditions(d), Directive(d, c), d # "if" => path # <<>>
  PROVE  /\ path' # path
         /\ \A i \in 1..Len(path') : path'[i] <= lines'
         /\ d # "endif" => Len(path') > 0 /\ path'[Len(path')] = lines + 1
         /\ d = "if" => Len(path') = Len(path) + 1
         /\ d = "else" => Len(path') = Len(path)
         /\ d = "endif" => Len(path') = Len(path) - 1
         /\ \A i \in 1..Len(path') : (d # "endif" => i < Len(path')) => path'[i] = path[i]
<1>1. /\ path \in Seq(1..MaxLines) /\ Len(path) \in Nat /\ lines \in Nat
      /\ lines + 1 \in 1..MaxLines /\ \A i \in 1..Len(path) : path[i] \in Nat
  BY FileAssumption DEF TypeOK, FileAssumption
<1>2. CASE d = "if"
  <2>1. path' = Append(path, lines + 1)
    BY <1>2 DEF Directive, NewPath
  <2>2. /\ Len(path') = Len(path) + 1 /\ path'[Len(path) + 1] = lines + 1
        /\ \A i \in 1..Len(path) : path'[i] = path[i]
    BY <1>1, <2>1, AppendIsSeq
  <2> QED BY <1>1, <1>2, <2>2 DEF Opened
<1>3. CASE d = "else"
  <2>1. path' = [path EXCEPT ![Len(path)] = lines + 1]
    BY <1>3 DEF Directive, NewPath
  <2>2. /\ Len(path') = Len(path) /\ path'[Len(path)] = lines + 1
        /\ \A i \in 1..(Len(path) - 1) : path'[i] = path[i]
    BY <1>1, <1>3, <2>1, SetLastIsSeq
  <2>3. Len(path) > 0 /\ path[Len(path)] <= lines
    BY <1>1, <1>3 DEF Opened
  <2>4. path' # path
    BY <1>1, <2>2, <2>3
  <2>5. ASSUME NEW i \in 1..Len(path') PROVE path'[i] <= lines'
    <3>1. i \in 1..(Len(path) - 1) \/ i = Len(path)
      BY <1>1, <2>2
    <3> QED BY <1>1, <2>2, <3>1 DEF Opened
  <2> QED BY <1>1, <1>3, <2>2, <2>3, <2>4, <2>5
<1>4. CASE d = "endif"
  <2>1. path' = Pop(path) /\ path # <<>>
    BY <1>4 DEF Directive, NewPath
  <2>2. Len(path') = Len(path) - 1 /\ \A i \in 1..(Len(path) - 1) : path'[i] = path[i]
    BY <1>1, <2>1, PopIsSeq
  <2> QED BY <1>1, <1>4, <2>2 DEF Opened
<1> QED BY <1>2, <1>3, <1>4 DEF Directives

LEMMA IncludedTyped ==
  ASSUME TypeOK, NEW inc \in included
  PROVE  /\ inc.at \in Seq(1..MaxLines) /\ Len(inc.at) \in Nat
         /\ \A i \in 1..Len(inc.at) : inc.at[i] \in Nat
<1>1. inc \in [header : Headers, at : Seq(1..MaxLines)]
  BY DEF TypeOK
<1>2. inc.at \in Seq(1..MaxLines)
  BY <1>1
<1> QED BY <1>2, FileAssumption DEF FileAssumption

\* Lines are counted, so that no branch is opened by a line to come.
LEMMA OpenedStep == TypeOK /\ Opened /\ [Next]_vars => Opened'
<1> SUFFICES ASSUME TypeOK, Opened, [Next]_vars PROVE Opened'
  OBVIOUS
<1>1. /\ lines \in Nat /\ \A i \in 1..Len(path) : path[i] \in Nat
      /\ \A inc \in included : \A i \in 1..Len(inc.at) : inc.at[i] \in Nat
  BY IncludedTyped, FileAssumption DEF FileAssumption, TypeOK
<1>2. ASSUME NEW d \in Directives, NEW c \in Conditions(d), Directive(d, c), lines < MaxLines, lines' = lines + 1
      PROVE  Opened'
  <2>1. \A i \in 1..Len(path') : path'[i] <= lines'
    <3>1. CASE d # "if" => path # <<>>
      BY <1>2, <3>1, DirectiveMoves
    <3>2. CASE d # "if" /\ path = <<>>
      BY <1>1, <1>2, <3>2 DEF Directive, NewPath, Directives
    <3> QED BY <3>1, <3>2
  <2>2. included' = included
    BY <1>2 DEF Directive
  <2> QED BY <1>1, <1>2, <2>1, <2>2 DEF Opened
<1>3. ASSUME NEW h \in Headers, Include(h), lines' = lines + 1 PROVE Opened'
  <2>1. path' = path /\ included' \subseteq included \cup {[header |-> h, at |-> path]}
    BY <1>3 DEF Include
  <2>2. \A inc \in included' : inc \in included \/ inc.at = path
    BY <2>1
  <2>3. \A i \in 1..Len(path) : path[i] <= lines'
    BY <1>1, <1>3 DEF Opened
  <2>4. \A inc \in included : \A i \in 1..Len(inc.at) : inc.at[i] <= lines'
    BY <1>1, <1>3 DEF Opened
  <2>5. \A inc \in included' : \A i \in 1..Len(inc.at) : inc.at[i] <= lines'
    <3> TAKE inc \in included'
    <3>1. CASE inc \in included
      BY <2>4, <3>1
    <3>2. CASE inc.at = path
      BY <2>3, <3>2
    <3> QED BY <2>2, <3>1, <3>2
  <2> QED BY <2>1, <2>3, <2>5 DEF Opened
<1>4. ASSUME UNCHANGED <<path, included>>, lines' = lines \/ lines' = lines + 1
      PROVE  Opened'
  BY <1>1, <1>4 DEF Opened
<1> QED BY <1>2, <1>3, <1>4 DEF Next, NextLine, Text, Complete, vars

\* After a directive, what was included in a branch that is still open is in a
\* list before the last.
LEMMA DirectiveKeepsIncludes ==
  ASSUME IInv, lines < MaxLines, lines' = lines + 1,
         NEW d \in Directives, NEW c \in Conditions(d), Directive(d, c), ~stray',
         NEW inc \in included, IsPrefix(inc.at, path')
  PROVE  \E i \in 1..(Len(include_list') - 1) : inc.header \in include_list'[i]
<1>1. /\ path \in Seq(1..MaxLines) /\ include_list \in Seq(SUBSET Headers)
      /\ inc.at \in Seq(1..MaxLines)
      /\ Len(path) \in Nat /\ Len(include_list) \in Nat /\ Len(inc.at) \in Nat
      /\ Len(include_list) > 0 /\ lines \in Nat
      /\ \A i \in 1..Len(inc.at) : inc.at[i] <= lines /\ inc.at[i] \in Nat
  <2>1. \A i \in 1..Len(inc.at) : inc.at[i] <= lines
    BY DEF IInv, Opened
  <2> QED BY <2>1, IncludedTyped DEF IInv, TypeOK
<1>2. /\ ~stray
      /\ d # "endif" => Len(path') > 0 /\ path'[Len(path')] = lines + 1
      /\ d = "if" => Len(path') = Len(path) + 1
      /\ d = "else" => Len(path') = Len(path)
      /\ d = "endif" => Len(path') = Len(path) - 1
      /\ \A i \in 1..Len(path') : (d # "endif" => i < Len(path')) => path'[i] = path[i]
  BY NotStray, DirectiveMoves DEF IInv
<1>3. Len(inc.at) <= Len(path') /\ \A i \in 1..Len(inc.at) : inc.at[i] = path'[i]
  BY DEF IsPrefix
<1>4. Len(path') \in Nat
  BY <1>1, <1>2 DEF Directives
<1>5. d # "endif" => Len(inc.at) < Len(path')
  <2> SUFFICES ASSUME d # "endif", Len(inc.at) = Len(path') PROVE FALSE
    BY <1>1, <1>3, <1>4
  <2> QED BY <1>1, <1>2, <1>3, <1>4
<1>6. IsPrefix(inc.at, path) /\ (d # "if" => Len(inc.at) < Len(path))
  <2>1. \A i \in 1..Len(inc.at) : path'[i] = path[i]
    BY <1>1, <1>2, <1>3, <1>4, <1>5
  <2>2. Len(inc.at) <= Len(path) /\ (d # "if" => Len(inc.at) < Len(path))
    BY <1>1, <1>2, <1>3, <1>4, <1>5 DEF Directives
  <2> QED BY <1>3, <2>1, <2>2 DEF IsPrefix
<1>7. CASE d = "if"
  <2>1. PICK i \in DOMAIN include_list : inc.header \in include_list[i]
    BY <1>2, <1>6 DEF IInv, EnclosingIncludesAreFound, Found
  <2>2. i \in 1..Len(include_list)
    BY <1>1
  <2>3. include_list' = Append(include_list, {})
    BY <1>7 DEF Directive, ResetSection
  <2>4. Len(include_list') = Len(include_list) + 1 /\ include_list'[i] = include_list[i]
    BY <1>1, <2>2, <2>3
  <2> QED BY <1>1, <2>1, <2>2, <2>4
<1>8. CASE d # "if"
  <2>1. PICK i \in 1..(Len(include_list) - 1) : inc.header \in include_list[i]
    BY <1>2, <1>6, <1>8 DEF IInv, EnclosedListsStay
  <2>2. include_list' \in {include_list, [include_list EXCEPT ![Len(include_list)] = {}]}
    BY <1>8 DEF Directive, ResetSection, Forget, Directives
  <2>3. Len(include_list') = Len(include_list) /\ include_list'[i] = include_list[i]
    BY <1>1, <2>2
  <2> QED BY <2>1, <2>3
<1> QED BY <1>7, <1>8

\* A line that keeps the branches only adds to the lists.
LEMMA ListsOnlyGrow ==
  ASSUME TypeOK, Opened, [Next]_vars, path' = path, ~stray'
  PROVE  /\ ~stray /\ Len(include_list') = Len(include_list)
         /\ \A i \in 1..Len(include_list) : include_list[i] \subseteq include_list'[i]
<1>1. ASSUME NEW d \in Directives, NEW c \in Conditions(d), Directive(d, c), lines < MaxLines, lines' = lines + 1
      PROVE  FALSE
  BY <1>1, NotStray, DirectiveMoves
<1>2. ASSUME NEW h \in Headers, Include(h)
      PROVE  /\ ~stray /\ Len(include_list') = Len(include_list)
             /\ \A i \in 1..Len(include_list) : include_list[i] \subseteq include_list'[i]
  <2>1. include_list \in Seq(SUBSET Headers) /\ ~stray
    BY <1>2 DEF TypeOK, Include
  <2>2. \/ include_list' = include_list
        \/ include_list' = [include_list EXCEPT ![Len(include_list)] =
                              include_list[Len(include_list)] \cup {h}]
    BY <1>2 DEF Include, includes
  <2> QED BY <2>1, <2>2
<1>3. CASE UNCHANGED <<include_list, stray>>
  BY <1>3
<1> QED
  BY <1>1, <1>2, <1>3 DEF Next, NextLine, Text, Complete, vars, includes

\* The two parts on includes, a directive by DirectiveKeepsIncludes and any other
\* line by ListsOnlyGrow.
LEMMA IncludesStep ==
  IInv /\ [Next]_vars => EnclosingIncludesAreFound' /\ EnclosedListsStay'
<1> SUFFICES ASSUME IInv, [Next]_vars, ~stray', NEW inc \in included',
                    IsPrefix(inc.at, path')
             PROVE  /\ \E i \in 1..Len(include_list') : inc.header \in include_list'[i]
                    /\ Len(inc.at) < Len(path') =>
                         \E i \in 1..(Len(include_list') - 1) : inc.header \in include_list'[i]
  <2>1. DOMAIN include_list' = 1..Len(include_list')
    BY TypeStep DEF IInv, TypeOK
  <2> QED BY <2>1 DEF EnclosingIncludesAreFound, EnclosedListsStay, Found
<1>1. /\ Len(include_list) \in Nat /\ Len(include_list') \in Nat
      /\ DOMAIN include_list = 1..Len(include_list)
  BY TypeStep DEF IInv, TypeOK
<1>2. ASSUME NEW d \in Directives, NEW c \in Conditions(d), Directive(d, c), lines < MaxLines, lines' = lines + 1
      PROVE  \E i \in 1..(Len(include_list') - 1) : inc.header \in include_list'[i]
  <2>1. inc \in included
    BY <1>2 DEF Directive
  <2> QED BY <1>2, <2>1, DirectiveKeepsIncludes
\* The other lines stay in their branches and only add to the lists.
<1>3. ASSUME path' = path, inc \in included
      PROVE  /\ \E i \in 1..Len(include_list') : inc.header \in include_list'[i]
             /\ Len(inc.at) < Len(path') =>
                  \E i \in 1..(Len(include_list') - 1) : inc.header \in include_list'[i]
  <2>1. /\ ~stray /\ Len(include_list') = Len(include_list)
        /\ \A i \in 1..Len(include_list) : include_list[i] \subseteq include_list'[i]
    BY <1>3, ListsOnlyGrow DEF IInv
  <2>2. \E i \in 1..Len(include_list) : inc.header \in include_list[i]
    BY <1>1, <1>3, <2>1 DEF IInv, EnclosingIncludesAreFound, Found
  <2>3. Len(inc.at) < Len(path) =>
          \E i \in 1..(Len(include_list) - 1) : inc.header \in include_list[i]
    BY <1>3, <2>1 DEF IInv, EnclosedListsStay
  <2> QED BY <1>1, <1>3, <2>1, <2>2, <2>3
<1>4. ASSUME NEW h \in Headers, Include(h), inc \notin included
      PROVE  /\ inc.at = path'
             /\ \E i \in 1..Len(include_list') : inc.header \in include_list'[i]
  <2>1. inc = [header |-> h, at |-> path] /\ path' = path /\ Kept(h)
    BY <1>4 DEF Include
  <2>2. CASE Found(h)
    <3>1. include_list' = include_list
      BY <1>4, <2>2 DEF Include, includes
    <3> QED BY <1>1, <2>1, <2>2, <3>1 DEF Found
  <2>3. CASE ~Found(h)
    <3>1. include_list' = [include_list EXCEPT ![Len(include_list)] =
                             include_list[Len(include_list)] \cup {h}]
      BY <1>4, <2>1, <2>3 DEF Include
    <3>2. include_list \in Seq(SUBSET Headers) /\ Len(include_list) > 0
      BY DEF IInv, TypeOK
    <3>3. Len(include_list) \in 1..Len(include_list') /\ h \in include_list'[Len(include_list)]
      BY <3>1, <3>2
    <3> QED BY <2>1, <3>3
  <2> QED BY <2>1, <2>2, <2>3
<1>5. path' \in Seq(1..MaxLines)
  BY TypeStep DEF IInv, TypeOK
<1>6. CASE inc \in included /\ ~(\E d \in Directives : \E c \in Conditions(d) : NextLine /\ Directive(d, c))
  <2>1. path' = path
    BY <1>6 DEF Next, NextLine, Text, Include, Complete, vars
  <2> QED BY <1>3, <1>6, <2>1
<1>7. CASE inc \notin included
  <2>1. \E h \in Headers : Include(h)
    BY <1>7 DEF Next, NextLine, Directive, Text, Complete, vars
  <2> QED BY <1>4, <1>5, <1>7, <2>1
<1>8. ASSUME NEW d \in Directives, NEW c \in Conditions(d), NextLine, Directive(d, c)
      PROVE  /\ \E i \in 1..Len(include_list') : inc.header \in include_list'[i]
             /\ Len(inc.at) < Len(path') =>
                  \E i \in 1..(Len(include_list') - 1) : inc.header \in include_list'[i]
  BY <1>1, <1>2, <1>8 DEF NextLine
<1> QED BY <1>6, <1>7, <1>8

-----------------------------------------------------------------------------
(* The theorems on types and includes.                                      *)

LEMMA InitInv == Init => IInv
<1> SUFFICES ASSUME Init PROVE IInv
  OBVIOUS
<1>1. TypeOK
  <2>1. <<{}>> \in Seq(SUBSET Headers) /\ Len(<<{}>>) = 1
    OBVIOUS
  <2>2. \A S : <<>> \in Seq(S) /\ Len(<<>>) = 0
    OBVIOUS
  <2>3. <<>> \in Stacks /\ <<>> \in Seq(Checkpoints) /\ <<>> \in Seq(1..MaxLines)
    BY <2>2 DEF Stacks
  <2>4. stack \in Stacks /\ pp_stack \in Seq(Checkpoints) /\ path \in Seq(1..MaxLines)
        /\ Len(path) = 0 /\ Len(pp_stack) = 0
        /\ include_list \in Seq(SUBSET Headers) /\ Len(include_list) = 1
    BY <2>1, <2>2, <2>3 DEF Init
  <2>5. section \in 0..4 /\ lines \in 0..MaxLines /\ Len(include_list) > Len(pp_stack)
    BY <2>4, FileAssumption DEF FileAssumption, Init, Initial
  <2>6. /\ eof \in BOOLEAN /\ stray \in BOOLEAN /\ reported \subseteq Kinds
        /\ included \subseteq [header : Headers, at : Seq(1..MaxLines)]
    BY Zenon DEF Init
  <2> QED BY <2>4, <2>5, <2>6, Zenon DEF TypeOK
<1> QED BY <1>1 DEF Init, IInv, Opened, EnclosingIncludesAreFound, EnclosedListsStay

\* The inductive invariant: types, the branches told apart by their lines, and
\* every enclosing include in a list that the #else of an inner #if cannot reach
\* (_IncludeState.ResetSection, cpplint.py:893-909).
THEOREM Invariant == Spec => []IInv
<1>1. Init => IInv
  BY InitInv
<1>2. IInv /\ [Next]_vars => IInv'
  BY TypeStep, OpenedStep, IncludesStep DEF IInv
<1> QED BY <1>1, <1>2, PTL DEF Spec

\* Every variable keeps its type: no #endif and no line pops an empty stack, and
\* there is a list of includes for every open #if.
THEOREM TypeCorrect == Spec => []TypeOK
<1>1. IInv => TypeOK
  BY DEF IInv
<1> QED BY <1>1, Invariant, PTL

\* A header that was included in a branch the line is still in is found again,
\* whatever directives came between (cpplint.py:893-909 and 4813).
THEOREM RepeatsAreNoticed == Spec => []EnclosingIncludesAreFound
<1>1. IInv => EnclosingIncludesAreFound
  BY DEF IInv
<1> QED BY <1>1, Invariant, PTL

\* Between directives the section of the includes never goes back
\* (CheckNextIncludeOrder, cpplint.py:849).
THEOREM SectionsAdvance == Spec => SectionMovesForward
<1>1. IInv /\ [Next]_vars => [UNCHANGED path /\ ~stray' => section' >= section]_vars
  <2> SUFFICES ASSUME IInv, [Next]_vars, path' = path, ~stray'
               PROVE  section' >= section
    OBVIOUS
  <2>1. section \in 0..4
    BY DEF IInv, TypeOK
  <2>2. ~(\E d \in Directives : \E c \in Conditions(d) : NextLine /\ Directive(d, c))
    BY NotStray, DirectiveMoves DEF IInv, NextLine
  <2>3. ASSUME NEW h \in Headers, Include(h) PROVE section' >= section
    <3>1. CASE Found(h) \/ ~Kept(h)
      BY <2>1, <2>3, <3>1 DEF Include, includes
    <3>2. CASE ~Found(h) /\ Kept(h)
      <4>1. section' = NextSection(HeaderType[h])
        BY <2>3, <3>2 DEF Include
      <4> QED BY <2>1, <3>2, <4>1, SectionsGrow
    <3> QED BY <3>1, <3>2
  <2>4. CASE section' = section
    BY <2>1, <2>4
  <2> QED BY <2>2, <2>3, <2>4 DEF Next, NextLine, Text, Complete, vars, includes
<1> QED BY <1>1, Invariant, PTL DEF Spec, SectionMovesForward

-----------------------------------------------------------------------------
(* Refinement.  The mapping as operators on pp_stack and stack, so that it  *)
(* can be said of the states before and after a step.                       *)

First(p, i) == p[i].seen_else /\ \A j \in 1..(i - 1) : ~p[j].seen_else
InFirst(p) == ~(\E i \in 1..Len(p) : First(p, i))
Branch(p, s) ==
  IF InFirst(p) THEN s ELSE p[CHOOSE i \in 1..Len(p) : First(p, i)].before_else
LaterOf(p) == [i \in 1..Len(p) |-> p[i].seen_else]

\* Where some first branch is over, one is the outermost.
HasFirst(p) == InFirst(p) => \A i \in 1..Len(p) : ~p[i].seen_else

\* The mapping, said with these operators, before a step and after it.
LEMMA MappingIsBranch ==
  ASSUME TypeOK
  PROVE  FirstBranches = Branch(pp_stack, stack) /\ Later = LaterOf(pp_stack)
<1>1. DOMAIN pp_stack = 1..Len(pp_stack)
  BY DEF TypeOK
<1>2. FirstBranches = Branch(pp_stack, stack)
  BY <1>1, Zenon DEF FirstBranches, Branch, InFirst, FirstElse, First
<1> QED BY <1>1, <1>2 DEF Later, LaterOf

LEMMA MappingAfter ==
  ASSUME TypeOK'
  PROVE  FirstBranches' = Branch(pp_stack', stack') /\ Later' = LaterOf(pp_stack')
<1>1. DOMAIN pp_stack' = 1..Len(pp_stack')
  BY DEF TypeOK
<1>2. FirstBranches' = Branch(pp_stack', stack')
  BY <1>1, Zenon DEF FirstBranches, Branch, InFirst, FirstElse, First
<1> QED BY <1>1, <1>2 DEF Later, LaterOf

\* The outermost #if past its first branch is unique.
LEMMA BranchOfFirst ==
  ASSUME NEW p \in Seq(Checkpoints), NEW i \in 1..Len(p), First(p, i), NEW s
  PROVE  ~InFirst(p) /\ Branch(p, s) = p[i].before_else
<1>1. ASSUME NEW j \in 1..Len(p), First(p, j) PROVE j = i
  <2>1. i \in Nat /\ j \in Nat /\ i > 0 /\ j > 0
    OBVIOUS
  <2>2. ~(i < j) /\ ~(j < i)
    BY <1>1, <2>1 DEF First
  <2> QED BY <2>1, <2>2
<1>2. (CHOOSE j \in 1..Len(p) : First(p, j)) = i
  BY <1>1
<1> QED BY <1>2 DEF Branch, InFirst


LEMMA LaterIsSeq ==
  ASSUME NEW p \in Seq(Checkpoints)
  PROVE  /\ LaterOf(p) \in Seq(BOOLEAN) /\ Len(LaterOf(p)) = Len(p)
         /\ \A i \in 1..Len(p) : LaterOf(p)[i] = p[i].seen_else
<1>1. Len(p) \in Nat /\ \A i \in 1..Len(p) : p[i] \in Checkpoints
  OBVIOUS
<1>2. \A c \in Checkpoints : c.seen_else \in BOOLEAN
  BY DEF Checkpoints
<1>3. \A i \in 1..Len(p) : p[i].seen_else \in BOOLEAN
  BY <1>1, <1>2
<1>4. LaterOf(p) = [i \in 1..Len(p) |-> p[i].seen_else]
  BY <1>1 DEF LaterOf
<1>5. LaterOf(p) \in Seq(BOOLEAN)
  BY <1>1, <1>3, <1>4, IsASeq
<1> QED BY <1>1, <1>4, <1>5

\* #if
LEMMA FirstOfAppend ==
  ASSUME NEW p \in Seq(Checkpoints), NEW c \in Checkpoints, c.seen_else = FALSE,
         NEW q, q = Append(p, c), NEW s, HasFirst(p)
  PROVE  Branch(q, s) = Branch(p, s) /\ HasFirst(q)
<1>1. /\ q \in Seq(Checkpoints) /\ Len(q) = Len(p) + 1 /\ Len(p) \in Nat
      /\ \A i \in 1..Len(p) : q[i] = p[i]
      /\ q[Len(p) + 1] = c
  BY AppendIsSeq
<1>2. \A i \in 1..Len(p) : First(q, i) <=> First(p, i)
  BY <1>1 DEF First
<1>3. ~First(q, Len(p) + 1)
  BY <1>1 DEF First
<1>4. ASSUME InFirst(p) PROVE Branch(q, s) = Branch(p, s) /\ HasFirst(q)
  <2>1. InFirst(q)
    BY <1>1, <1>2, <1>3, <1>4 DEF InFirst
  <2>2. \A i \in 1..Len(p) : ~q[i].seen_else
    BY <1>1, <1>4 DEF HasFirst
  <2>3. HasFirst(q)
    BY <1>1, <2>2 DEF HasFirst
  <2> QED BY <1>4, <2>1, <2>3 DEF Branch
<1>5. ASSUME ~InFirst(p) PROVE Branch(q, s) = Branch(p, s) /\ HasFirst(q)
  <2>1. PICK i \in 1..Len(p) : First(p, i)
    BY <1>1, <1>5 DEF InFirst
  <2>2. i \in 1..Len(q) /\ First(q, i) /\ i \in 1..Len(p)
    BY <1>1, <1>2, <2>1
  <2>3. /\ Branch(p, s) = p[i].before_else
        /\ ~InFirst(q) /\ Branch(q, s) = q[i].before_else
    BY <1>1, <2>1, <2>2, BranchOfFirst
  <2> QED BY <1>1, <2>3 DEF HasFirst
<1> QED BY <1>4, <1>5

LEMMA LaterOfAppend ==
  ASSUME NEW p \in Seq(Checkpoints), NEW c \in Checkpoints, c.seen_else = FALSE,
         NEW q, q = Append(p, c)
  PROVE  LaterOf(q) = Append(LaterOf(p), FALSE)
<1>1. /\ q \in Seq(Checkpoints) /\ Len(q) = Len(p) + 1 /\ Len(p) \in Nat
      /\ \A i \in 1..Len(p) : q[i] = p[i]
      /\ q[Len(p) + 1] = c
  BY AppendIsSeq
<1>2. /\ LaterOf(p) \in Seq(BOOLEAN) /\ Len(LaterOf(p)) = Len(p)
      /\ \A i \in 1..Len(p) : LaterOf(p)[i] = p[i].seen_else
      /\ LaterOf(q) \in Seq(BOOLEAN) /\ Len(LaterOf(q)) = Len(p) + 1
      /\ \A i \in 1..(Len(p) + 1) : LaterOf(q)[i] = q[i].seen_else
  BY <1>1, LaterIsSeq
<1> DEFINE u == Append(LaterOf(p), c.seen_else)
<1>3. /\ u \in Seq(BOOLEAN) /\ Len(u) = Len(p) + 1
      /\ \A i \in 1..Len(p) : u[i] = LaterOf(p)[i]
      /\ u[Len(p) + 1] = c.seen_else
  <2>1. c.seen_else \in BOOLEAN
    BY DEF Checkpoints
  <2> QED BY <1>2, <2>1, AppendIsSeq
<1> HIDE DEF u
<1>4. ASSUME NEW i \in 1..(Len(p) + 1) PROVE LaterOf(q)[i] = u[i]
  <2>1. i \in 1..Len(p) \/ i = Len(p) + 1
    BY <1>1
  <2> QED BY <1>1, <1>2, <1>3, <2>1
<1>5. LaterOf(q) = u
  BY <1>2, <1>3, <1>4, SeqEqual
<1> QED BY <1>5 DEF u

\* The first #else of an #if, whose checkpoint keeps the stack s.
LEMMA FirstOfElse ==
  ASSUME NEW p \in Seq(Checkpoints), p # <<>>, Top(p).seen_else = FALSE,
         NEW q \in Seq(Checkpoints), Len(q) = Len(p), Top(q).seen_else = TRUE,
         \A i \in 1..(Len(p) - 1) : q[i] = p[i],
         HasFirst(p)
  PROVE  /\ HasFirst(q)
         /\ \A s, t : s = Top(q).before_else => Branch(q, t) = Branch(p, s)
<1> SUFFICES ASSUME NEW t PROVE Branch(q, t) = Branch(p, Top(q).before_else) /\ HasFirst(q)
  OBVIOUS
<1>1. Len(p) \in Nat /\ Len(p) > 0 /\ q[Len(p)].seen_else = TRUE /\ Top(q) = q[Len(p)]
  BY DEF Top
<1>2. \A i \in 1..(Len(p) - 1) : First(q, i) <=> First(p, i)
  BY <1>1 DEF First
<1>3. ~First(p, Len(p))
  BY <1>1 DEF First, Top
<1>4. ASSUME InFirst(p) PROVE Branch(q, t) = Branch(p, Top(q).before_else) /\ HasFirst(q)
  <2>1. \A i \in 1..Len(p) : ~p[i].seen_else
    BY <1>1, <1>4 DEF HasFirst
  <2>2. First(q, Len(p)) /\ Len(p) \in 1..Len(q)
    BY <1>1, <2>1 DEF First
  <2>3. ~InFirst(q) /\ Branch(q, t) = Top(q).before_else
    <3>1. ~InFirst(q) /\ Branch(q, t) = q[Len(p)].before_else
      BY <2>2, BranchOfFirst
    <3> QED BY <1>1, <3>1
  <2> QED BY <1>4, <2>3 DEF Branch, HasFirst
<1>5. ASSUME ~InFirst(p) PROVE Branch(q, t) = Branch(p, Top(q).before_else) /\ HasFirst(q)
  <2>1. PICK i \in 1..Len(p) : First(p, i)
    BY <1>1, <1>5 DEF InFirst
  <2>2. i \in 1..(Len(p) - 1) /\ i \in 1..Len(p) /\ i \in 1..Len(q)
    BY <1>1, <1>3, <2>1
  <2>3. First(q, i) /\ q[i] = p[i]
    BY <1>2, <2>1, <2>2
  <2>4. /\ Branch(p, Top(q).before_else) = p[i].before_else
        /\ ~InFirst(q) /\ Branch(q, t) = q[i].before_else
    BY <2>1, <2>2, <2>3, BranchOfFirst
  <2> QED BY <2>3, <2>4 DEF HasFirst
<1> QED BY <1>4, <1>5

LEMMA LaterOfElse ==
  ASSUME NEW p \in Seq(Checkpoints), p # <<>>,
         NEW top \in Checkpoints, top.seen_else = TRUE,
         NEW q \in Seq(Checkpoints), Len(q) = Len(p), q[Len(p)] = top,
         \A i \in 1..(Len(p) - 1) : q[i] = p[i]
  PROVE  LaterOf(q) = [LaterOf(p) EXCEPT ![Len(LaterOf(p))] = TRUE]
<1>1. Len(p) \in Nat /\ Len(p) > 0
  OBVIOUS
<1>2. /\ Len(LaterOf(p)) = Len(p)
      /\ LaterOf(p) = [i \in 1..Len(p) |-> p[i].seen_else]
      /\ LaterOf(q) = [i \in 1..Len(p) |-> q[i].seen_else]
  BY <1>1, LaterIsSeq DEF LaterOf
<1>3. \A i \in 1..Len(p) : q[i].seen_else = IF i = Len(p) THEN TRUE ELSE p[i].seen_else
  <2> TAKE i \in 1..Len(p)
  <2>1. i = Len(p) \/ i \in 1..(Len(p) - 1)
    BY <1>1
  <2> QED BY <1>1, <2>1
<1> QED BY <1>2, <1>3

LEMMA LaterOfPop ==
  ASSUME NEW p \in Seq(Checkpoints), p # <<>>, NEW q \in Seq(Checkpoints),
         Len(q) = Len(p) - 1, \A i \in 1..(Len(p) - 1) : q[i] = p[i]
  PROVE  LaterOf(q) = Pop(LaterOf(p))
<1> DEFINE l == LaterOf(p)
           m == LaterOf(q)
           u == Pop(l)
<1>1. PICK n \in Nat : Len(p) = n /\ n > 0
  OBVIOUS
<1>2. /\ l \in Seq(BOOLEAN) /\ Len(l) = n /\ \A i \in 1..n : l[i] = p[i].seen_else
      /\ m \in Seq(BOOLEAN) /\ Len(m) = n - 1 /\ \A i \in 1..(n - 1) : m[i] = q[i].seen_else
  BY <1>1, LaterIsSeq
<1> HIDE DEF l, m
<1>3. l # <<>>
  BY <1>1, <1>2
<1>4. u \in Seq(BOOLEAN) /\ Len(u) = n - 1 /\ \A i \in 1..(n - 1) : u[i] = l[i]
  BY <1>2, <1>3, PopIsSeq
<1> HIDE DEF u
<1>5. ASSUME NEW i \in 1..(n - 1) PROVE m[i] = u[i]
  <2>1. i \in 1..n /\ q[i] = p[i]
    BY <1>1
  <2> QED BY <1>2, <1>4, <2>1
<1>6. m = u
  BY <1>2, <1>4, <1>5, SeqEqual
<1> QED BY <1>6 DEF l, m, u

\* #endif, which takes back the stack s, or what the #else kept.
LEMMA FirstOfPop ==
  ASSUME NEW p \in Seq(Checkpoints), p # <<>>, NEW q \in Seq(Checkpoints), Len(q) = Len(p) - 1,
         \A i \in 1..(Len(p) - 1) : q[i] = p[i], HasFirst(p)
  PROVE  /\ HasFirst(q)
         /\ \A s, t : t = (IF Top(p).seen_else THEN Top(p).before_else ELSE s)
                        => Branch(q, t) = Branch(p, s)
<1> SUFFICES ASSUME NEW s, NEW t,
                    t = IF Top(p).seen_else THEN Top(p).before_else ELSE s
             PROVE  Branch(q, t) = Branch(p, s) /\ HasFirst(q)
  OBVIOUS
<1>1. Len(p) \in Nat /\ Len(p) > 0
  OBVIOUS
<1>2. \A i \in 1..(Len(p) - 1) : First(q, i) <=> First(p, i)
  BY <1>1 DEF First
<1>3. ASSUME InFirst(p) PROVE Branch(q, t) = Branch(p, s) /\ HasFirst(q)
  <2>1. \A i \in 1..Len(p) : ~p[i].seen_else
    BY <1>1, <1>3 DEF HasFirst
  <2>2. \A i \in 1..(Len(p) - 1) : ~q[i].seen_else
    BY <1>1, <2>1
  <2>3. t = s
    BY <1>1, <2>1 DEF Top
  <2>4. InFirst(q) /\ HasFirst(q)
    BY <1>1, <2>2 DEF InFirst, HasFirst, First
  <2> QED BY <1>3, <2>3, <2>4 DEF Branch
<1>4. ASSUME NEW i \in 1..Len(p), First(p, i)
      PROVE  Branch(q, t) = Branch(p, s) /\ HasFirst(q)
  <2>1. Branch(p, s) = p[i].before_else
    BY <1>1, <1>4, BranchOfFirst
  <2>2. CASE i = Len(p)
    <3>1. \A j \in 1..(Len(p) - 1) : ~q[j].seen_else
      BY <1>1, <1>4, <2>2 DEF First
    <3>2. InFirst(q) /\ HasFirst(q)
      BY <1>1, <3>1 DEF InFirst, HasFirst, First
    <3>3. t = p[i].before_else
      BY <1>4, <2>2 DEF First, Top
    <3> QED BY <2>1, <3>2, <3>3 DEF Branch
  <2>3. CASE i # Len(p)
    <3>1. i \in 1..(Len(p) - 1) /\ i \in 1..Len(q)
      <4>1. i \in 1..(Len(p) - 1)
        BY <1>1, <2>3, BeforeLast
      <4> QED BY <1>1, <4>1
    <3>2. First(q, i) /\ q[i] = p[i]
      BY <1>1, <1>2, <1>4, <3>1
    <3>3. ~InFirst(q) /\ Branch(q, t) = q[i].before_else
      BY <1>1, <3>1, <3>2, BranchOfFirst
    <3> QED BY <2>1, <3>2, <3>3 DEF HasFirst
  <2> QED BY <2>2, <2>3
<1> QED BY <1>1, <1>3, <1>4 DEF InFirst

-----------------------------------------------------------------------------
\* What LintBranches makes of "later" at a directive.
LaterAfter(d, l) ==
  CASE d = "if" -> Append(l, FALSE)
    [] d = "else" /\ l # <<>> -> [l EXCEPT ![Len(l)] = TRUE]
    [] d = "endif" /\ l # <<>> -> Pop(l)
    [] OTHER -> l

LEMMA SameLast ==
  ASSUME NEW S, NEW l \in Seq(S), l # <<>>, NEW x, l[Len(l)] = x
  PROVE  [l EXCEPT ![Len(l)] = x] = l
OBVIOUS

\* A later #else or #elif.
LEMMA ElseAgain ==
  ASSUME NEW p \in Seq(Checkpoints), p # <<>>, Top(p).seen_else = TRUE, HasFirst(p), NEW s, NEW t
  PROVE  /\ Branch(p, t) = Branch(p, s)
         /\ [LaterOf(p) EXCEPT ![Len(LaterOf(p))] = TRUE] = LaterOf(p)
<1>1. Len(p) \in 1..Len(p) /\ p[Len(p)].seen_else = TRUE
  BY DEF Top
<1>2. ~InFirst(p)
  BY <1>1 DEF HasFirst
<1>3. /\ LaterOf(p) \in Seq(BOOLEAN) /\ Len(LaterOf(p)) = Len(p)
      /\ LaterOf(p)[Len(p)] = TRUE
  BY <1>1, LaterIsSeq
<1>4. LaterOf(p) # <<>>
  BY <1>1, <1>3
<1> QED BY <1>2, <1>3, <1>4, SameLast DEF Branch

\* UpdatePreprocessor changes which branches are later ones, and no block.
LEMMA DirectiveMaps ==
  ASSUME TypeOK, HasFirst(pp_stack), NEW d \in Directives, UpdatePreprocessor(d)
  PROVE  /\ Branch(pp_stack', Restored(d)) = Branch(pp_stack, stack) /\ HasFirst(pp_stack')
         /\ LaterOf(pp_stack') = LaterAfter(d, LaterOf(pp_stack))
<1>1. pp_stack \in Seq(Checkpoints) /\ stack \in Stacks
  BY DEF TypeOK
<1>2. LaterOf(pp_stack) = <<>> <=> pp_stack = <<>>
  BY <1>1, LaterIsSeq
<1>3. CASE d = "if"
  <2>1. pp_stack' = Append(pp_stack, Checkpoint(stack))
    BY <1>3 DEF UpdatePreprocessor, BeginIf
  <2>r. Restored(d) = stack
    BY <1>3 DEF Restored
  <2>2. Checkpoint(stack) \in Checkpoints /\ Checkpoint(stack).seen_else = FALSE
    BY <1>1 DEF Checkpoint, Checkpoints, Stacks
  <2>3. Branch(pp_stack', stack) = Branch(pp_stack, stack) /\ HasFirst(pp_stack')
    BY <1>1, <2>1, <2>2, FirstOfAppend
  <2>4. LaterOf(pp_stack') = Append(LaterOf(pp_stack), FALSE)
    BY <1>1, <2>1, <2>2, LaterOfAppend
  <2> QED BY <1>3, <2>r, <2>3, <2>4 DEF LaterAfter
<1>4. CASE pp_stack = <<>> /\ d # "if"
  <2>1. pp_stack' = pp_stack /\ Restored(d) = stack
    BY <1>4 DEF UpdatePreprocessor, Restored
  <2> QED BY <1>2, <1>4, <2>1 DEF LaterAfter
<1>5. CASE pp_stack # <<>> /\ d = "else"
  <2>1. BeginElse
    BY <1>5 DEF UpdatePreprocessor
  <2>2. Top(pp_stack) \in Checkpoints /\ Top(pp_stack) = pp_stack[Len(pp_stack)]
    BY <1>1, <1>5, PopIsSeq DEF Top
  <2>3. LaterAfter(d, LaterOf(pp_stack))
          = [LaterOf(pp_stack) EXCEPT ![Len(LaterOf(pp_stack))] = TRUE]
    BY <1>2, <1>5 DEF LaterAfter
  <2>4. CASE Top(pp_stack).seen_else = TRUE
    <3>1. pp_stack' = pp_stack
      BY <2>1, <2>4 DEF BeginElse
    <3> QED BY <1>1, <1>5, <2>3, <2>4, <3>1, ElseAgain
  <2>5. CASE Top(pp_stack).seen_else = FALSE
    <3> DEFINE top == [Top(pp_stack) EXCEPT !.seen_else = TRUE, !.before_else = stack]
    <3>1. top \in Checkpoints /\ top.seen_else = TRUE /\ top.before_else = stack
      BY <1>1, <2>2 DEF Checkpoints
    <3>2. pp_stack' = [pp_stack EXCEPT ![Len(pp_stack)] = top]
      BY <2>1, <2>2, <2>5 DEF BeginElse
    <3> HIDE DEF top
    <3>3. /\ pp_stack' \in Seq(Checkpoints) /\ Len(pp_stack') = Len(pp_stack)
          /\ pp_stack'[Len(pp_stack)] = top
          /\ \A i \in 1..(Len(pp_stack) - 1) : pp_stack'[i] = pp_stack[i]
      BY <1>1, <1>5, <3>1, <3>2, SetLast
    <3>4. HasFirst(pp_stack') /\ Branch(pp_stack', Restored(d)) = Branch(pp_stack, stack)
      <4>1. Top(pp_stack') = top
        BY <3>3 DEF Top
      <4>2. Top(pp_stack').seen_else = TRUE /\ Top(pp_stack').before_else = stack
        BY <3>1, <4>1
      <4>3. ASSUME NEW q, q = pp_stack'
            PROVE  HasFirst(q) /\ Branch(q, Restored(d)) = Branch(pp_stack, stack)
        <5>1. /\ q \in Seq(Checkpoints) /\ Len(q) = Len(pp_stack)
              /\ \A i \in 1..(Len(pp_stack) - 1) : q[i] = pp_stack[i]
              /\ Top(q).seen_else = TRUE /\ Top(q).before_else = stack
          BY <3>3, <4>2, <4>3
        <5>2. HasFirst(q)
          BY <1>1, <1>5, <2>5, <5>1, FirstOfElse, Zenon
        <5>3. \A s, t : s = Top(q).before_else => Branch(q, t) = Branch(pp_stack, s)
          BY <1>1, <1>5, <2>5, <5>1, FirstOfElse
        <5> QED BY <5>1, <5>2, <5>3
      <4> QED BY <4>3
    <3>5. LaterOf(pp_stack') = [LaterOf(pp_stack) EXCEPT ![Len(LaterOf(pp_stack))] = TRUE]
      BY <1>1, <1>5, <3>1, <3>3, LaterOfElse
    <3> QED BY <2>3, <3>1, <3>4, <3>5
  <2> QED BY <2>2, <2>4, <2>5 DEF Checkpoints
<1>6. CASE pp_stack # <<>> /\ d = "endif"
  <2>1. EndIf
    BY <1>6 DEF UpdatePreprocessor
  <2>2. /\ pp_stack' \in Seq(Checkpoints) /\ Len(pp_stack') = Len(pp_stack) - 1
        /\ \A i \in 1..(Len(pp_stack) - 1) : pp_stack'[i] = pp_stack[i]
    BY <1>1, <1>6, <2>1, PopIsSeq DEF EndIf
  <2>3. Restored(d) = IF Top(pp_stack).seen_else THEN Top(pp_stack).before_else ELSE stack
    BY <1>6 DEF Restored
  <2>4. Branch(pp_stack', Restored(d)) = Branch(pp_stack, stack) /\ HasFirst(pp_stack')
    BY <1>1, <1>6, <2>2, <2>3, FirstOfPop
  <2>5. LaterOf(pp_stack') = Pop(LaterOf(pp_stack))
    BY <1>1, <1>6, <2>2, LaterOfPop
  <2> QED BY <1>2, <1>6, <2>4, <2>5 DEF LaterAfter
<1> QED BY <1>3, <1>4, <1>5, <1>6 DEF Directives

\* The invariant of the mapping.
MapInv == HasFirst(pp_stack)

\* An empty file to start with.
LEMMA MapInit == Init => MapInv /\ Branches!Init
<1> SUFFICES ASSUME Init PROVE MapInv /\ Branches!Init
  OBVIOUS
<1>1. TypeOK /\ pp_stack = <<>> /\ stack = <<>> /\ eof = FALSE /\ reported = {}
  BY InitInv DEF Init, IInv
<1>2. MapInv /\ InFirst(pp_stack)
  BY <1>1 DEF MapInv, HasFirst, InFirst
<1>3. FirstBranches = <<>> /\ Later = <<>>
  BY <1>1, <1>2, MappingIsBranch DEF Branch, LaterOf
<1> QED BY <1>1, <1>2, <1>3 DEF Branches!Init

\* LintBranches passes over a line when some #if is past its first branch.
LEMMA SkippingIsLater ==
  ASSUME TypeOK, HasFirst(pp_stack)
  PROVE  Branches!Skipping <=> ~InFirst(pp_stack)
<1>1. Later = LaterOf(pp_stack) /\ Len(pp_stack) \in Nat
  BY MappingIsBranch DEF TypeOK
<1>2. Branches!Skipping <=> \E i \in 1..Len(pp_stack) : pp_stack[i].seen_else
  BY <1>1 DEF Branches!Skipping, LaterOf
<1> QED BY <1>2 DEF HasFirst, InFirst, First

LEMMA SkippingAfter ==
  ASSUME TypeOK', HasFirst(pp_stack')
  PROVE  Branches!Skipping' <=> ~InFirst(pp_stack')
<1>1. Later' = LaterOf(pp_stack') /\ Len(pp_stack') \in Nat
  BY MappingAfter DEF TypeOK
<1>2. Branches!Skipping' <=> \E i \in 1..Len(pp_stack') : pp_stack'[i].seen_else
  BY <1>1 DEF Branches!Skipping, LaterOf
<1> QED BY <1>2 DEF HasFirst, InFirst, First

\* LintBranches has blocks of its own, the same ones.
LEMMA SameBlocks ==
  ASSUME NEW s, NEW line
  PROVE  /\ Branches!Updated(s, line) = Updated(s, line)
         /\ Branches!Incomplete(s) = Incomplete(s)
         /\ Branches!Kinds = Kinds /\ Branches!TextLines = TextLines
         /\ \A d : Branches!Conditions(d) = Conditions(d)
<1>1. \A l, tok : Branches!Count(tok, l) = Count(tok, l)
  BY DEF Branches!Count, Count, Branches!Cardinality, Cardinality, Branches!IsFiniteSet, IsFiniteSet
<1>2. Branches!CountParens(s, line) = CountParens(s, line)
  BY <1>1 DEF Branches!CountParens, CountParens
<1>3. \A u, tok : Branches!Consume(u, tok) = Consume(u, tok)
  BY DEF Branches!Consume, Consume, Branches!Top, Top, Branches!Pop, Pop,
         Branches!SeenOpenBrace, SeenOpenBrace, Branches!Block, Block
<1>4. Branches!Updated(s, line) = Updated(s, line)
  BY <1>2, <1>3 DEF Branches!Updated, Updated
<1>5. Branches!Incomplete(s) = Incomplete(s)
  BY DEF Branches!Incomplete, Incomplete
<1>6. Branches!Kinds = Kinds /\ Branches!TextLines = TextLines
  BY DEF Branches!Kinds, Kinds, Branches!TextLines, TextLines
<1>7. \A d : Branches!Conditions(d) = Conditions(d)
  BY DEF Branches!Conditions, Conditions
<1> QED BY <1>4, <1>5, <1>6, <1>7

\* Every line is a step of LintBranches; an include changes nothing of it.
LEMMA StepMaps ==
  ASSUME IInv, MapInv, [Next]_vars
  PROVE  MapInv' /\ [Branches!Next]_(Branches!vars)
<1>1. /\ TypeOK /\ TypeOK' /\ HasFirst(pp_stack)
      /\ FirstBranches = Branch(pp_stack, stack) /\ Later = LaterOf(pp_stack)
      /\ FirstBranches' = Branch(pp_stack', stack') /\ Later' = LaterOf(pp_stack')
  BY TypeStep, MappingIsBranch, MappingAfter DEF IInv, MapInv
<1>2. ASSUME NEW d \in Directives, NEW c \in Conditions(d), ~eof, Directive(d, c)
      PROVE  MapInv' /\ Branches!Next
  <2>1. /\ UpdatePreprocessor(d) /\ UNCHANGED <<eof, reported>>
        /\ stack' = Updated(Restored(d), c)
    BY <1>2 DEF Directive, ended
  <2>2. /\ Branch(pp_stack', Restored(d)) = FirstBranches /\ MapInv'
        /\ Later' = LaterAfter(d, Later)
    BY <1>1, <2>1, DirectiveMaps DEF MapInv
  <2>3. FirstBranches' = IF Branches!Skipping' THEN FirstBranches
                         ELSE Branches!Updated(FirstBranches, c)
    <3>1. Branches!Skipping' <=> ~InFirst(pp_stack')
      BY <1>1, <2>2, SkippingAfter DEF MapInv
    <3>2. CASE ~InFirst(pp_stack')
      BY <1>1, <2>2, <3>1, <3>2 DEF Branch
    <3>3. CASE InFirst(pp_stack')
      <4>1. Restored(d) = FirstBranches /\ FirstBranches' = stack'
        BY <1>1, <2>2, <3>3 DEF Branch
      <4> QED BY <2>1, <3>1, <3>3, <4>1, SameBlocks
    <3> QED BY <3>2, <3>3
  <2>4. Branches!Directive(d, c)
    BY <2>1, <2>2, <2>3 DEF Branches!Directive, LaterAfter, Branches!Pop, Pop
  <2> QED BY <1>2, <2>2, <2>4, SameBlocks DEF Branches!Next, Branches!Directives, Directives
<1>3. ASSUME NEW line \in TextLines, ~eof, Text(line)
      PROVE  MapInv' /\ Branches!Next
  <2>1. /\ pp_stack' = pp_stack /\ eof' = eof /\ reported' = reported
        /\ stack' = Updated(stack, line)
    BY <1>3 DEF Text, ended
  <2>2. MapInv' /\ Later' = Later
    BY <1>1, <2>1 DEF MapInv
  <2>3. FirstBranches' = IF Branches!Skipping THEN FirstBranches
                         ELSE Branches!Updated(FirstBranches, line)
    <3>1. CASE ~InFirst(pp_stack)
      BY <1>1, <2>1, <3>1, SkippingIsLater DEF Branch
    <3>2. CASE InFirst(pp_stack)
      <4>1. FirstBranches = stack /\ FirstBranches' = Updated(stack, line)
        BY <1>1, <2>1, <3>2 DEF Branch
      <4> QED BY <1>1, <3>2, <4>1, SkippingIsLater, SameBlocks
    <3> QED BY <3>1, <3>2
  <2>4. Branches!Text(line)
    BY <2>1, <2>2, <2>3 DEF Branches!Text
  <2> QED BY <1>3, <2>2, <2>4, SameBlocks DEF Branches!Next
<1>4. ASSUME UNCHANGED <<pp_stack, stack, eof, reported>>
      PROVE  MapInv' /\ UNCHANGED Branches!vars
  BY <1>1, <1>4 DEF MapInv, Branches!vars
<1>5. ASSUME ~eof, Complete
      PROVE  MapInv' /\ Branches!Next
  <2>1. /\ pp_stack' = pp_stack /\ stack' = stack /\ eof' = TRUE
        /\ reported' = Incomplete(stack)
    BY <1>5 DEF Complete, nesting
  <2>2. MapInv' /\ Later' = Later /\ FirstBranches' = FirstBranches
    BY <1>1, <2>1 DEF MapInv
  <2>3. reported' \in SUBSET Branches!Kinds
    BY <1>1, <2>1, IncompleteKinds, SameBlocks DEF TypeOK
  <2>4. ~Branches!Skipping => reported' = Branches!Incomplete(FirstBranches)
    BY <1>1, <2>1, SkippingIsLater, SameBlocks DEF Branch
  <2>5. Branches!Complete
    BY <2>1, <2>2, <2>3, <2>4 DEF Branches!Complete
  <2> QED BY <1>5, <2>2, <2>5 DEF Branches!Next
<1>6. ASSUME NEW h \in Headers, Include(h)
      PROVE  UNCHANGED <<pp_stack, stack, eof, reported>>
  BY <1>6 DEF Include, nesting, ended
<1>7. CASE Next
  BY <1>2, <1>3, <1>4, <1>5, <1>6, <1>7 DEF Next, NextLine
<1>8. CASE UNCHANGED vars
  BY <1>4, <1>8 DEF vars, nesting, ended
<1> QED BY <1>7, <1>8

\* The nesting stack with its checkpoints does what UpdatePreprocessor's docstring
\* asks: only first branches count, however directives nest, and the report at the
\* end is theirs (cpplint.py:2767-2773 and 2998-3009).
THEOREM LintsFirstBranches == Spec => ImplementsBranches
BY Invariant, MapInit, StepMaps, PTL DEF Spec, ImplementsBranches, Branches!Spec
=============================================================================
