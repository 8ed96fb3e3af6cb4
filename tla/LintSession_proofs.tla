-------------------------- MODULE LintSession_proofs --------------------------
(***************************************************************************)
(* Proofs about LintSession, for any number of files, levels, categories    *)
(* and configurations.  The invariant follows a file through its stations:  *)
(* the filters are the command line's until they are applied (StationInv),  *)
(* what was found on the way up is what the levels passed say (WalkInv),    *)
(* the filters hold the lines applied so far (AppliedInv), and the          *)
(* suppressions are the notes of this file (NoteInv).                       *)
(***************************************************************************)
EXTENDS LintSession, TLAPS

-----------------------------------------------------------------------------
(* Sequences of filters.                                                    *)

\* A category in two runs of lines, one behind the other.
LEMMA MentionJoined ==
  ASSUME NEW a \in Seq(FilterLines), NEW b \in Seq(FilterLines), NEW c
  PROVE  Mention(a \o b, c) <=> Mention(a, c) \/ Mention(b, c)
<1>1. /\ DOMAIN a = 1..Len(a) /\ DOMAIN b = 1..Len(b) /\ DOMAIN (a \o b) = 1..(Len(a) + Len(b))
      /\ Len(a) \in Nat /\ Len(b) \in Nat
      /\ \A i \in 1..Len(a) : (a \o b)[i] = a[i]
      /\ \A i \in 1..Len(b) : (a \o b)[Len(a) + i] = b[i]
  OBVIOUS
<1>2. \A i \in 1..(Len(a) + Len(b)) :
        i \in 1..Len(a) \/ (i - Len(a) \in 1..Len(b) /\ i = Len(a) + (i - Len(a)))
  BY <1>1
<1>3. ASSUME Mention(a \o b, c) PROVE Mention(a, c) \/ Mention(b, c)
  <2>1. PICK i \in 1..(Len(a) + Len(b)) : About((a \o b)[i], c)
    BY <1>1, <1>3 DEF Mention
  <2> QED BY <2>1, <1>1, <1>2 DEF Mention
<1>4. ASSUME Mention(a, c) \/ Mention(b, c) PROVE Mention(a \o b, c)
  <2>1. \A i \in 1..Len(a) : i \in 1..(Len(a) + Len(b))
    BY <1>1
  <2>2. \A i \in 1..Len(b) : Len(a) + i \in 1..(Len(a) + Len(b))
    BY <1>1
  <2> QED BY <1>1, <1>4, <2>1, <2>2 DEF Mention
<1> QED BY <1>3, <1>4

\* The first line that is about c, in two runs of lines one behind the other.
LEMMA FirstJoined ==
  ASSUME NEW a \in Seq(FilterLines), NEW b \in Seq(FilterLines), NEW c, NEW s
  PROVE  FirstSays(a \o b, c, s) <=> FirstSays(a, c, s) \/ (~Mention(a, c) /\ FirstSays(b, c, s))
<1>1. /\ DOMAIN a = 1..Len(a) /\ DOMAIN b = 1..Len(b) /\ DOMAIN (a \o b) = 1..(Len(a) + Len(b))
      /\ Len(a) \in Nat /\ Len(b) \in Nat
      /\ \A i \in 1..Len(a) : (a \o b)[i] = a[i]
      /\ \A i \in 1..Len(b) : (a \o b)[Len(a) + i] = b[i]
  OBVIOUS
<1>2. ASSUME FirstSays(a \o b, c, s), ~FirstSays(a, c, s)
      PROVE  ~Mention(a, c) /\ FirstSays(b, c, s)
  <2>1. PICK i \in 1..(Len(a) + Len(b)) :
          /\ LastSays((a \o b)[i], c, s)
          /\ \A j \in 1..(i - 1) : ~About((a \o b)[j], c)
    BY <1>1, <1>2 DEF FirstSays
  <2>2. i \notin 1..Len(a)
    <3>1. ASSUME i \in 1..Len(a) PROVE FALSE
      <4>1. LastSays(a[i], c, s)
        BY <3>1, <2>1, <1>1
      <4>2. \A j \in 1..(i - 1) : j \in 1..Len(a) /\ ~About(a[j], c)
        BY <3>1, <2>1, <1>1
      <4> QED BY <4>1, <4>2, <3>1, <1>1, <1>2 DEF FirstSays
    <3> QED BY <3>1
  <2>3. PICK k \in 1..Len(b) : i = Len(a) + k
    <3>1. i - Len(a) \in 1..Len(b) /\ i = Len(a) + (i - Len(a))
      BY <2>2, <1>1
    <3> QED BY <3>1
  <2>4. LastSays(b[k], c, s)
    BY <2>1, <2>3, <1>1
  <2>5. \A j \in 1..(k - 1) : ~About(b[j], c)
    <3>1. ASSUME NEW j \in 1..(k - 1) PROVE ~About(b[j], c)
      <4>1. Len(a) + j \in 1..(i - 1) /\ j \in 1..Len(b)
        BY <2>3, <1>1
      <4> QED BY <4>1, <2>1, <1>1
    <3> QED BY <3>1
  <2>6. \A j \in 1..Len(a) : j \in 1..(i - 1)
    BY <2>3, <1>1
  <2>7. ~Mention(a, c)
    BY <2>6, <2>1, <1>1 DEF Mention
  <2> QED BY <2>4, <2>5, <2>7, <1>1 DEF FirstSays
<1>3. ASSUME FirstSays(a, c, s) PROVE FirstSays(a \o b, c, s)
  <2>1. PICK i \in 1..Len(a) : LastSays(a[i], c, s) /\ \A j \in 1..(i - 1) : ~About(a[j], c)
    BY <1>1, <1>3 DEF FirstSays
  <2>2. i \in 1..(Len(a) + Len(b)) /\ \A j \in 1..(i - 1) : j \in 1..Len(a)
    BY <1>1
  <2> QED BY <2>1, <2>2, <1>1 DEF FirstSays
<1>4. ASSUME ~Mention(a, c), FirstSays(b, c, s) PROVE FirstSays(a \o b, c, s)
  <2>1. PICK k \in 1..Len(b) : LastSays(b[k], c, s) /\ \A j \in 1..(k - 1) : ~About(b[j], c)
    BY <1>1, <1>4 DEF FirstSays
  <2>2. PICK i \in 1..(Len(a) + Len(b)) : i = Len(a) + k /\ LastSays((a \o b)[i], c, s)
    <3>1. Len(a) + k \in 1..(Len(a) + Len(b)) /\ LastSays((a \o b)[Len(a) + k], c, s)
      BY <2>1, <1>1
    <3> QED BY <3>1
  <2>3. ASSUME NEW j \in 1..(i - 1) PROVE ~About((a \o b)[j], c)
    <3>1. CASE j \in 1..Len(a)
      BY <3>1, <1>1, <1>4 DEF Mention
    <3>2. CASE j \notin 1..Len(a)
      <4>1. j - Len(a) \in 1..(k - 1) /\ j - Len(a) \in 1..Len(b) /\ j = Len(a) + (j - Len(a))
        BY <3>2, <2>2, <1>1
      <4> QED BY <4>1, <2>1, <1>1
    <3> QED BY <3>1, <3>2
  <2> QED BY <2>2, <2>3, <1>1 DEF FirstSays
<1> QED BY <1>2, <1>3, <1>4

\* The last that is about c, in two sequences one behind the other.
LEMMA LastJoined ==
  ASSUME NEW a \in Seq(Filters), NEW b \in Seq(Filters), NEW c, NEW s
  PROVE  LastSays(a \o b, c, s) <=> LastSays(b, c, s) \/ (~About(b, c) /\ LastSays(a, c, s))
<1>1. /\ DOMAIN a = 1..Len(a) /\ DOMAIN b = 1..Len(b) /\ DOMAIN (a \o b) = 1..(Len(a) + Len(b))
      /\ Len(a \o b) = Len(a) + Len(b) /\ Len(a) \in Nat /\ Len(b) \in Nat
      /\ \A i \in 1..Len(a) : (a \o b)[i] = a[i]
      /\ \A i \in 1..Len(b) : (a \o b)[Len(a) + i] = b[i]
  OBVIOUS
<1>2. ASSUME LastSays(a \o b, c, s), ~LastSays(b, c, s)
      PROVE  ~About(b, c) /\ LastSays(a, c, s)
  <2>1. PICK i \in 1..(Len(a) + Len(b)) :
          /\ (a \o b)[i] = [sign |-> s, cat |-> c]
          /\ \A j \in (i + 1)..(Len(a) + Len(b)) : (a \o b)[j].cat # c
    BY <1>1, <1>2 DEF LastSays
  <2>2. i \in 1..Len(a)
    <3>1. ASSUME i \notin 1..Len(a) PROVE FALSE
      <4>1. i - Len(a) \in 1..Len(b) /\ i = Len(a) + (i - Len(a))
        BY <3>1, <1>1
      <4>2. PICK k \in 1..Len(b) : i = Len(a) + k
        BY <4>1
      <4>3. b[k] = [sign |-> s, cat |-> c]
        BY <4>2, <2>1, <1>1
      <4>4. ASSUME NEW j \in (k + 1)..Len(b) PROVE b[j].cat # c
        <5>1. Len(a) + j \in (i + 1)..(Len(a) + Len(b)) /\ j \in 1..Len(b)
          BY <4>2, <1>1
        <5> QED BY <5>1, <2>1, <1>1
      <4> QED BY <4>3, <4>4, <1>1, <1>2 DEF LastSays
    <3> QED BY <3>1
  <2>3. a[i] = [sign |-> s, cat |-> c]
    BY <2>1, <2>2, <1>1
  <2>4. ASSUME NEW j \in (i + 1)..Len(a) PROVE a[j].cat # c
    <3>1. j \in (i + 1)..(Len(a) + Len(b)) /\ j \in 1..Len(a)
      BY <2>2, <1>1
    <3> QED BY <3>1, <2>1, <1>1
  <2>5. ASSUME NEW j \in 1..Len(b) PROVE b[j].cat # c
    <3>1. Len(a) + j \in (i + 1)..(Len(a) + Len(b))
      BY <2>2, <1>1
    <3> QED BY <3>1, <2>1, <1>1
  <2> QED BY <2>2, <2>3, <2>4, <2>5, <1>1 DEF LastSays, About
<1>3. ASSUME LastSays(b, c, s) PROVE LastSays(a \o b, c, s)
  <2>1. PICK k \in 1..Len(b) : b[k] = [sign |-> s, cat |-> c] /\ \A j \in (k + 1)..Len(b) : b[j].cat # c
    BY <1>1, <1>3 DEF LastSays
  <2>2. Len(a) + k \in 1..(Len(a) + Len(b)) /\ (a \o b)[Len(a) + k] = [sign |-> s, cat |-> c]
    BY <2>1, <1>1
  <2>3. ASSUME NEW j \in (Len(a) + k + 1)..(Len(a) + Len(b)) PROVE (a \o b)[j].cat # c
    <3>1. j - Len(a) \in (k + 1)..Len(b) /\ j - Len(a) \in 1..Len(b) /\ j = Len(a) + (j - Len(a))
      BY <1>1
    <3> QED BY <3>1, <2>1, <1>1
  <2> QED BY <2>2, <2>3, <1>1 DEF LastSays
<1>4. ASSUME ~About(b, c), LastSays(a, c, s) PROVE LastSays(a \o b, c, s)
  <2>1. PICK i \in 1..Len(a) : a[i] = [sign |-> s, cat |-> c] /\ \A j \in (i + 1)..Len(a) : a[j].cat # c
    BY <1>1, <1>4 DEF LastSays
  <2>2. i \in 1..(Len(a) + Len(b)) /\ (a \o b)[i] = [sign |-> s, cat |-> c]
    BY <2>1, <1>1
  <2>3. ASSUME NEW j \in (i + 1)..(Len(a) + Len(b)) PROVE (a \o b)[j].cat # c
    <3>1. CASE j \in 1..Len(a)
      BY <3>1, <2>1, <1>1
    <3>2. CASE j \notin 1..Len(a)
      <4>1. j - Len(a) \in 1..Len(b) /\ j = Len(a) + (j - Len(a))
        BY <3>2, <1>1
      <4> QED BY <4>1, <1>1, <1>4 DEF About
    <3> QED BY <3>1, <3>2
  <2> QED BY <2>2, <2>3, <1>1 DEF LastSays
<1> QED BY <1>2, <1>3, <1>4

\* Of the lines behind k, the first that is about c says this; none is about c.
Told(lines, k, c, s) ==
  \E i \in (k + 1)..Len(lines) :
    LastSays(lines[i], c, s) /\ \A j \in (k + 1)..(i - 1) : ~About(lines[j], c)
Silent(lines, k, c) == \A j \in (k + 1)..Len(lines) : ~About(lines[j], c)

\* A line that is applied comes before those behind it.
LEMMA OneMoreTold ==
  ASSUME NEW lines \in Seq(FilterLines), NEW k \in 1..Len(lines), NEW c, NEW s
  PROVE  /\ Told(lines, k - 1, c, s) <=>
              LastSays(lines[k], c, s) \/ (~About(lines[k], c) /\ Told(lines, k, c, s))
         /\ Silent(lines, k - 1, c) <=> ~About(lines[k], c) /\ Silent(lines, k, c)
<1>1. Len(lines) \in Nat /\ k - 1 + 1 = k
  OBVIOUS
<1>2. \A i \in k..Len(lines) : i = k \/ i \in (k + 1)..Len(lines)
  BY <1>1
<1>3. \A i \in (k + 1)..Len(lines) : i \in k..Len(lines) /\ k \in k..(i - 1)
  BY <1>1
<1>4. k \in k..Len(lines) /\ \A j : j \notin k..(k - 1)
  BY <1>1
<1>5. ASSUME Told(lines, k - 1, c, s), ~LastSays(lines[k], c, s)
      PROVE  ~About(lines[k], c) /\ Told(lines, k, c, s)
  <2>1. PICK i \in k..Len(lines) :
          LastSays(lines[i], c, s) /\ \A j \in k..(i - 1) : ~About(lines[j], c)
    BY <1>1, <1>5 DEF Told
  <2>2. i \in (k + 1)..Len(lines)
    BY <1>2, <1>5, <2>1
  <2>3. \A j \in (k + 1)..(i - 1) : j \in k..(i - 1)
    BY <2>2, <1>1
  <2> QED BY <1>3, <2>1, <2>2, <2>3 DEF Told
<1>6. ASSUME LastSays(lines[k], c, s) PROVE Told(lines, k - 1, c, s)
  BY <1>1, <1>4, <1>6 DEF Told
<1>7. ASSUME ~About(lines[k], c), Told(lines, k, c, s) PROVE Told(lines, k - 1, c, s)
  <2>1. PICK i \in (k + 1)..Len(lines) :
          LastSays(lines[i], c, s) /\ \A j \in (k + 1)..(i - 1) : ~About(lines[j], c)
    BY <1>7 DEF Told
  <2>2. \A j \in k..(i - 1) : j = k \/ j \in (k + 1)..(i - 1)
    BY <2>1, <1>1
  <2> QED BY <1>1, <1>3, <1>7, <2>1, <2>2 DEF Told
<1>8. Silent(lines, k - 1, c) <=> ~About(lines[k], c) /\ Silent(lines, k, c)
  BY <1>1, <1>2, <1>3, <1>4 DEF Silent
<1> QED BY <1>5, <1>6, <1>7, <1>8

-----------------------------------------------------------------------------
(* The invariant.                                                           *)

\* The filters of the command line are there again when a file is begun, and stay
\* until all of the way up was gone.
StationInv ==
  /\ pc \in {"config", "open", "data", "lines"} => file \in 1..NFiles /\ backup = cmd
  /\ pc = "next" => filters = cmd
  /\ pc = "config" /\ at \in Levels => filters = cmd /\ todo = Len(found)
  /\ pc \in {"open", "data", "lines"} => todo = 0 /\ at \notin Levels
  /\ pc \notin {"data", "lines"} => last = NoError

\* The configurations read so far, on the way up.
Passed == {l \in Saying : l < at}

\* What was found is what the levels passed say, the nearest first.
WalkInv ==
  pc \in {"config", "open", "data", "lines"} =>
    /\ level[file] <= at
    /\ at \in Levels => at \in Heeded
    /\ \A c \in Categories :
         /\ Mention(found, c) <=> \E l \in Passed : Mention(cfg[l].filters, c)
         /\ FirstSays(found, c, "-") <=>
              \E l \in Passed : /\ FirstSays(cfg[l].filters, c, "-")
                               /\ \A k \in Passed : k < l => ~Mention(cfg[k].filters, c)

\* Of the lines applied so far the first decides, behind them the command line.
AppliedInv ==
  pc \in {"config", "open", "data", "lines"} =>
    \A c \in Categories :
      LastSays(filters, c, "-") <=>
        Told(found, todo, c, "-") \/ (Silent(found, todo, c) /\ LastSays(cmd, c, "-"))

\* The suppressions are the comments and markers of this file.
NoteInv ==
  /\ pc \in {"config", "open"} => noted = {}
  /\ pc \in {"data", "lines"} => noted = suppressed \cup (everywhere \X {0})

TallyInv ==
  /\ error_count = 1 <=> blamed # {}
  /\ exit # None => pc = "exited"
  /\ ExitTells

IInv == TypeOK /\ StationInv /\ WalkInv /\ AppliedInv /\ NoteInv /\ TallyInv /\ VerdictIsOwn

-----------------------------------------------------------------------------
\* What a CPPLINT.cfg holds.
LEMMA ConfigHolds ==
  ASSUME TypeOK, NEW l \in Levels, cfg[l].kind = "options"
  PROVE  cfg[l].filters \in Seq(FilterLines)
<1>1. cfg[l] \in Configs
  BY DEF TypeOK
<1> QED BY <1>1, SessionAssumption

LEMMA TypeInit == Init => TypeOK
<1> SUFFICES ASSUME Init PROVE TypeOK
  OBVIOUS
<1>1. /\ filters \in Seq(Filters) /\ backup \in Seq(Filters)
      /\ last.cat \in Categories \cup {None} /\ last.line \in 0..MaxLines
      /\ last.sure \in BOOLEAN /\ last.counted \in BOOLEAN
  BY SessionAssumption DEF Init, NoError
<1>2. file \in 1..NFiles + 1 /\ at \in 1..Depth + 1 /\ line \in 0..MaxLines
  BY SessionAssumption DEF Init
<1>3. error_count \in {0, 1} /\ exit \in {None, 0, 1}
  BY SessionAssumption DEF Init
<1>4. found \in Seq(FilterLines) /\ todo \in 0..Len(found)
  BY DEF Init
<1> QED BY <1>1, <1>2, <1>3, <1>4 DEF Init, TypeOK

LEMMA TypeStep == TypeOK /\ StationInv /\ [Next]_vars => TypeOK'
<1> SUFFICES ASSUME TypeOK, StationInv, [Next]_vars PROVE TypeOK'
  OBVIOUS
<1>n. NoError.cat = None /\ NoError.line = 0 /\ NoError.sure \in BOOLEAN /\ NoError.counted \in BOOLEAN
  BY DEF NoError
<1>m. /\ NFiles \in Nat /\ Depth \in Nat /\ MaxLines \in Nat /\ Depth # 0
      /\ 0 \in 0..MaxLines /\ Levels = 1..Depth
  BY SessionAssumption DEF Levels
<1> USE DEF Goes, world, filtering, nolint, history, place, walk
<1>1. CASE BeginFile
  <2>1. at' \in 1..Depth + 1 /\ file \in 1..NFiles
    BY <1>1, <1>m DEF BeginFile, TypeOK
  <2>2. found' \in Seq(FilterLines) /\ todo' \in 0..Len(found')
    BY <1>1 DEF BeginFile
  <2> QED BY <1>1, <2>1, <2>2, <1>m DEF BeginFile, TypeOK
<1>2. ASSUME NEW from, Skip(from), file \in 1..NFiles
      PROVE  /\ filters' \in Seq(Filters) /\ backup' \in Seq(Filters) /\ file' \in 1..NFiles + 1
             /\ pc' \in {"next", "config", "open", "data", "lines", "exited"}
             /\ last'.cat \in Categories \cup {None} /\ last'.line \in 0..MaxLines
             /\ last'.sure \in BOOLEAN /\ last'.counted \in BOOLEAN
  BY <1>2, <1>n, <1>m DEF Skip, Restore, TypeOK
<1>3. CASE ReadConfig
  <2>1. cfg[at].filters \in Seq(FilterLines)
    BY <1>3, ConfigHolds DEF ReadConfig, Here
  <2>2. found' \in Seq(FilterLines)
    BY <1>3, <2>1 DEF ReadConfig, Here, TypeOK
  <2>3. at' \in 1..Depth + 1
    BY <1>3, <1>m DEF ReadConfig
  <2>4. todo' \in 0..Len(found')
    BY <1>3, <2>2 DEF ReadConfig
  <2> QED BY <1>3, <2>2, <2>3, <2>4 DEF ReadConfig, TypeOK
<1>4. CASE ExcludeFile
  <2>1. file \in 1..NFiles /\ Skip("config")
    BY <1>4 DEF ExcludeFile, Skip, StationInv
  <2> QED BY <1>4, <2>1, <1>2 DEF ExcludeFile, TypeOK
<1>5. CASE NoConfig
  <2>1. at' \in 1..Depth + 1
    BY <1>5, <1>m DEF NoConfig
  <2> QED BY <1>5, <2>1 DEF NoConfig, TypeOK
<1>6. CASE AddFilters \/ BadFilter
  <2>1. todo \in 1..Len(found) /\ found \in Seq(FilterLines) /\ filters \in Seq(Filters)
    BY <1>6 DEF AddFilters, BadFilter, TypeOK
  <2>2. filters' \in Seq(Filters)
    <3>1. LineToAdd \in Seq(Filters)
      BY <2>1 DEF LineToAdd, FilterLines
    <3>2. filters' = filters \o LineToAdd
      BY <1>6 DEF AddFilters, BadFilter
    <3> QED BY <2>1, <3>1, <3>2
  <2>3. found' = found /\ todo' \in 0..Len(found)
    BY <1>6 DEF AddFilters, BadFilter, TypeOK
  <2> QED BY <1>6, <2>2, <2>3 DEF AddFilters, BadFilter, TypeOK
<1>7. CASE BadConfig \/ Configured
  BY <1>7 DEF BadConfig, Configured, TypeOK
<1>8. CASE IgnoreFile
  <2>1. file \in 1..NFiles /\ Skip("open")
    BY <1>8 DEF IgnoreFile, Skip, StationInv
  <2> QED BY <1>8, <2>1, <1>2 DEF IgnoreFile, TypeOK
<1>9. CASE BeginData
  BY <1>9 DEF BeginData, Reset, TypeOK
<1>10. CASE Globally
  <2>1. PICK cs \in Markers : everywhere' = everywhere \cup cs /\ noted' = noted \cup (cs \X {0})
    BY <1>10 DEF Globally
  <2>2. cs \subseteq Categories /\ 0 \in 0..MaxLines + 1
    BY <1>m, SessionAssumption
  <2>3. everywhere' \subseteq Categories /\ noted' \subseteq (Categories \cup {None}) \X (0..MaxLines + 1)
    BY <2>1, <2>2 DEF TypeOK
  <2> QED BY <1>10, <2>3, <1>n, <1>m DEF Globally, TypeOK
<1>11. CASE NextLine
  <2>1. line' \in 0..MaxLines
    BY <1>11, <1>m DEF NextLine, TypeOK
  <2>2. \A next \in {0, 1} : line + 1 + next \in 1..MaxLines + 1 /\ line + 1 + next \in 0..MaxLines + 1
    BY <1>11, <1>m DEF NextLine, TypeOK
  <2>3. /\ suppressed' \subseteq (Categories \cup {None}) \X (1..MaxLines + 1)
        /\ noted' \subseteq (Categories \cup {None}) \X (0..MaxLines + 1)
    BY <1>11, <2>2 DEF NextLine, SuppressedLine, TypeOK
  <2> QED BY <1>11, <2>1, <2>3, <1>n, <1>m DEF NextLine, TypeOK
<1>12. CASE Error
  <2>1. file \in 1..NFiles
    BY <1>12 DEF Error, StationInv
  <2>2. PICK c \in Categories, sure \in BOOLEAN, l \in 0..MaxLines :
          /\ error_count' = Tally(ShouldPrintError(c, sure, l))
          /\ last' = [cat |-> c, line |-> l, sure |-> sure, counted |-> ShouldPrintError(c, sure, l)]
          /\ blamed' = IF ShouldPrintError(c, sure, l) THEN blamed \cup {file} ELSE blamed
    BY <1>12 DEF Error
  <2>3. ShouldPrintError(c, sure, l) \in BOOLEAN
    BY DEF ShouldPrintError
  <2>4. error_count' \in {0, 1} /\ blamed' \subseteq 1..NFiles
    BY <2>1, <2>2 DEF Tally, TypeOK
  <2>5. /\ last'.cat \in Categories \cup {None} /\ last'.line \in 0..MaxLines
        /\ last'.sure \in BOOLEAN /\ last'.counted \in BOOLEAN
    BY <2>2, <2>3
  <2> QED BY <1>12, <2>4, <2>5 DEF Error, TypeOK
<1>13. CASE EndFile
  <2>1. file \in 1..NFiles /\ Skip("lines")
    BY <1>13 DEF EndFile, Skip, StationInv
  <2> QED BY <1>13, <2>1, <1>2 DEF EndFile, TypeOK
<1>14. CASE Exit
  BY <1>14 DEF Exit, TypeOK
<1>15. CASE UNCHANGED vars
  BY <1>15 DEF vars, TypeOK
<1> QED
  BY <1>1, <1>3, <1>4, <1>5, <1>6, <1>7, <1>8, <1>9, <1>10, <1>11, <1>12, <1>13, <1>14, <1>15 DEF Next

-----------------------------------------------------------------------------
LEMMA StationStep == TypeOK /\ StationInv /\ [Next]_vars => StationInv'
<1> SUFFICES ASSUME TypeOK, StationInv, [Next]_vars PROVE StationInv'
  OBVIOUS
<1> USE DEF StationInv, Goes, world, filtering, history, place, walk
<1>1. CASE BeginFile
  <2>1. file \in 1..NFiles
    BY <1>1, SessionAssumption DEF BeginFile, TypeOK
  <2>2. todo' = Len(found')
    BY <1>1 DEF BeginFile
  <2> QED BY <1>1, <2>1, <2>2 DEF BeginFile
<1>2. CASE ReadConfig \/ NoConfig
  BY <1>2 DEF ReadConfig, NoConfig
<1>3. CASE ExcludeFile \/ IgnoreFile \/ EndFile
  BY <1>3 DEF ExcludeFile, IgnoreFile, EndFile, Skip, Restore
<1>4. CASE AddFilters \/ Configured
  BY <1>4 DEF AddFilters, Configured, Applying
<1>5. CASE BadConfig \/ BadFilter \/ Exit
  BY <1>5 DEF BadConfig, BadFilter, Applying, Exit
<1>6. CASE BeginData \/ Globally \/ NextLine \/ Error
  BY <1>6 DEF BeginData, Globally, NextLine, Error
<1>7. CASE UNCHANGED vars
  BY <1>7 DEF vars
<1> QED BY <1>1, <1>2, <1>3, <1>4, <1>5, <1>6, <1>7 DEF Next

LEMMA NoteStep == NoteInv /\ [Next]_vars => NoteInv'
<1> SUFFICES ASSUME NoteInv, [Next]_vars PROVE NoteInv'
  OBVIOUS
<1> USE DEF NoteInv, Goes, nolint, history, place, walk
<1>1. CASE BeginFile
  BY <1>1 DEF BeginFile
<1>2. CASE ReadConfig \/ NoConfig \/ AddFilters \/ Configured
  BY <1>2 DEF ReadConfig, NoConfig, AddFilters, Configured, Applying
<1>3. CASE ExcludeFile \/ IgnoreFile \/ EndFile \/ BadConfig \/ BadFilter \/ Exit
  BY <1>3 DEF ExcludeFile, IgnoreFile, EndFile, Skip, BadConfig, BadFilter, Exit
<1>4. CASE BeginData
  BY <1>4 DEF BeginData, Reset
<1>5. CASE Globally
  <2>1. PICK cs : everywhere' = everywhere \cup cs /\ noted' = noted \cup (cs \X {0})
    BY <1>5 DEF Globally
  <2> QED BY <1>5, <2>1 DEF Globally
<1>6. CASE NextLine
  BY <1>6 DEF NextLine, SuppressedLine
<1>7. CASE Error
  BY <1>7 DEF Error
<1>8. CASE UNCHANGED vars
  BY <1>8 DEF vars
<1> QED BY <1>1, <1>2, <1>3, <1>4, <1>5, <1>6, <1>7, <1>8 DEF Next

LEMMA TallyStep == TypeOK /\ StationInv /\ TallyInv /\ [Next]_vars => TallyInv'
<1> SUFFICES ASSUME TypeOK, StationInv, TallyInv, [Next]_vars PROVE TallyInv'
  OBVIOUS
<1>e. None \notin {0, 1} /\ NFiles \in Nat
  BY SessionAssumption
<1> USE DEF TallyInv, ExitTells, Goes, history, place, walk
<1>1. CASE BeginFile \/ ReadConfig \/ NoConfig \/ AddFilters \/ Configured \/ BeginData \/ Globally
          \/ NextLine
  BY <1>1 DEF BeginFile, ReadConfig, NoConfig, AddFilters, Configured, Applying, BeginData, Globally, NextLine
<1>2. CASE ExcludeFile \/ IgnoreFile \/ EndFile
  BY <1>2 DEF ExcludeFile, IgnoreFile, EndFile, Skip
<1>3. CASE BadConfig \/ BadFilter
  <2>1. file <= NFiles
    BY <1>3, <1>e DEF BadConfig, BadFilter, Applying, StationInv
  <2> QED BY <1>3, <2>1, <1>e DEF BadConfig, BadFilter
<1>4. CASE Exit
  <2>1. ~(file <= NFiles) /\ exit' = error_count /\ error_count \in {0, 1}
        /\ UNCHANGED <<error_count, file, blamed>>
    BY <1>4, <1>e DEF Exit, TypeOK
  <2> QED BY <1>4, <2>1, <1>e DEF Exit
<1>5. CASE Error
  BY <1>5 DEF Error, Tally
<1>6. CASE UNCHANGED vars
  BY <1>6 DEF vars
<1> QED BY <1>1, <1>2, <1>3, <1>4, <1>5, <1>6 DEF Next

-----------------------------------------------------------------------------
(* The way up.                                                              *)

walked == <<level, cfg, file, at, found>>

\* Who is heeded depends on the world and the file alone.
LEMMA HeededStay ==
  ASSUME UNCHANGED <<level, cfg, file>>
  PROVE  Heeded' = Heeded /\ Saying' = Saying
  BY DEF Heeded, Saying, Stops

\* A level that is read joins the ones passed, as the last of them, and what is
\* heeded behind it is the level above, or nothing.
LEMMA OneMorePassed ==
  ASSUME level[file] \in Levels, at \in Heeded, UNCHANGED <<level, cfg, file>>,
         at' = IF Stops(at) THEN Depth + 1 ELSE at + 1
  PROVE  /\ Passed' = IF cfg[at].kind = "options" THEN Passed \cup {at} ELSE Passed
         /\ \A k \in Passed : k < at
         /\ at' \in Levels => at' \in Heeded
         /\ \A l \in Passed : l \in Levels
<1>1. /\ Depth \in Nat /\ at \in 1..Depth /\ level[file] <= at /\ at <= Depth
      /\ \A k \in level[file]..(at - 1) : ~Stops(k)
      /\ level[file] \in 1..Depth
  <2>1. at \in level[file]..Depth
    BY DEF Heeded
  <2> QED BY <2>1, SessionAssumption DEF Heeded, Levels
<1>2. \A l \in Saying : l \in Int /\ level[file] <= l /\ l <= Depth /\ \A k \in level[file]..(l - 1) : ~Stops(k)
  BY <1>1 DEF Saying, Heeded
<1>3. \A l \in Saying : l < at' <=> l < at \/ l = at
  <2>1. CASE Stops(at)
    <3>1. ASSUME NEW l \in Saying, l > at PROVE FALSE
      <4>1. at \in level[file]..(l - 1)
        BY <3>1, <1>1, <1>2
      <4> QED BY <4>1, <2>1, <3>1, <1>2
    <3> QED BY <2>1, <3>1, <1>1, <1>2
  <2>2. CASE ~Stops(at)
    BY <2>2, <1>1, <1>2
  <2> QED BY <2>1, <2>2
<1>4. at \in Saying <=> cfg[at].kind = "options"
  BY DEF Saying
<1>5. Saying' = Saying
  BY HeededStay
<1>6. Passed' = {l \in Saying : l < at'}
  BY <1>5 DEF Passed
<1>7. Passed' = IF cfg[at].kind = "options" THEN Passed \cup {at} ELSE Passed
  BY <1>3, <1>4, <1>6 DEF Passed
<1>8. at' \in Levels => at' \in Heeded
  <2>1. ASSUME at' \in Levels PROVE at' = at + 1 /\ ~Stops(at) /\ at + 1 \in level[file]..Depth
    BY <2>1, <1>1 DEF Levels
  <2>2. \A k \in level[file]..(at + 1 - 1) : k \in level[file]..(at - 1) \/ k = at
    BY <1>1
  <2> QED BY <2>1, <2>2, <1>1 DEF Heeded
<1>9. \A k \in Passed : k < at /\ k \in 1..Depth
  BY <1>1, <1>2 DEF Passed
<1> QED BY <1>7, <1>8, <1>9 DEF Levels

LEMMA WalkStep == TypeOK /\ StationInv /\ WalkInv /\ [Next]_vars => WalkInv'
<1> SUFFICES ASSUME TypeOK, StationInv, WalkInv, [Next]_vars PROVE WalkInv'
  OBVIOUS
<1>d. Depth \in Nat /\ Depth # 0 /\ Levels = 1..Depth
  BY SessionAssumption DEF Levels
<1>1. CASE BeginFile
  <2>1. /\ at' = level[file] /\ found' = <<>>
        /\ UNCHANGED <<level, cfg, file>> /\ file \in 1..NFiles
    BY <1>1, SessionAssumption DEF BeginFile, world, TypeOK
  <2>2. level[file] \in Levels
    BY <2>1 DEF TypeOK
  <2>3. Heeded' = Heeded /\ Saying' = Saying
    BY <2>1, HeededStay
  <2>4. level[file] \in Heeded
    BY <2>2, <1>d DEF Heeded
  <2>5. Passed' = {}
    <3>1. Passed' = {l \in Saying : l < level[file]}
      BY <2>1, <2>3 DEF Passed
    <3> QED BY <3>1, <2>2, <1>d DEF Saying, Heeded
  <2>6. \A c : ~Mention(<<>>, c) /\ ~FirstSays(<<>>, c, "-")
    BY DEF Mention, FirstSays
  <2> QED BY <1>1, <2>1, <2>2, <2>3, <2>4, <2>5, <2>6, <1>d DEF WalkInv, BeginFile, Goes
<1>2. CASE ReadConfig \/ NoConfig
  <2>1. /\ pc = "config" /\ pc' = "config" /\ at \in Levels /\ at \in Heeded
        /\ UNCHANGED <<level, cfg, file>>
    BY <1>2 DEF ReadConfig, NoConfig, Goes, WalkInv, world, history
  <2>2. at' = IF Stops(at) THEN Depth + 1 ELSE at + 1
    <3>1. cfg[at].kind \in {"absent", "unreadable", "options"}
      BY <1>2 DEF ReadConfig, NoConfig, Here
    <3> QED BY <1>2, <3>1 DEF ReadConfig, NoConfig, Here, Stops
  <2>3. /\ Passed' = IF cfg[at].kind = "options" THEN Passed \cup {at} ELSE Passed
        /\ \A k \in Passed : k < at
        /\ at' \in Levels => at' \in Heeded
        /\ \A l \in Passed : l \in Levels
    <3>1. level[file] \in Levels
      BY <2>1 DEF StationInv, TypeOK
    <3> QED BY <2>1, <2>2, <3>1, OneMorePassed
  <2>4. Heeded' = Heeded /\ level[file] <= at' /\ at \in Int
    <3>1. level[file] <= at /\ level[file] \in Levels
      BY <2>1 DEF WalkInv, StationInv, TypeOK
    <3> QED BY <3>1, <2>1, <2>2, HeededStay, <1>d
  <2>5. CASE NoConfig
    <3>1. Passed' = Passed /\ UNCHANGED found
      BY <2>5, <2>3 DEF NoConfig, Here
    <3> QED BY <2>1, <2>3, <2>4, <3>1 DEF WalkInv
  <2>6. CASE ReadConfig
    <3> DEFINE g == cfg[at]
    <3>1. Passed' = Passed \cup {at} /\ found' = found \o g.filters
      BY <2>6, <2>3 DEF ReadConfig, Here
    <3>2. g.filters \in Seq(FilterLines) /\ found \in Seq(FilterLines)
      BY <2>1, <2>6, ConfigHolds DEF ReadConfig, Here, TypeOK
    <3>3. ASSUME NEW c \in Categories
          PROVE  Mention(found', c) <=> \E l \in Passed' : Mention(cfg[l].filters, c)
      <4>1. Mention(found', c) <=> Mention(found, c) \/ Mention(g.filters, c)
        BY <3>1, <3>2, MentionJoined
      <4>2. Mention(found, c) <=> \E l \in Passed : Mention(cfg[l].filters, c)
        BY <2>1 DEF WalkInv
      <4> QED BY <3>1, <4>1, <4>2
    <3>4. ASSUME NEW c \in Categories
          PROVE  FirstSays(found', c, "-") <=>
                   \E l \in Passed' : /\ FirstSays(cfg[l].filters, c, "-")
                                    /\ \A k \in Passed' : k < l => ~Mention(cfg[k].filters, c)
      <4>1. FirstSays(found', c, "-") <=>
              FirstSays(found, c, "-") \/ (~Mention(found, c) /\ FirstSays(g.filters, c, "-"))
        BY <3>1, <3>2, FirstJoined
      <4>2. Mention(found, c) <=> \E l \in Passed : Mention(cfg[l].filters, c)
        BY <2>1 DEF WalkInv
      <4>3. FirstSays(found, c, "-") <=>
              \E l \in Passed : /\ FirstSays(cfg[l].filters, c, "-")
                               /\ \A k \in Passed : k < l => ~Mention(cfg[k].filters, c)
        BY <2>1 DEF WalkInv
      <4>4. \A l \in Passed : l \in Int /\ ~(at < l) /\ l < at
        BY <2>3, <2>4, <1>d
      <4>5. ~(at < at)
        BY <2>4
      <4> QED BY <3>1, <4>1, <4>2, <4>3, <4>4, <4>5
    <3> QED BY <2>1, <2>3, <2>4, <3>3, <3>4 DEF WalkInv
  <2> QED BY <1>2, <2>5, <2>6
<1>3. CASE ExcludeFile \/ IgnoreFile \/ EndFile \/ BadConfig \/ BadFilter \/ Exit
  BY <1>3 DEF ExcludeFile, IgnoreFile, EndFile, Skip, BadConfig, BadFilter, Exit, Goes, WalkInv
<1>4. CASE AddFilters \/ Configured \/ BeginData \/ Globally \/ NextLine \/ Error \/ UNCHANGED vars
  <2>1. /\ UNCHANGED walked
        /\ pc' \in {"config", "open", "data", "lines"} => pc \in {"config", "open", "data", "lines"}
    BY <1>4 DEF AddFilters, Configured, Applying, BeginData, Globally, NextLine, Error, Goes, vars,
                walked, world, place, walk, history
  <2>2. Heeded' = Heeded /\ Passed' = Passed
    BY <2>1, HeededStay DEF walked, Passed
  <2> QED BY <2>1, <2>2 DEF WalkInv, walked
<1> QED BY <1>1, <1>2, <1>3, <1>4 DEF Next

\* Before the first line is applied nothing was told.
LEMMA NothingTold ==
  ASSUME NEW lines \in Seq(FilterLines), NEW c, NEW s
  PROVE  ~Told(lines, Len(lines), c, s) /\ Silent(lines, Len(lines), c)
<1>1. Len(lines) \in Nat /\ \A i : i \notin (Len(lines) + 1)..Len(lines)
  OBVIOUS
<1> QED BY <1>1 DEF Told, Silent

LEMMA AppliedStep == TypeOK /\ TypeOK' /\ StationInv /\ AppliedInv /\ [Next]_vars => AppliedInv'
<1> SUFFICES ASSUME TypeOK, TypeOK', StationInv, AppliedInv, [Next]_vars PROVE AppliedInv'
  OBVIOUS
<1>e. ASSUME filters' = cmd', todo' = Len(found') PROVE AppliedInv'
  <2>1. found' \in Seq(FilterLines)
    BY DEF TypeOK
  <2>2. \A c : ~Told(found', todo', c, "-") /\ Silent(found', todo', c)
    BY <2>1, <1>e, NothingTold
  <2> QED BY <1>e, <2>2 DEF AppliedInv
<1>1. CASE BeginFile
  <2>1. filters' = cmd' /\ todo' = Len(found')
    BY <1>1 DEF BeginFile, Goes, StationInv, world
  <2> QED BY <2>1, <1>e
<1>2. CASE ReadConfig \/ NoConfig
  <2>1. filters' = cmd' /\ todo' = Len(found')
    BY <1>2 DEF ReadConfig, NoConfig, Goes, StationInv, world, filtering
  <2> QED BY <2>1, <1>e
<1>3. CASE AddFilters
  <2>1. /\ pc = "config" /\ filters' = filters \o found[todo] /\ todo' = todo - 1
        /\ UNCHANGED <<found, cmd>>
    BY <1>3 DEF AddFilters, Applying, LineToAdd, world
  <2>2. found \in Seq(FilterLines) /\ todo \in 1..Len(found) /\ filters \in Seq(Filters)
    BY <1>3 DEF AddFilters, TypeOK
  <2>3. found[todo] \in Seq(Filters)
    BY <2>2 DEF FilterLines
  <2>4. ASSUME NEW c \in Categories
        PROVE  LastSays(filters', c, "-") <=>
                 Told(found, todo - 1, c, "-") \/ (Silent(found, todo - 1, c) /\ LastSays(cmd, c, "-"))
    <3>1. LastSays(filters', c, "-") <=>
            LastSays(found[todo], c, "-") \/ (~About(found[todo], c) /\ LastSays(filters, c, "-"))
      BY <2>1, <2>2, <2>3, LastJoined
    <3>2. LastSays(filters, c, "-") <=>
            Told(found, todo, c, "-") \/ (Silent(found, todo, c) /\ LastSays(cmd, c, "-"))
      BY <2>1 DEF AppliedInv
    <3> QED BY <3>1, <3>2, <2>2, OneMoreTold
  <2> QED BY <2>1, <2>4 DEF AppliedInv
<1>4. CASE ExcludeFile \/ IgnoreFile \/ EndFile \/ BadConfig \/ BadFilter \/ Exit
  BY <1>4 DEF ExcludeFile, IgnoreFile, EndFile, Skip, BadConfig, BadFilter, Exit, Goes, AppliedInv
<1>5. CASE Configured \/ BeginData \/ Globally \/ NextLine \/ Error \/ UNCHANGED vars
  <2>1. /\ UNCHANGED <<filters, found, todo, cmd>>
        /\ pc' \in {"config", "open", "data", "lines"} => pc \in {"config", "open", "data", "lines"}
    BY <1>5 DEF Configured, Applying, BeginData, Globally, NextLine, Error, Goes, vars, filtering,
                world, place, walk, history
  <2> QED BY <2>1 DEF AppliedInv
<1> QED BY <1>1, <1>2, <1>3, <1>4, <1>5 DEF Next

-----------------------------------------------------------------------------
(* The verdict.                                                             *)

\* Behind the walk the last filter about a category speaks for the nearest
\* configuration that mentions it.
LEMMA FilterVerdict ==
  ASSUME TypeOK, StationInv, WalkInv, AppliedInv, pc \in {"data", "lines"}, NEW c \in Categories
  PROVE  IsFiltered(c) <=> FilteredOut(c)
<1>1. Passed = Saying
  <2>1. Depth \in Nat /\ at \in 1..Depth + 1 /\ at \notin 1..Depth /\ level[file] \in 1..Depth
    BY SessionAssumption DEF TypeOK, WalkInv, StationInv, Levels
  <2>2. at = Depth + 1
    BY <2>1
  <2> QED BY <2>1, <2>2 DEF Passed, Saying, Heeded
<1>2. todo = 0 /\ found \in Seq(FilterLines) /\ DOMAIN found = 1..Len(found)
  BY DEF StationInv, TypeOK
<1>3. Told(found, 0, c, "-") <=> FirstSays(found, c, "-")
  BY <1>2 DEF Told, FirstSays
<1>4. LastSays(filters, c, "-") <=>
        FirstSays(found, c, "-") \/ (~Mention(found, c) /\ LastSays(cmd, c, "-"))
  <2>1. Silent(found, 0, c) <=> ~Mention(found, c)
    BY <1>2 DEF Silent, Mention
  <2> QED BY <2>1, <1>2, <1>3 DEF AppliedInv
<1>5. IsFiltered(c) <=> LastSays(filters, c, "-")
  <2>1. /\ filters \in Seq(Filters) /\ DOMAIN filters = 1..Len(filters) /\ Len(filters) \in Nat
        /\ \A i \in 1..Len(filters) : filters[i] \in Filters
    BY DEF TypeOK
  <2>2. \A i \in 1..Len(filters) :
          filters[i] = [sign |-> "-", cat |-> c] <=> filters[i].sign = "-" /\ filters[i].cat = c
    BY <2>1 DEF Filters
  <2>3. ASSUME IsFiltered(c) PROVE LastSays(filters, c, "-")
    <3>1. PICK i \in 1..Len(filters) :
            /\ filters[i].cat = c /\ filters[i].sign = "-"
            /\ \A j \in 1..Len(filters) : filters[j].cat = c => j <= i
      BY <2>1, <2>3 DEF IsFiltered
    <3>2. \A j \in (i + 1)..Len(filters) : j \in 1..Len(filters) /\ ~(j <= i)
      BY <2>1
    <3> QED BY <3>1, <3>2, <2>1, <2>2 DEF LastSays
  <2>4. ASSUME LastSays(filters, c, "-") PROVE IsFiltered(c)
    <3>1. PICK i \in 1..Len(filters) :
            /\ filters[i].cat = c /\ filters[i].sign = "-"
            /\ \A j \in (i + 1)..Len(filters) : filters[j].cat # c
      BY <2>1, <2>2, <2>4 DEF LastSays
    <3>2. \A j \in 1..Len(filters) : j <= i \/ j \in (i + 1)..Len(filters)
      BY <2>1
    <3> QED BY <3>1, <3>2, <2>1 DEF IsFiltered
  <2> QED BY <2>3, <2>4
<1>6. /\ Mention(found, c) <=> \E l \in Saying : Mention(cfg[l].filters, c)
      /\ FirstSays(found, c, "-") <=>
           \E l \in Saying : /\ FirstSays(cfg[l].filters, c, "-")
                            /\ \A k \in Saying : k < l => ~Mention(cfg[k].filters, c)
  BY <1>1 DEF WalkInv
<1> QED BY <1>4, <1>5, <1>6 DEF FilteredOut

LEMMA NoteVerdict ==
  ASSUME TypeOK, NoteInv, pc \in {"data", "lines"}, NEW c \in Categories, NEW l \in 0..MaxLines
  PROVE  IsErrorSuppressedByNolint(c, l) <=>
           noted \cap {<<c, l>>, <<None, l>>, <<c, 0>>} # {}
<1>1. noted = suppressed \cup (everywhere \X {0})
  BY DEF NoteInv
<1>2. None \notin everywhere
  BY SessionAssumption DEF TypeOK
<1>3. <<c, 0>> \notin suppressed
  BY DEF TypeOK
<1>4. <<c, l>> \in noted <=> <<c, l>> \in suppressed \/ (c \in everywhere /\ l = 0)
  BY <1>1
<1>5. <<None, l>> \in noted <=> <<None, l>> \in suppressed
  BY <1>1, <1>2
<1>6. <<c, 0>> \in noted <=> c \in everywhere
  BY <1>1, <1>3
<1> QED BY <1>4, <1>5, <1>6 DEF IsErrorSuppressedByNolint

LEMMA VerdictStep ==
  TypeOK /\ StationInv /\ WalkInv /\ AppliedInv /\ NoteInv /\ VerdictIsOwn /\ [Next]_vars
    => VerdictIsOwn'
<1> SUFFICES ASSUME TypeOK, StationInv, WalkInv, AppliedInv, NoteInv, VerdictIsOwn, [Next]_vars
             PROVE  VerdictIsOwn'
  OBVIOUS
<1>n. ASSUME last' = NoError PROVE VerdictIsOwn'
  BY <1>n DEF VerdictIsOwn, NoError
<1>1. CASE Error
  <2>1. PICK c \in Categories, sure \in BOOLEAN, l \in 0..MaxLines :
          last' = [cat |-> c, line |-> l, sure |-> sure, counted |-> ShouldPrintError(c, sure, l)]
    BY <1>1 DEF Error
  <2>2. UNCHANGED <<noted, level, cfg, cmd, file>> /\ pc \in {"data", "lines"}
    BY <1>1 DEF Error, world, place
  <2>3. FilteredOut(c)' <=> FilteredOut(c)
    BY <2>2, HeededStay DEF FilteredOut
  <2>4. ShouldPrintError(c, sure, l) <=>
          sure /\ noted \cap {<<c, l>>, <<None, l>>, <<c, 0>>} = {} /\ ~FilteredOut(c)
    BY <2>2, FilterVerdict, NoteVerdict DEF ShouldPrintError
  <2>5. last'.cat = c /\ last'.line = l /\ last'.sure = sure /\ last'.counted = ShouldPrintError(c, sure, l)
    BY <2>1
  <2>6. FilteredOut(last.cat)' <=> FilteredOut(c)
    BY <2>3, <2>5 DEF FilteredOut
  <2>7. Excused(last)' <=> noted \cap {<<c, l>>, <<None, l>>, <<c, 0>>} # {}
    BY <2>2, <2>5 DEF Excused
  <2> QED BY <2>4, <2>5, <2>6, <2>7 DEF VerdictIsOwn
<1>2. CASE BeginFile \/ ReadConfig \/ NoConfig \/ BadConfig \/ AddFilters \/ BadFilter \/ Configured
          \/ BeginData \/ Exit
  <2>1. last = NoError /\ last' = last
    BY <1>2 DEF BeginFile, ReadConfig, NoConfig, BadConfig, AddFilters, BadFilter, Configured, Applying,
                BeginData, Exit, Goes, StationInv, history
  <2> QED BY <2>1, <1>n
<1>3. CASE ExcludeFile \/ IgnoreFile \/ EndFile \/ Globally \/ NextLine
  <2>1. last' = NoError
    BY <1>3 DEF ExcludeFile, IgnoreFile, EndFile, Skip, Globally, NextLine
  <2> QED BY <2>1, <1>n
<1>4. CASE UNCHANGED vars
  <2>1. UNCHANGED <<last, noted, level, cfg, cmd, file>>
    BY <1>4 DEF vars, history, world, place
  <2>2. Saying' = Saying
    BY <2>1, HeededStay
  <2>3. FilteredOut(last.cat)' <=> FilteredOut(last.cat)
    BY <2>1, <2>2 DEF FilteredOut
  <2>4. Excused(last)' <=> Excused(last)
    BY <2>1 DEF Excused
  <2> QED BY <2>1, <2>3, <2>4 DEF VerdictIsOwn
<1> QED BY <1>1, <1>2, <1>3, <1>4 DEF Next

LEMMA IInvInit == Init => IInv
<1> SUFFICES ASSUME Init PROVE IInv
  OBVIOUS
<1>1. StationInv /\ WalkInv /\ AppliedInv /\ NoteInv /\ VerdictIsOwn
  BY DEF Init, StationInv, WalkInv, AppliedInv, NoteInv, VerdictIsOwn, NoError
<1>2. TallyInv
  BY SessionAssumption DEF Init, TallyInv, ExitTells
<1> QED BY <1>1, <1>2, TypeInit DEF IInv

THEOREM Invariant == Spec => []IInv
<1>1. IInv /\ [Next]_vars => IInv'
  BY TypeStep, StationStep, WalkStep, AppliedStep, NoteStep, TallyStep, VerdictStep DEF IInv
<1> QED BY IInvInit, <1>1, PTL DEF Spec

-----------------------------------------------------------------------------
\* Every variable has its type.
THEOREM TypeCorrect == Spec => []TypeOK
<1>1. IInv => TypeOK
  BY DEF IInv
<1> QED BY <1>1, Invariant, PTL

\* Each file starts with the filters of the command line, whichever of the three
\* returns of ProcessFile the one before it took (cpplint.py:6332-6407).
THEOREM FiltersComeBack == Spec => []FiltersAreRestored
<1>1. IInv => FiltersAreRestored
  BY DEF IInv, StationInv, FiltersAreRestored
<1> QED BY <1>1, Invariant, PTL

\* Whether an error counts is decided by the nearest configuration that mentions
\* its category, by the comments of its own file and by the verbosity, for any
\* configurations and any files before it (cpplint.py:1410-1461 and 6241-6315).
THEOREM VerdictsAreOwn == Spec => []VerdictIsOwn
<1>1. IInv => VerdictIsOwn
  BY DEF IInv
<1> QED BY <1>1, Invariant, PTL

\* Exit code 0 means that every file was gone through and none had an error that
\* counted; 1 means that one had, or that an exception cut the process short: a
\* CPPLINT.cfg that is not UTF-8 or holds a pattern that is none, or a filter
\* without a sign (cpplint.py:1092-1100, 1076, 6256, 6276 and 6599).
THEOREM ExitIsVerdict == Spec => []ExitTells
<1>1. IInv => ExitTells
  BY DEF IInv, TallyInv
<1> QED BY <1>1, Invariant, PTL
=============================================================================
