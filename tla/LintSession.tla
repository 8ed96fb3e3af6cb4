------------------------------ MODULE LintSession ------------------------------
(***************************************************************************)
(* One cpplint process, as `make cpplint` starts it through xargs: it lints *)
(* its files one after the other (main, ProcessFile), and what decides on   *)
(* the errors of a file, the message filters and the NOLINT suppressions,   *)
(* is global to the module: ProcessConfigOverrides changes it on the way up *)
(* from a file to the root, and ProcessFile must leave it for the next file  *)
(* as it was.                                                              *)
(*                                                                         *)
(* Directories are the levels above a file, its own first.  A filter either *)
(* decides on a category or not; a filter line holds any number of them.    *)
(* What the checks find is chosen freely, so what only they look at is left *)
(* out, the line length first of all, and so are --extensions, --headers and *)
(* --root, and how an error is printed.                                    *)
(***************************************************************************)
EXTENDS Integers, Sequences

CONSTANTS
  NFiles,      \* the files of the process
  Depth,       \* the levels a CPPLINT.cfg may be on; the root is Depth
  Categories,  \* of errors
  Configs,     \* what a CPPLINT.cfg may say
  CmdFilters,  \* what --filter may say, with the default filters
  Markers,     \* what a marker like LINT_C_FILE may suppress: sets of categories
  MaxLines,    \* bound: the lines of a file
  None

\* A filter's sign is "+", "-" or "none", which AddFilters refuses.
Filters == [sign : {"+", "-", "none"}, cat : Categories]
FilterLines == Seq(Filters)

\* A CPPLINT.cfg is not there, cannot be opened, is not UTF-8, or holds options:
\* filter lines, and at most one exclude_files, whose pattern is a regular expression
\* or is not.
ASSUME SessionAssumption ==
  /\ NFiles \in Nat /\ Depth \in Nat \ {0} /\ MaxLines \in Nat
  /\ None \notin Int \cup Categories
  /\ Markers \subseteq SUBSET Categories
  /\ CmdFilters \subseteq Seq(Filters)
  /\ \A fs \in CmdFilters : \A i \in DOMAIN fs : fs[i].sign # "none"   \* or main has ended
  /\ \A g \in Configs :
       /\ g.kind \in {"absent", "unreadable", "garbled", "options"} /\ g.noparent \in BOOLEAN
       /\ g.kind = "options" =>
            /\ g.filters \in Seq(FilterLines)
            /\ g.pattern \in {"none", "valid", "invalid"}

Levels == 1..Depth

VARIABLES
  \* the world: which level each file's directory is, and the CPPLINT.cfg of each
  level, cfg, cmd,
  \* module state
  filters,      \* _cpplint_state.filters
  backup,       \* _cpplint_state._filters_backup
  suppressed,   \* _error_suppressions: <<category or None, line>>
  everywhere,   \* _global_error_suppressions
  error_count,  \* _cpplint_state.error_count, or 1 when it is more
  exit,         \* the exit code, once there is one
  \* where the process is
  file, pc, at, line,
  found,        \* cfg_filters
  todo,         \* how many of them are still to be applied
  \* history
  noted,        \* the NOLINT comments and markers of this file, so far
  last,         \* the last error of this line: what it was and whether it counted
  blamed        \* the files with an error that counted

world == <<level, cfg, cmd>>
filtering == <<filters, backup>>
nolint == <<suppressed, everywhere>>
walk == <<at, found, todo>>
place == <<file, pc, walk, line>>
history == <<noted, last, blamed>>
vars == <<world, filtering, nolint, error_count, exit, place, history>>

NoError == [cat |-> None, line |-> 0, sure |-> TRUE, counted |-> FALSE]

Signed(fs) == \A i \in DOMAIN fs : fs[i].sign # "none"

Init ==
  /\ level \in [1..NFiles -> Levels]
  /\ cfg \in [Levels -> Configs]
  /\ cmd \in CmdFilters
  /\ filters = cmd /\ backup = <<>>
  /\ suppressed = {} /\ everywhere = {}
  /\ error_count = 0 /\ exit = None
  /\ file = 1 /\ pc = "next" /\ line = 0
  /\ at = 1 /\ found = <<>> /\ todo = 0
  /\ noted = {} /\ last = NoError /\ blamed = {}

Goes(from, to) == pc = from /\ pc' = to

-----------------------------------------------------------------------------
(* ProcessFile and ProcessConfigOverrides.                                  *)

\* _SetVerboseLevel, _BackupFilters
BeginFile ==
  /\ file <= NFiles
  /\ Goes("next", "config")
  /\ backup' = filters
  /\ at' = level[file] /\ found' = <<>> /\ todo' = 0 /\ line' = 0
  /\ noted' = {}
  /\ UNCHANGED <<world, filters, nolint, error_count, exit, file, last, blamed>>

\* _RestoreFilters
Restore == filters' = backup

Skip(from) ==
  /\ Goes(from, "next")
  /\ Restore /\ UNCHANGED backup
  /\ file' = file + 1 /\ last' = NoError

Here == cfg[at]

\* A CPPLINT.cfg: its filters are kept for later, "set noparent" ends the way up,
\* exclude_files does not match.
ReadConfig ==
  /\ at \in Levels /\ Here.kind = "options" /\ Here.pattern # "invalid"
  /\ Goes("config", "config")
  /\ found' = found \o Here.filters /\ todo' = Len(found')
  /\ at' = IF Here.noparent THEN Depth + 1 ELSE at + 1
  /\ UNCHANGED <<world, filtering, nolint, error_count, exit, file, line, history>>

\* exclude_files matches.
ExcludeFile ==
  /\ at \in Levels /\ Here.kind = "options" /\ Here.pattern = "valid"
  /\ Skip("config")
  /\ UNCHANGED <<world, nolint, error_count, exit, walk, line, noted, blamed>>

\* No CPPLINT.cfg, or one that cannot be opened, which ends the way up.
NoConfig ==
  /\ at \in Levels /\ Here.kind \in {"absent", "unreadable"}
  /\ Goes("config", "config")
  /\ at' = IF Here.kind = "absent" THEN at + 1 ELSE Depth + 1
  /\ UNCHANGED <<world, filtering, nolint, error_count, exit, file, found, todo, line, history>>

\* UnicodeDecodeError, or re.error from re.compile: no IOError either, they leave main.
BadConfig ==
  /\ at \in Levels
  /\ Here.kind = "garbled" \/ (Here.kind = "options" /\ Here.pattern = "invalid")
  /\ Goes("config", "exited")
  /\ exit' = 1
  /\ UNCHANGED <<world, filtering, nolint, error_count, file, walk, line, history>>

\* Mutant: in the order they were found.
MutantLineToAdd == found[Len(found) + 1 - todo]

\* The top-level directory's options have the least priority: the lines are taken
\* from the last to the first, the filters of each from left to right.
LineToAdd == found[todo]

Applying == pc = "config" /\ at \notin Levels

AddFilters ==
  /\ Applying /\ todo > 0 /\ Signed(filters \o LineToAdd)
  /\ filters' = filters \o LineToAdd
  /\ todo' = todo - 1
  /\ UNCHANGED <<world, backup, nolint, error_count, exit, file, pc, at, found, line, history>>

\* AddFilters raises ValueError, which leaves main.
BadFilter ==
  /\ Applying /\ todo > 0 /\ ~Signed(filters \o LineToAdd)
  /\ filters' = filters \o LineToAdd
  /\ pc' = "exited" /\ exit' = 1
  /\ UNCHANGED <<world, backup, nolint, error_count, file, walk, line, history>>

\* ProcessConfigOverrides returns True.
Configured ==
  /\ Applying /\ todo = 0 /\ pc' = "open"
  /\ UNCHANGED <<world, filtering, nolint, error_count, exit, file, walk, line, history>>

\* The file cannot be opened, or its extension is not one of C++.
IgnoreFile ==
  /\ Skip("open")
  /\ UNCHANGED <<world, nolint, error_count, exit, walk, line, noted, blamed>>

\* ResetNolintSuppressions
Reset == suppressed' = {} /\ everywhere' = {}

\* ProcessFileData, up to CheckForCopyright.
BeginData ==
  /\ Goes("open", "data")
  /\ Reset
  /\ UNCHANGED <<world, filtering, error_count, exit, file, walk, line, history>>

\* ProcessGlobalSuppresions: a marker like LINT_C_FILE.
Globally ==
  /\ Goes("data", "lines")
  /\ \E cs \in Markers :
       /\ everywhere' = everywhere \cup cs
       /\ noted' = noted \cup (cs \X {0})
  /\ last' = NoError
  /\ UNCHANGED <<world, filtering, suppressed, error_count, exit, file, walk, line, blamed>>

\* NOLINT is about its own line, NOLINTNEXTLINE about the next.
SuppressedLine(next) == line + 1 + next

\* ProcessLine: ParseNolintSuppressions comes before the checks of the line.
NextLine ==
  /\ pc = "lines" /\ line < MaxLines
  /\ line' = line + 1
  /\ \/ UNCHANGED <<suppressed, noted>>
     \/ \E c \in Categories \cup {None}, next \in {0, 1} :
          /\ suppressed' = suppressed \cup {<<c, SuppressedLine(next)>>}
          /\ noted' = noted \cup {<<c, line' + next>>}
  /\ last' = NoError
  /\ UNCHANGED <<world, filtering, everywhere, error_count, exit, file, pc, walk, blamed>>

IsErrorSuppressedByNolint(c, l) ==
  c \in everywhere \/ <<c, l>> \in suppressed \/ <<None, l>> \in suppressed

\* The last filter that is about the category decides.
IsFiltered(c) ==
  LET about == {i \in DOMAIN filters : filters[i].cat = c} IN
  about # {} /\ \E i \in about : (\A j \in about : j <= i) /\ filters[i].sign = "-"

ShouldPrintError(c, sure, l) ==
  ~IsErrorSuppressedByNolint(c, l) /\ sure /\ ~IsFiltered(c)

\* Mutant: the count starts anew with the error.
MutantTally(counted) == IF counted THEN 1 ELSE 0

\* IncrementErrorCount
Tally(counted) == IF counted THEN 1 ELSE error_count

\* Error: mostly on the line at hand, but some checks look back and some ahead;
\* sure when its confidence reaches the verbosity.
Error ==
  /\ pc \in {"data", "lines"}
  /\ \E c \in Categories, sure \in BOOLEAN, l \in 0..MaxLines :
       LET counted == ShouldPrintError(c, sure, l) IN
       /\ error_count' = Tally(counted)
       /\ last' = [cat |-> c, line |-> l, sure |-> sure, counted |-> counted]
       /\ blamed' = IF counted THEN blamed \cup {file} ELSE blamed
  /\ UNCHANGED <<world, filtering, nolint, exit, place, noted>>

EndFile ==
  /\ line = MaxLines
  /\ Skip("lines")
  /\ UNCHANGED <<world, nolint, error_count, exit, walk, line, noted, blamed>>

\* sys.exit(_cpplint_state.error_count > 0)
Exit ==
  /\ file > NFiles
  /\ Goes("next", "exited")
  /\ exit' = error_count
  /\ UNCHANGED <<world, filtering, nolint, error_count, file, walk, line, history>>

Next ==
  \/ BeginFile \/ ReadConfig \/ ExcludeFile \/ NoConfig \/ BadConfig
  \/ AddFilters \/ BadFilter \/ Configured \/ IgnoreFile
  \/ BeginData \/ Globally \/ NextLine \/ Error \/ EndFile \/ Exit

Spec == Init /\ [][Next]_vars

-----------------------------------------------------------------------------
(* What each file is entitled to.                                           *)

TypeOK ==
  /\ level \in [1..NFiles -> Levels] /\ cfg \in [Levels -> Configs] /\ cmd \in CmdFilters
  /\ filters \in Seq(Filters) /\ backup \in Seq(Filters)
  /\ found \in Seq(FilterLines) /\ todo \in 0..Len(found)
  /\ suppressed \subseteq (Categories \cup {None}) \X (1..MaxLines + 1)
  /\ everywhere \subseteq Categories
  /\ error_count \in {0, 1} /\ exit \in {None, 0, 1}
  /\ file \in 1..NFiles + 1 /\ at \in 1..Depth + 1 /\ line \in 0..MaxLines
  /\ pc \in {"next", "config", "open", "data", "lines", "exited"}
  /\ noted \subseteq (Categories \cup {None}) \X (0..MaxLines + 1)
  /\ last.cat \in Categories \cup {None} /\ last.line \in 0..MaxLines
  /\ last.sure \in BOOLEAN /\ last.counted \in BOOLEAN
  /\ blamed \subseteq 1..NFiles

\* Whichever way a file is left (excluded, not to be opened, not C++, linted), the
\* next one starts with the filters of the command line.  ProcessFile restores at
\* each of its three returns.
FiltersAreRestored == pc = "next" => filters = cmd

\* The way up from the file at hand stops behind a level that says so.
Stops(l) == cfg[l].kind = "unreadable" \/ (cfg[l].kind = "options" /\ cfg[l].noparent)
Heeded == {l \in level[file]..Depth : \A k \in level[file]..(l - 1) : ~Stops(k)}
Saying == {l \in Heeded : cfg[l].kind = "options"}

\* The last filter of fs that is about c has this sign.
About(fs, c) == \E i \in DOMAIN fs : fs[i].cat = c
LastSays(fs, c, sign) ==
  \E i \in DOMAIN fs : fs[i] = [sign |-> sign, cat |-> c] /\ \A j \in (i + 1)..Len(fs) : fs[j].cat # c

\* So does the first of the lines that has one.
Mention(lines, c) == \E i \in DOMAIN lines : About(lines[i], c)
FirstSays(lines, c, sign) ==
  \E i \in DOMAIN lines : LastSays(lines[i], c, sign) /\ \A j \in 1..(i - 1) : ~About(lines[j], c)

\* The nearest configuration that mentions the category decides, in it the first
\* line that does, and in the line the last filter; the command line comes last.
FilteredOut(c) ==
  \/ \E l \in Saying : /\ FirstSays(cfg[l].filters, c, "-")
                       /\ \A k \in Saying : k < l => ~Mention(cfg[k].filters, c)
  \/ LastSays(cmd, c, "-") /\ \A k \in Saying : ~Mention(cfg[k].filters, c)

\* A comment of this file, met before, is about the error.
Excused(e) == noted \cap {<<e.cat, e.line>>, <<None, e.line>>, <<e.cat, 0>>} # {}

\* Whether an error counts depends on the file it is in and nothing else: on the
\* configurations above it in their order, on the NOLINT comments and markers this
\* file has shown so far, and on the verbosity.  Nothing of an earlier file plays a
\* part, whatever way that one was left.
VerdictIsOwn ==
  last.cat # None =>
    (last.counted <=> last.sure /\ ~Excused(last) /\ ~FilteredOut(last.cat))

\* Exit code 0 means that every file was gone through and no error of any of them
\* counted, however many clean files came behind the one that had it; an exception
\* that cuts the process short (BadConfig, BadFilter) makes it 1
\* (cpplint.py:1092-1100, 1076, 6256, 6276 and 6599).
ExitTells ==
  exit # None => (exit = 1 <=> blamed # {} \/ file <= NFiles)
=============================================================================
