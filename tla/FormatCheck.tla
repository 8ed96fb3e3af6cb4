------------------------------ MODULE FormatCheck ------------------------------
(***************************************************************************)
(* run_clang_format.py, behind `make format` and `make check-format`: each *)
(* directory of --source_dirs is walked in turn, its sources that no glob  *)
(* excludes are formatted in place or compared with what clang-format      *)
(* would write, and the exit code is for the build.                        *)
(*                                                                         *)
(* A file is a .h or .cpp file; the texts are abstracted to whether they   *)
(* are formatted, and whether clang-format and the decoder accept them.    *)
(***************************************************************************)
EXTENDS Naturals, FiniteSets

CONSTANTS
  Files,  \* the source files
  NDirs   \* the directories of --source_dirs that are not empty strings

Dirs == 1..NDirs

VARIABLES
  dirOf,    \* the directory a file is in
  text,     \* what a file is like
  fix,      \* --fix
  dir,      \* source_dir, as its position
  todo,     \* formatted_filenames of that directory, what is left of it
  error,    \* check's error
  had_err,  \* the script's had_err
  exit      \* the exit code, once there is one

vars == <<dirOf, text, fix, dir, todo, error, had_err, exit>>

Texts == {"excluded", "formatted", "unformatted", "rejected"}

\* os.walk below a directory, without what the globs exclude.
Walk(d) == {f \in Files : dirOf[f] = d /\ text[f] # "excluded"}

Init ==
  /\ dirOf \in [Files -> Dirs]
  /\ text \in [Files -> Texts]
  /\ fix \in BOOLEAN
  /\ dir = 1 /\ todo = Walk(1)
  /\ error = FALSE /\ had_err = FALSE
  /\ exit = "none"

Formatted(fs) == text' = [f \in Files |-> IF f \in fs THEN "formatted" ELSE text[f]]

Rejected(fs) == {f \in fs : text[f] = "rejected"}

\* An exception leaves the script: a text that clang-format or the decoder
\* rejects ...
CheckRaises ==
  /\ dir \in Dirs /\ ~fix
  /\ Rejected(todo) # {}
  /\ exit' = "1"
  /\ UNCHANGED <<dirOf, text, fix, dir, todo, error, had_err>>

\* ... also when some of the files are formatted by then, or `clang-format -i`
\* without any.
FixRaises ==
  /\ dir \in Dirs /\ fix
  /\ todo = {} \/ Rejected(todo) # {}
  /\ \E done \in SUBSET (todo \ Rejected(todo)) : Formatted(done)
  /\ exit' = "1"
  /\ UNCHANGED <<dirOf, fix, dir, todo, error, had_err>>

\* The next directory; had_err is what check returns for this one.
NextDir ==
  /\ dir' = dir + 1
  /\ todo' = IF dir + 1 \in Dirs THEN Walk(dir + 1) ELSE {}
  /\ had_err' = error /\ error' = FALSE

\* clang-format -i, once for all the files of the directory.
Fix ==
  /\ dir \in Dirs /\ fix
  /\ todo # {} /\ Rejected(todo) = {}
  /\ Formatted(todo)
  /\ NextDir
  /\ UNCHANGED <<dirOf, fix, exit>>

CheckFile ==
  /\ dir \in Dirs /\ ~fix
  /\ \E f \in todo \ Rejected(todo) :
       /\ error' = (error \/ text[f] = "unformatted")
       /\ todo' = todo \ {f}
  /\ UNCHANGED <<dirOf, text, fix, dir, had_err, exit>>

CheckDone ==
  /\ dir \in Dirs /\ ~fix /\ todo = {}
  /\ NextDir
  /\ UNCHANGED <<dirOf, text, fix, exit>>

Exit ==
  /\ dir \notin Dirs
  /\ exit' = IF had_err THEN "1" ELSE "0"
  /\ UNCHANGED <<dirOf, text, fix, dir, todo, error, had_err>>

Next ==
  /\ exit = "none"
  /\ CheckRaises \/ FixRaises \/ Fix \/ CheckFile \/ CheckDone \/ Exit

Spec == Init /\ [][Next]_vars

-----------------------------------------------------------------------------
\* "runs clang format and exits with a non-zero exit code if any files need to
\* be reformatted" (CMakeLists.txt:169).
ExitCodeTells ==
  exit = "0" => \A f \in Files : text[f] # "unformatted"
=============================================================================
