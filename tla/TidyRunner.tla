------------------------------- MODULE TidyRunner -------------------------------
(***************************************************************************)
(* run_clang_tidy.py, behind `make clang-tidy`: the main thread puts every *)
(* entry of the compilation database into a bounded queue, daemon threads  *)
(* (run_tidy) take them out, run clang-tidy and collect the files that     *)
(* failed, queue.join waits until each has been reported done, and the     *)
(* exit code tells whether any failed.                                     *)
(*                                                                         *)
(* A file is its position in the database.  What clang-tidy says of it,    *)
(* whether it matches the command line and whether CheckConfig excludes it *)
(* are chosen freely.  queue.Queue and threading.Lock are external: a call *)
(* is one step that waits until it can be made.  A raised exception ends   *)
(* the thread it is raised in; in the main thread that ends the script.    *)
(***************************************************************************)
EXTENDS Naturals, Sequences, FiniteSets

CONSTANTS
  NFiles,   \* the entries of compile_commands.json
  Workers,  \* the tidy-launching threads; max_task of them
  None      \* no file, no thread

ASSUME TidyAssumption ==
  /\ NFiles \in Nat
  /\ IsFiniteSet(Workers) /\ Workers # {}
  /\ None \notin Workers \cup 1..NFiles

Files == 1..NFiles
MaxTask == Cardinality(Workers)

VARIABLES
  kind,       \* each file: to be checked, excluded, not matched by file_name_re
  opts,       \* -export-fixes and -fix
  queue,      \* task_queue
  unfinished, \* its count of what was put and not reported done
  lock,       \* lock
  failed,     \* failed_files
  wpc,        \* where each worker is in run_tidy
  name,       \* the file it has taken
  mpc,        \* where the main thread is
  next,       \* the entry it puts next
  code,       \* return_code
  tmpdir,     \* the directory for replacement files: none, made, removed
  yamls,      \* whether it holds one
  left,       \* history: where an uncaught exception left main, or nowhere
  runs,       \* history: how often clang-tidy was started on each file
  bad         \* history: the files it found fault with

chosen == <<kind, opts>>
shared == <<queue, unfinished>>
workers == <<lock, failed, wpc, name>>
main == <<mpc, next, code>>
dir == <<tmpdir, yamls>>
history == <<runs, bad>>
vars == <<chosen, shared, workers, main, dir, left, history>>

Kinds == {"plain", "third_party", "unmatched"}

Init ==
  /\ kind \in [Files -> Kinds]
  /\ opts \in [export : BOOLEAN, fix : BOOLEAN]
  /\ queue = <<>> /\ unfinished = 0
  /\ lock = None /\ failed = {}
  /\ wpc = [w \in Workers |-> "get"]
  /\ name = [w \in Workers |-> None]
  /\ mpc = "prepare" /\ next = 1 /\ code = 0
  /\ tmpdir = "none" /\ yamls = FALSE /\ left = "nowhere"
  /\ runs = [f \in Files |-> 0] /\ bad = {}

-----------------------------------------------------------------------------
(* The queue (external).                                                    *)

Room == Len(queue) < MaxTask

Put(f) ==
  /\ Room
  /\ queue' = Append(queue, f)
  /\ unfinished' = unfinished + 1

Get(f) ==
  /\ queue # <<>> /\ f = Head(queue)
  /\ queue' = Tail(queue)
  /\ unfinished' = unfinished

TaskDone == unfinished' = unfinished - 1 /\ queue' = queue

-----------------------------------------------------------------------------
(* A worker: run_tidy.                                                       *)

Goes(w, from, to) == wpc[w] = from /\ wpc' = [wpc EXCEPT ![w] = to]

Take(w) ==
  /\ Goes(w, "get", "invoke")
  /\ \E f \in Files : Get(f) /\ name' = [name EXCEPT ![w] = f]
  /\ UNCHANGED <<chosen, lock, failed, main, dir, left, history>>

\* CheckConfig: the path lies below third_party.
ShouldSkip(f) == kind[f] = "third_party"

\* get_tidy_invocation makes a file for the replacements, needed or not.
Invoke(w) ==
  /\ \/ Goes(w, "invoke", "done") /\ ShouldSkip(name[w]) /\ runs' = runs
     \/ /\ Goes(w, "invoke", "tidy") /\ ~ShouldSkip(name[w])
        /\ runs' = [runs EXCEPT ![name[w]] = @ + 1]
  /\ yamls' = (yamls \/ tmpdir = "made")
  /\ UNCHANGED <<chosen, shared, lock, failed, name, main, tmpdir, left, bad>>

\* communicate returns: what clang-tidy found shows in the return code.
Communicate(w) ==
  /\ \/ Goes(w, "tidy", "print") /\ bad' = bad
     \/ Goes(w, "tidy", "append") /\ bad' = bad \cup {name[w]}
  /\ UNCHANGED <<chosen, shared, lock, failed, name, main, dir, left, runs>>

\* Mutant: the file is reported done, and its failure nowhere.
MutantAppendFailed(w) ==
  /\ Goes(w, "append", "done")
  /\ UNCHANGED <<chosen, shared, lock, failed, name, main, dir, left, history>>

AppendFailed(w) ==
  /\ Goes(w, "append", "print")
  /\ failed' = failed \cup {name[w]}
  /\ UNCHANGED <<chosen, shared, lock, name, main, dir, left, history>>

LockOutput(w) ==
  /\ Goes(w, "print", "printing")
  /\ lock = None /\ lock' = w
  /\ UNCHANGED <<chosen, shared, failed, name, main, dir, left, history>>

UnlockOutput(w) ==
  /\ Goes(w, "printing", "done")
  /\ lock' = None
  /\ UNCHANGED <<chosen, shared, failed, name, main, dir, left, history>>

\* Mutant: a file that is skipped is not reported done.
MutantReportDone(w) ==
  /\ Goes(w, "done", "get")
  /\ name' = [name EXCEPT ![w] = None]
  /\ \/ ~ShouldSkip(name[w]) /\ TaskDone
     \/ ShouldSkip(name[w]) /\ UNCHANGED shared
  /\ UNCHANGED <<chosen, lock, failed, main, dir, left, history>>

ReportDone(w) ==
  /\ Goes(w, "done", "get")
  /\ TaskDone
  /\ name' = [name EXCEPT ![w] = None]
  /\ UNCHANGED <<chosen, lock, failed, main, dir, left, history>>

\* Mutant: lock.acquire and lock.release instead of `with`.
MutantRaise(w) ==
  /\ wpc[w] \in {"invoke", "tidy", "printing"}
  /\ wpc' = [wpc EXCEPT ![w] = "dead"]
  /\ UNCHANGED <<chosen, shared, lock, failed, name, main, dir, left, history>>

\* No temporary file, no process, output that is not UTF-8, a stdout that is
\* gone: the thread ends without task_done; `with lock` releases the lock.
Raise(w) ==
  /\ wpc[w] \in {"invoke", "tidy", "printing"}
  /\ wpc' = [wpc EXCEPT ![w] = "dead"]
  /\ lock' = IF lock = w THEN None ELSE lock
  /\ UNCHANGED <<chosen, shared, failed, name, main, dir, left, history>>

-----------------------------------------------------------------------------
(* The main thread.                                                          *)

MainGoes(from, to) == mpc = from /\ mpc' = to

\* No database up to the root, clang-tidy or clang-apply-replacements that does
\* not run: sys.exit(1).
Refuse ==
  /\ MainGoes("prepare", "refused")
  /\ code' = 1
  /\ UNCHANGED <<chosen, shared, workers, next, dir, left, history>>

Prepare ==
  /\ MainGoes("prepare", "made")
  /\ tmpdir' = IF opts.fix \/ opts.export THEN "made" ELSE "none"
  /\ UNCHANGED <<chosen, shared, workers, next, code, yamls, left, history>>

\* re.compile, with the directory made and no try around it.
CompileFilter ==
  /\ MainGoes("made", "start")
  /\ UNCHANGED <<chosen, shared, workers, next, code, dir, left, history>>

\* The threads that start do nothing but wait before the first put.
StartThreads ==
  /\ MainGoes("start", "fill")
  /\ UNCHANGED <<chosen, shared, workers, next, code, dir, left, history>>

PutFile ==
  /\ mpc = "fill" /\ next \in Files
  /\ kind[next] # "unmatched"
  /\ Put(next)
  /\ next' = next + 1
  /\ UNCHANGED <<chosen, workers, mpc, code, dir, left, history>>

\* queue.Full after 300 seconds; put_file is still False.
PutTimesOut ==
  /\ next \in Files /\ kind[next] # "unmatched" /\ ~Room
  /\ MainGoes("fill", "full")
  /\ UNCHANGED <<chosen, shared, workers, next, code, dir, left, history>>

Retry ==
  /\ MainGoes("full", "fill")
  /\ UNCHANGED <<chosen, shared, workers, next, code, dir, left, history>>

\* A file that file_name_re does not match is not put, and put_file stays
\* False: the loop goes round with nothing changed.
Spinning == mpc = "fill" /\ next \in Files /\ kind[next] = "unmatched"

Spin == Spinning /\ UNCHANGED vars

\* Mutant: the loop stops one entry early.
MutantFilled ==
  /\ next >= NFiles
  /\ MainGoes("fill", "join")
  /\ UNCHANGED <<chosen, shared, workers, next, code, dir, left, history>>

Filled ==
  /\ next \notin Files
  /\ MainGoes("fill", "join")
  /\ UNCHANGED <<chosen, shared, workers, next, code, dir, left, history>>

\* Mutant: only the queue has to be empty.
MutantJoin ==
  /\ queue = <<>>
  /\ MainGoes("join", "export")
  /\ code' = IF failed # {} THEN 1 ELSE 0
  /\ UNCHANGED <<chosen, shared, workers, next, dir, left, history>>

\* task_queue.join(), and the look at failed_files.
Join ==
  /\ unfinished = 0
  /\ MainGoes("join", "export")
  /\ code' = IF failed # {} THEN 1 ELSE 0
  /\ UNCHANGED <<chosen, shared, workers, next, dir, left, history>>

\* merge_replacement_files uses yaml, whose import is commented out: with a
\* replacement file there, even an empty one, it raises NameError.
Export ==
  /\ MainGoes("export", "fix")
  /\ \/ ~opts.export /\ code' = code
     \/ opts.export /\ code' \in {1} \cup (IF yamls THEN {} ELSE {code})
  /\ UNCHANGED <<chosen, shared, workers, next, dir, left, history>>

\* apply_fixes does not look at the result of subprocess.call, which may raise.
Fix ==
  /\ MainGoes("fix", "clean")
  /\ \/ code' = code
     \/ opts.fix /\ code' = 1
  /\ UNCHANGED <<chosen, shared, workers, next, dir, left, history>>

RemoveDir == tmpdir' = IF tmpdir = "made" THEN "removed" ELSE tmpdir

\* Mutant: the directory goes only when fixes were applied.
MutantClean ==
  /\ MainGoes("clean", "exited")
  /\ IF opts.fix THEN RemoveDir ELSE UNCHANGED tmpdir
  /\ UNCHANGED <<chosen, shared, workers, next, code, yamls, left, history>>

\* sys.exit(return_code)
Clean ==
  /\ MainGoes("clean", "exited")
  /\ RemoveDir
  /\ UNCHANGED <<chosen, shared, workers, next, code, yamls, left, history>>

\* Ctrl-C inside the try.  Behind it the bare excepts of Export and Fix take one
\* as they take any error; everywhere else it is an exception like those of Break.
Interrupt ==
  /\ mpc \in {"start", "fill", "full", "join"} /\ mpc' = "interrupted"
  /\ UNCHANGED <<chosen, shared, workers, next, code, dir, left, history>>

\* rmtree, then SIGKILL for the whole process group.
KillGroup ==
  /\ MainGoes("interrupted", "killed")
  /\ RemoveDir
  /\ UNCHANGED <<chosen, shared, workers, next, code, yamls, left, history>>

\* A worker or its clang-tidy writes into the directory: rmtree may raise, and
\* the SIGKILL is not sent.
RmtreeRaises ==
  /\ tmpdir = "made" /\ \E w \in Workers : wpc[w] \in {"invoke", "tidy"}
  /\ MainGoes("interrupted", "crashed")
  /\ UNCHANGED <<chosen, shared, workers, next, code, dir, left, history>>

\* Where an exception leaves main: a database that cannot be read, no directory, a
\* bad regular expression, a thread that does not start, a print to a stdout that
\* is gone, an rmtree that fails, Ctrl-C outside the try and a second Ctrl-C.
Breakable ==
  \/ mpc \in {"prepare", "made", "start", "full", "export", "fix", "clean", "interrupted"}
  \/ mpc = "join" /\ unfinished = 0 /\ failed # {}

\* It may come right behind the rmtree.
Break ==
  /\ Breakable /\ mpc' = "crashed" /\ left' = mpc
  /\ \/ tmpdir' = tmpdir
     \/ mpc \in {"clean", "interrupted"} /\ RemoveDir
  /\ UNCHANGED <<chosen, shared, workers, next, code, yamls, history>>

Ended == mpc \in {"refused", "exited", "killed", "crashed"}

-----------------------------------------------------------------------------
WorkerStep(w) ==
  \/ Take(w) \/ Invoke(w) \/ Communicate(w) \/ AppendFailed(w)
  \/ UnlockOutput(w) \/ ReportDone(w)

MainStep ==
  \/ Refuse \/ Prepare \/ CompileFilter \/ StartThreads \/ PutFile \/ Retry \/ Spin
  \/ Filled \/ Join \/ Export \/ Fix \/ Clean \/ KillGroup \/ RmtreeRaises

Next ==
  /\ ~Ended
  /\ \/ MainStep \/ PutTimesOut \/ Interrupt \/ Break
     \/ \E w \in Workers : WorkerStep(w) \/ LockOutput(w) \/ Raise(w)

Spec == Init /\ [][Next]_vars

(***************************************************************************)
(* Fairness: the threads run, clang-tidy ends, and a thread that waits for *)
(* the output lock gets it in the end.  Nobody has to press Ctrl-C, no     *)
(* call has to fail, and no put has to take 300 seconds.                   *)
(***************************************************************************)
Fairness ==
  /\ WF_vars(~Ended /\ MainStep)
  /\ \A w \in Workers :
       WF_vars(~Ended /\ WorkerStep(w)) /\ SF_vars(~Ended /\ LockOutput(w))

FairSpec == Spec /\ Fairness

-----------------------------------------------------------------------------
(* Properties.                                                              *)

WorkerPcs == {"get", "invoke", "tidy", "append", "print", "printing", "done", "dead"}
MainPcs == {"prepare", "refused", "made", "start", "fill", "full", "join", "export", "fix", "clean",
            "exited", "interrupted", "killed", "crashed"}

\* Every variable has its type; the queue never exceeds its bound.
TypeOK ==
  /\ kind \in [Files -> Kinds]
  /\ opts \in [export : BOOLEAN, fix : BOOLEAN]
  /\ queue \in Seq(Files) /\ Len(queue) <= MaxTask
  /\ unfinished \in Nat
  /\ lock \in Workers \cup {None}
  /\ failed \subseteq Files
  /\ wpc \in [Workers -> WorkerPcs]
  /\ name \in [Workers -> Files \cup {None}]
  /\ mpc \in MainPcs /\ next \in 1..(NFiles + 1) /\ code \in {0, 1}
  /\ tmpdir \in {"none", "made", "removed"} /\ yamls \in BOOLEAN
  /\ left \in MainPcs \cup {"nowhere"}
  /\ runs \in [Files -> Nat] /\ bad \subseteq Files

Joined == mpc \in {"export", "fix", "clean", "exited"}

\* clang-tidy runs over all files: none twice, however often put times out, and
\* once join has returned each exactly once, except what CheckConfig excludes
\* (run_clang_tidy.py:166-173 and 311-325).
EachCheckedOnce ==
  /\ \A f \in Files : runs[f] <= 1
  /\ Joined => \A f \in Files :
       kind[f] # "unmatched" /\ (runs[f] = 1 <=> kind[f] = "plain")

\* When join has returned no thread holds a file: nothing writes into the
\* directory that main merges, applies and removes, no clang-tidy outlives the
\* exit, and no thread has died (run_clang_tidy.py:191 and 325-364).
JoinedIsQuiet ==
  Joined => queue = <<>> /\ \A w \in Workers : wpc[w] = "get"

\* The exit code is the verdict: 1 when clang-tidy found fault with a file,
\* and, where nothing is exported or applied, 0 when it did not
\* (run_clang_tidy.py:174-175 and 327-328).
ExitCodeTells ==
  mpc = "exited" =>
    /\ bad # {} => code = 1
    /\ code = 1 /\ tmpdir = "none" => bad # {}

\* sys.exit and the SIGKILL leave no directory behind.  What does is an exception:
\* an rmtree that a writing thread gets in the way of, or one that leaves main
\* elsewhere, and before the first put that leaves no replacement file in it
\* (run_clang_tidy.py:277-293, 334-340 and 360-364).
NothingLeftBehind ==
  Ended /\ tmpdir = "made" =>
    /\ mpc = "crashed"
    /\ left = "nowhere" => \E w \in Workers : wpc[w] \in {"invoke", "tidy"}
    /\ left \in {"made", "start"} => ~yamls

Died(w) == wpc[w] = "dead"

\* The script ends by itself, unless it is in the endless loop over a file the
\* command line does not match or a thread has died with its file
\* (run_clang_tidy.py:312-325).
ScriptEnds == <>(Ended \/ Spinning \/ \E w \in Workers : Died(w))

Waiting(f) == \E k \in 1..Len(queue) : queue[k] = f
Holds(w, f) == name[w] = f

\* A thread that dies takes one file with it: what was put is still dealt with as
\* long as another thread lives (run_clang_tidy.py:158-159).
SurvivorsGoOn ==
  \A f \in Files :
    Waiting(f) \/ (\E w \in Workers : Holds(w, f) /\ ~Died(w))
      ~> \/ Ended \/ \A w \in Workers : Died(w)
         \/ ~Waiting(f) /\ \A w \in Workers : Holds(w, f) => Died(w)

=============================================================================
