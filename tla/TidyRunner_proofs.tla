--------------------------- MODULE TidyRunner_proofs ---------------------------
(***************************************************************************)
(* Proofs about TidyRunner, for any number of threads and files.  The       *)
(* inductive invariant keeps three books: how many files are unfinished     *)
(* (CountInv), where each file is on its way through the queue and the      *)
(* threads (FileInv), and what the main thread has made of it (MainInv).    *)
(***************************************************************************)
EXTENDS TidyRunner, FiniteSetTheorems, TLAPS

\* The threads that have a file.  One that has died has its file for good.
Busy == {w \in Workers : wpc[w] # "get"}

\* What task_queue counts is what waits and what the threads hold, so that join
\* waits for all of it, and for ever when a thread has died.
CountInv == unfinished = Len(queue) + Cardinality(Busy)

\* The file the next get returns.
First == next - Len(queue)

\* clang-tidy has seen the file, or CheckConfig excludes it.
Settled(f) == runs[f] = (IF kind[f] = "plain" THEN 1 ELSE 0)

\* A file is below next, in its place in the queue, with one thread, or settled.
FileInv ==
  /\ First \in Nat
  /\ \A i \in 1..Len(queue) : queue[i] = First + i - 1
  /\ \A f \in Files : runs[f] \in {0, 1}
  /\ \A f \in Files : f >= First => runs[f] = 0
  /\ \A f \in Files : f < next => kind[f] # "unmatched"
  /\ \A w \in Busy : name[w] \in Files /\ name[w] < First
  /\ \A v, w \in Busy : name[v] = name[w] => v = w
  /\ \A w \in Busy : wpc[w] = "invoke" => runs[name[w]] = 0
  /\ \A f \in Files : f < First =>
       \/ Settled(f)
       \/ \E w \in Workers : name[w] = f /\ wpc[w] \in {"invoke", "dead"}

\* What clang-tidy found fault with is noted or about to be.
VerdictInv ==
  /\ \A w \in Workers : wpc[w] = "append" => name[w] \in bad
  /\ \A f \in bad : f \in failed \/ \E w \in Workers : wpc[w] = "append" /\ name[w] = f
  /\ failed \subseteq bad

\* What the main thread has decided, and the directory.
MainInv ==
  /\ mpc \in {"prepare", "refused"} => tmpdir = "none"
  /\ mpc \notin {"prepare", "refused", "crashed"} /\ tmpdir = "none" => ~opts.export /\ ~opts.fix
  /\ mpc \in {"prepare", "made", "start", "fill", "full", "join"} => code = 0
  /\ mpc \in {"exited", "killed"} => tmpdir # "made"
  /\ left # "nowhere" => mpc = "crashed"
  /\ mpc = "crashed" /\ left = "nowhere" => \E w \in Workers : wpc[w] \in {"invoke", "tidy"}
  /\ mpc \in {"prepare", "made", "start"} => ~yamls /\ queue = <<>> /\ \A w \in Workers : wpc[w] = "get"
  /\ left \in {"made", "start"} => ~yamls
  /\ mpc = "join" \/ Joined => next = NFiles + 1
  /\ Joined /\ bad # {} => code = 1
  /\ Joined /\ code = 1 /\ tmpdir = "none" => bad # {}

IInv == TypeOK /\ CountInv /\ FileInv /\ VerdictInv /\ JoinedIsQuiet /\ MainInv

-----------------------------------------------------------------------------
(* Every step is a thread's, a put, or one that leaves files and threads be. *)

Elsewhere == UNCHANGED <<kind, opts, shared, workers, next, history>>

LEMMA StepCases ==
  ASSUME [Next]_vars
  PROVE  \/ \E w \in Workers : WorkerStep(w) \/ LockOutput(w) \/ Raise(w)
         \/ PutFile
         \/ Elsewhere
<1>1. ASSUME MainStep, ~PutFile PROVE Elsewhere
  BY <1>1 DEF MainStep, Refuse, Prepare, CompileFilter, StartThreads, Retry, Spin, Filled, Join, Export, Fix, Clean, KillGroup,
     RmtreeRaises, MainGoes, Elsewhere, vars, chosen, shared, workers, main, dir, history
<1>2. ASSUME PutTimesOut \/ Interrupt \/ Break PROVE Elsewhere
  BY <1>2 DEF PutTimesOut, Interrupt, Break, Breakable, RemoveDir, MainGoes, Elsewhere, chosen, shared, workers, history
<1>3. ASSUME UNCHANGED vars PROVE Elsewhere
  BY <1>3 DEF Elsewhere, vars, chosen, shared, workers, main, history
<1> QED BY <1>1, <1>2, <1>3 DEF Next

-----------------------------------------------------------------------------
LEMMA TypeInit == Init => TypeOK
<1> SUFFICES ASSUME Init PROVE TypeOK
  OBVIOUS
<1>1. MaxTask \in Nat
  BY TidyAssumption, FS_CardinalityType DEF MaxTask
<1>2. queue \in Seq(Files) /\ Len(queue) <= MaxTask
  BY <1>1 DEF Init
<1>3. /\ next \in 1..(NFiles + 1) /\ runs \in [Files -> Nat]
      /\ name \in [Workers -> Files \cup {None}]
  BY TidyAssumption DEF Init
<1> QED BY <1>2, <1>3 DEF Init, TypeOK, WorkerPcs, MainPcs

\* task_done is called by a thread that has a file: the count is not 0.
LEMMA BusyCounts ==
  ASSUME TypeOK, CountInv, NEW w \in Workers, wpc[w] # "get"
  PROVE  unfinished > 0
<1>1. IsFiniteSet(Busy) /\ w \in Busy
  BY TidyAssumption, FS_Subset DEF Busy
<1>2. Cardinality(Busy) \in Nat /\ Cardinality(Busy) # 0
  BY <1>1, FS_CardinalityType, FS_EmptySet
<1> QED BY <1>2 DEF CountInv, TypeOK

LEMMA TypeStep == TypeOK /\ CountInv /\ FileInv /\ [Next]_vars => TypeOK'
<1> SUFFICES ASSUME TypeOK, CountInv, FileInv, [Next]_vars PROVE TypeOK'
  OBVIOUS
<1> USE DEF TypeOK, WorkerPcs, MainPcs
<1>m. MaxTask \in Nat
  BY TidyAssumption, FS_CardinalityType DEF MaxTask
<1>h. \A w \in Workers : wpc[w] # "get" => name[w] \in Files
  BY DEF FileInv, Busy
<1>1. ASSUME NEW w \in Workers, Take(w) PROVE TypeOK'
  <2>1. queue # <<>> /\ queue' = Tail(queue) /\ unfinished' = unfinished
    BY <1>1 DEF Take, Get
  <2>2. queue' \in Seq(Files) /\ Len(queue') <= MaxTask
    BY <2>1, <1>m
  <2>3. wpc' \in [Workers -> WorkerPcs] /\ name' \in [Workers -> Files \cup {None}]
    BY <1>1 DEF Take, Goes
  <2> QED BY <1>1, <2>1, <2>2, <2>3 DEF Take, chosen, main, dir, history
<1>2. ASSUME NEW w \in Workers, Invoke(w) PROVE TypeOK'
  <2>1. wpc' \in [Workers -> WorkerPcs] /\ wpc[w] # "get"
    BY <1>2 DEF Invoke, Goes
  <2>2. runs' \in [Files -> Nat]
    BY <1>2, <1>h, <2>1 DEF Invoke
  <2> QED BY <1>2, <2>1, <2>2 DEF Invoke, chosen, shared, main
<1>3. ASSUME NEW w \in Workers, Communicate(w) PROVE TypeOK'
  <2>1. wpc' \in [Workers -> WorkerPcs] /\ name[w] \in Files
    BY <1>3, <1>h DEF Communicate, Goes
  <2>2. bad' \subseteq Files
    BY <1>3, <2>1 DEF Communicate
  <2> QED BY <1>3, <2>1, <2>2 DEF Communicate, chosen, shared, main, dir
<1>4. ASSUME NEW w \in Workers, AppendFailed(w) PROVE TypeOK'
  BY <1>4, <1>h DEF AppendFailed, Goes, chosen, shared, main, dir, history
<1>5. ASSUME NEW w \in Workers, UnlockOutput(w) PROVE TypeOK'
  BY <1>5 DEF UnlockOutput, Goes, chosen, shared, main, dir, history
<1>6. ASSUME NEW w \in Workers, ReportDone(w) PROVE TypeOK'
  <2>1. unfinished > 0
    BY <1>6, BusyCounts DEF ReportDone, Goes
  <2> QED BY <1>6, <2>1 DEF ReportDone, Goes, TaskDone, chosen, main, dir, history
<1>7. ASSUME NEW w \in Workers, LockOutput(w) PROVE TypeOK'
  BY <1>7 DEF LockOutput, Goes, chosen, shared, main, dir, history
<1>8. ASSUME NEW w \in Workers, Raise(w) PROVE TypeOK'
  BY <1>8 DEF Raise, chosen, shared, main, dir, history
<1>9. CASE PutFile
  <2>1. queue' \in Seq(Files) /\ Len(queue') <= MaxTask /\ unfinished' \in Nat
    BY <1>9, <1>m DEF PutFile, Put, Room
  <2>2. next' \in 1..(NFiles + 1)
    BY <1>9, TidyAssumption DEF PutFile, Files
  <2> QED BY <1>9, <2>1, <2>2 DEF PutFile, chosen, workers, dir, history
<1>10. CASE MainStep /\ ~PutFile
  BY <1>10 DEF MainStep, Refuse, Prepare, CompileFilter, StartThreads, Retry, Spin, Filled, Join, Export, Fix, Clean, KillGroup,
     RmtreeRaises, MainGoes, RemoveDir, vars, chosen, shared, workers, main, dir, history
<1>11. CASE PutTimesOut \/ Interrupt \/ Break
  BY <1>11 DEF PutTimesOut, Interrupt, Break, Breakable, RemoveDir, MainGoes, chosen, shared, workers, dir, history
<1>12. CASE UNCHANGED vars
  BY <1>12 DEF vars, chosen, shared, workers, main, dir, history
<1> QED
  BY <1>1, <1>2, <1>3, <1>4, <1>5, <1>6, <1>7, <1>8, <1>9, <1>10, <1>11, <1>12 DEF Next, WorkerStep

LEMMA CountStep == TypeOK /\ CountInv /\ [Next]_vars => CountInv'
<1> SUFFICES ASSUME TypeOK, CountInv, [Next]_vars PROVE CountInv'
  OBVIOUS
<1>f. IsFiniteSet(Busy) /\ Cardinality(Busy) \in Nat
  BY TidyAssumption, FS_Subset, FS_CardinalityType DEF Busy
<1>t. queue \in Seq(Files) /\ unfinished \in Nat
  BY DEF TypeOK
<1>1. ASSUME NEW w \in Workers, Take(w) PROVE CountInv'
  <2>1. wpc[w] = "get" /\ wpc' = [wpc EXCEPT ![w] = "invoke"]
    BY <1>1 DEF Take, Goes
  <2>2. Busy' = Busy \cup {w} /\ w \notin Busy
    BY <2>1 DEF Busy, TypeOK
  <2>3. Cardinality(Busy') = Cardinality(Busy) + 1
    BY <2>2, <1>f, FS_AddElement
  <2>4. queue # <<>> /\ queue' = Tail(queue) /\ unfinished' = unfinished
    BY <1>1 DEF Take, Get
  <2>5. Len(queue') = Len(queue) - 1
    BY <2>4, <1>t
  <2> QED BY <2>3, <2>4, <2>5, <1>f, <1>t DEF CountInv
<1>2. ASSUME NEW w \in Workers, ReportDone(w) PROVE CountInv'
  <2>1. wpc[w] = "done" /\ wpc' = [wpc EXCEPT ![w] = "get"]
    BY <1>2 DEF ReportDone, Goes
  <2>2. Busy' = Busy \ {w} /\ w \in Busy
    BY <2>1 DEF Busy, TypeOK
  <2>3. Cardinality(Busy') = Cardinality(Busy) - 1
    BY <2>2, <1>f, FS_RemoveElement
  <2>4. queue' = queue /\ unfinished' = unfinished - 1
    BY <1>2 DEF ReportDone, TaskDone
  <2> QED BY <2>3, <2>4, <1>f, <1>t DEF CountInv
<1>3. ASSUME NEW w \in Workers,
             Invoke(w) \/ Communicate(w) \/ AppendFailed(w) \/ UnlockOutput(w) \/ LockOutput(w) \/ Raise(w)
      PROVE  CountInv'
  <2>1. UNCHANGED shared
    BY <1>3 DEF Invoke, Communicate, AppendFailed, UnlockOutput, LockOutput, Raise
  <2>2. Busy' = Busy
    BY <1>3 DEF Invoke, Communicate, AppendFailed, UnlockOutput, LockOutput, Raise, Goes, Busy, TypeOK
  <2> QED BY <2>1, <2>2 DEF CountInv, shared
<1>4. CASE PutFile
  <2>1. Len(queue') = Len(queue) + 1 /\ unfinished' = unfinished + 1 /\ wpc' = wpc
    BY <1>4, <1>t DEF PutFile, Put, workers, TypeOK
  <2>2. Busy' = Busy
    BY <2>1 DEF Busy
  <2> QED BY <2>1, <2>2, <1>f, <1>t DEF CountInv
<1>5. CASE Elsewhere
  BY <1>5 DEF Elsewhere, shared, workers, CountInv, Busy
<1> QED BY <1>1, <1>2, <1>3, <1>4, <1>5, StepCases DEF WorkerStep

\* When nothing is unfinished nothing waits and no thread has a file.
LEMMA NothingUnfinished ==
  ASSUME TypeOK, CountInv, unfinished = 0
  PROVE  queue = <<>> /\ \A w \in Workers : wpc[w] = "get"
<1>1. IsFiniteSet(Busy) /\ Cardinality(Busy) \in Nat
  BY TidyAssumption, FS_Subset, FS_CardinalityType DEF Busy
<1>2. Len(queue) = 0 /\ Cardinality(Busy) = 0
  BY <1>1 DEF CountInv, TypeOK
<1>3. Busy = {}
  BY <1>1, <1>2, FS_EmptySet
<1> QED BY <1>2, <1>3 DEF Busy, TypeOK

LEMMA QuietStep == TypeOK /\ CountInv /\ JoinedIsQuiet /\ [Next]_vars => JoinedIsQuiet'
<1> SUFFICES ASSUME TypeOK, CountInv, JoinedIsQuiet, [Next]_vars, Joined'
             PROVE  queue' = <<>> /\ \A w \in Workers : wpc'[w] = "get"
  BY DEF JoinedIsQuiet
<1>1. CASE Joined
  <2>1. queue = <<>> /\ \A w \in Workers : wpc[w] = "get"
    BY <1>1 DEF JoinedIsQuiet
  <2>2. \A w \in Workers : ~WorkerStep(w) /\ ~LockOutput(w) /\ ~Raise(w)
    BY <2>1 DEF WorkerStep, Take, Get, Invoke, Communicate, AppendFailed, UnlockOutput, ReportDone,
       LockOutput, Raise, Goes
  <2>3. ~PutFile
    BY <1>1 DEF PutFile, Joined
  <2> QED BY <2>1, <2>2, <2>3, StepCases DEF Elsewhere, shared, workers
<1>2. CASE ~Joined
  <2>1. Join
    BY <1>2 DEF Joined, Next, MainStep, WorkerStep, Take, Invoke, Communicate, AppendFailed, UnlockOutput,
       ReportDone, LockOutput, Raise, Refuse, Prepare, CompileFilter, StartThreads, PutFile, Retry, Spin, Filled, Export, Fix, Clean,
       KillGroup, RmtreeRaises, PutTimesOut, Interrupt, Break, MainGoes, vars, main
  <2>2. unfinished = 0 /\ UNCHANGED <<shared, workers>>
    BY <2>1 DEF Join
  <2> QED BY <2>2, NothingUnfinished DEF shared, workers
<1> QED BY <1>1, <1>2

LEMMA VerdictStep == TypeOK /\ FileInv /\ VerdictInv /\ [Next]_vars => VerdictInv'
<1> SUFFICES ASSUME TypeOK, FileInv, VerdictInv, [Next]_vars PROVE VerdictInv'
  OBVIOUS
<1> USE DEF TypeOK, VerdictInv, Goes
<1>1. ASSUME NEW w \in Workers, Take(w) PROVE VerdictInv'
  <2>1. wpc[w] = "get" /\ wpc' = [wpc EXCEPT ![w] = "invoke"] /\ UNCHANGED <<failed, bad>>
    BY <1>1 DEF Take, history
  <2>2. \A v \in Workers : (wpc'[v] = "append" <=> wpc[v] = "append")
                           /\ (wpc[v] = "append" => name'[v] = name[v])
    BY <1>1, <2>1 DEF Take
  <2> HIDE DEF TypeOK
  <2> QED BY <2>1, <2>2
<1>2. ASSUME NEW w \in Workers, Invoke(w) PROVE VerdictInv'
  BY <1>2 DEF Invoke
<1>3. ASSUME NEW w \in Workers, Communicate(w) PROVE VerdictInv'
  <2>1. wpc[w] = "tidy" /\ UNCHANGED <<failed, name>>
    BY <1>3 DEF Communicate
  <2>2. CASE wpc' = [wpc EXCEPT ![w] = "print"] /\ bad' = bad
    BY <2>1, <2>2
  <2>3. CASE wpc' = [wpc EXCEPT ![w] = "append"] /\ bad' = bad \cup {name[w]}
    BY <2>1, <2>3
  <2> QED BY <1>3, <2>2, <2>3 DEF Communicate
<1>4. ASSUME NEW w \in Workers, AppendFailed(w) PROVE VerdictInv'
  BY <1>4 DEF AppendFailed, history
<1>5. ASSUME NEW w \in Workers, UnlockOutput(w) \/ LockOutput(w) \/ Raise(w) PROVE VerdictInv'
  BY <1>5 DEF UnlockOutput, LockOutput, Raise, history
<1>6. ASSUME NEW w \in Workers, ReportDone(w) PROVE VerdictInv'
  BY <1>6 DEF ReportDone, history
<1>7. CASE PutFile
  BY <1>7 DEF PutFile, workers, history
<1>8. CASE Elsewhere
  BY <1>8 DEF Elsewhere, workers, history
<1> QED BY <1>1, <1>2, <1>3, <1>4, <1>5, <1>6, <1>7, <1>8, StepCases DEF WorkerStep

LEMMA FileStep == TypeOK /\ FileInv /\ [Next]_vars => FileInv'
<1> SUFFICES ASSUME TypeOK, FileInv, [Next]_vars PROVE FileInv'
  OBVIOUS
<1> USE DEF Goes
<1>t. /\ queue \in Seq(Files) /\ Len(queue) \in Nat /\ next \in Nat /\ First \in Nat
      /\ runs \in [Files -> Nat] /\ kind \in [Files -> Kinds]
      /\ wpc \in [Workers -> WorkerPcs] /\ name \in [Workers -> Files \cup {None}]
      /\ \A f \in Files : f \in Nat
  BY TidyAssumption DEF TypeOK, FileInv, Files
<1>1. ASSUME NEW w \in Workers, Take(w) PROVE FileInv'
  <2>1. /\ wpc[w] = "get" /\ wpc' = [wpc EXCEPT ![w] = "invoke"]
        /\ queue # <<>> /\ queue' = Tail(queue) /\ name' = [name EXCEPT ![w] = queue[1]]
        /\ UNCHANGED <<kind, next, runs>>
    BY <1>1, <1>t DEF Take, Get, chosen, main, history
  <2>2. /\ Len(queue) > 0 /\ Len(queue') = Len(queue) - 1
        /\ \A i \in 1..Len(queue') : queue'[i] = queue[i + 1]
    BY <2>1, <1>t
  <2>3. First' = First + 1
    BY <2>1, <2>2, <1>t DEF First
  <2>4. queue[1] = First /\ queue[1] \in Files
    BY <2>2, <1>t DEF FileInv
  <2>5. \A i \in 1..Len(queue') : queue'[i] = First' + i - 1
    BY <2>2, <2>3, <1>t DEF FileInv
  <2>6. Busy' = Busy \cup {w} /\ w \notin Busy
    BY <2>1, <1>t DEF Busy
  <2>7. /\ name'[w] = First /\ wpc'[w] = "invoke"
        /\ \A v \in Workers : v # w => name'[v] = name[v] /\ wpc'[v] = wpc[v]
    BY <2>1, <2>4, <1>t
  <2>8. /\ \A v \in Busy' : name'[v] \in Files /\ name'[v] < First'
        /\ \A u, v \in Busy' : name'[u] = name'[v] => u = v
        /\ \A v \in Busy' : wpc'[v] = "invoke" => runs'[name'[v]] = 0
    BY <2>1, <2>3, <2>4, <2>6, <2>7, <1>t DEF FileInv, Busy
  <2>9. ASSUME NEW f \in Files, f < First'
        PROVE  \/ Settled(f)'
               \/ \E v \in Workers : name'[v] = f /\ wpc'[v] \in {"invoke", "dead"}
    <3>1. CASE f = First
      BY <3>1, <2>7
    <3>2. CASE f < First
      BY <3>2, <2>1, <2>7, <1>t DEF FileInv, Settled
    <3> QED BY <3>1, <3>2, <2>9, <2>3, <1>t
  <2> QED BY <2>1, <2>3, <2>5, <2>8, <2>9, <1>t DEF FileInv
<1>2. ASSUME NEW w \in Workers, Invoke(w) PROVE FileInv'
  <2> DEFINE f == name[w]
  <2>1. wpc[w] = "invoke" /\ UNCHANGED <<kind, queue, next, name>>
    BY <1>2 DEF Invoke, chosen, shared, main
  <2>2. /\ w \in Busy /\ f \in Files /\ f < First /\ f < next /\ runs[f] = 0
        /\ kind[f] # "unmatched"
    BY <2>1, <1>t DEF FileInv, Busy, First
  <2>3. First' = First /\ Busy' = Busy
    BY <1>2, <2>1, <1>t DEF Invoke, First, Busy
  <2>4. /\ wpc'[w] \in {"tidy", "done"}
        /\ \A v \in Workers : v # w => wpc'[v] = wpc[v] /\ (v \in Busy => name[v] # f)
    BY <1>2, <2>2, <1>t DEF Invoke, FileInv
  <2>5. /\ runs' \in [Files -> Nat]
        /\ runs'[f] = (IF kind[f] = "plain" THEN 1 ELSE 0)
        /\ \A g \in Files : g # f => runs'[g] = runs[g]
    BY <1>2, <2>2, <1>t DEF Invoke, ShouldSkip, Kinds
  <2>6. ASSUME NEW g \in Files, g < First
        PROVE  \/ Settled(g)'
               \/ \E v \in Workers : name'[v] = g /\ wpc'[v] \in {"invoke", "dead"}
    <3>1. CASE g = f
      BY <3>1, <2>1, <2>5 DEF Settled
    <3>2. CASE g # f
      BY <3>2, <2>1, <2>4, <2>5, <2>6 DEF FileInv, Settled
    <3> QED BY <3>1, <3>2
  <2>7. /\ \A g \in Files : runs'[g] \in {0, 1}
        /\ \A g \in Files : g >= First => runs'[g] = 0
        /\ \A v \in Busy : wpc'[v] = "invoke" => runs'[name[v]] = 0
    BY <2>2, <2>4, <2>5, <1>t DEF FileInv, Busy
  <2> HIDE DEF f
  <2> QED BY <2>1, <2>3, <2>6, <2>7 DEF FileInv
<1>3. ASSUME NEW w \in Workers,
             Communicate(w) \/ AppendFailed(w) \/ UnlockOutput(w) \/ LockOutput(w) \/ Raise(w)
      PROVE  FileInv'
  <2>1. UNCHANGED <<kind, queue, next, name, runs>>
    BY <1>3 DEF Communicate, AppendFailed, UnlockOutput, LockOutput, Raise, chosen, shared, main, history
  <2>2. First' = First /\ Busy' = Busy
    BY <1>3, <2>1, <1>t DEF Communicate, AppendFailed, UnlockOutput, LockOutput, Raise, First, Busy
  <2>3. \A v \in Workers :
          /\ wpc'[v] = "invoke" => wpc[v] = "invoke"
          /\ wpc[v] \in {"invoke", "dead"} => wpc'[v] \in {"invoke", "dead"}
    BY <1>3, <1>t DEF Communicate, AppendFailed, UnlockOutput, LockOutput, Raise
  <2>4. \A f \in Files : f < First =>
          \/ Settled(f)'
          \/ \E v \in Workers : name[v] = f /\ wpc'[v] \in {"invoke", "dead"}
    BY <2>1, <2>3 DEF FileInv, Settled
  <2>5. \A v \in Busy : wpc'[v] = "invoke" => runs[name[v]] = 0
    BY <2>3 DEF FileInv, Busy
  <2> QED BY <2>1, <2>2, <2>4, <2>5 DEF FileInv
<1>4. ASSUME NEW w \in Workers, ReportDone(w) PROVE FileInv'
  <2>1. /\ wpc[w] = "done" /\ wpc' = [wpc EXCEPT ![w] = "get"] /\ name' = [name EXCEPT ![w] = None]
        /\ UNCHANGED <<kind, queue, next, runs>>
    BY <1>4 DEF ReportDone, TaskDone, chosen, main, history
  <2>2. First' = First /\ Busy' = Busy \ {w}
    BY <2>1, <1>t DEF First, Busy
  <2>3. \A v \in Workers : v # w => wpc'[v] = wpc[v] /\ name'[v] = name[v]
    BY <2>1, <1>t
  <2>4. ASSUME NEW f \in Files, f < First
        PROVE  \/ Settled(f)'
               \/ \E v \in Workers : name'[v] = f /\ wpc'[v] \in {"invoke", "dead"}
    <3>1. CASE Settled(f)
      BY <3>1, <2>1 DEF Settled
    <3>2. ASSUME NEW v \in Workers, name[v] = f, wpc[v] \in {"invoke", "dead"}
          PROVE  name'[v] = f /\ wpc'[v] \in {"invoke", "dead"}
      BY <3>2, <2>1, <2>3
    <3> QED BY <3>1, <3>2, <2>4 DEF FileInv
  <2>5. /\ \A v \in Busy' : name'[v] \in Files /\ name'[v] < First
        /\ \A u, v \in Busy' : name'[u] = name'[v] => u = v
        /\ \A v \in Busy' : wpc'[v] = "invoke" => runs[name'[v]] = 0
    BY <2>2, <2>3 DEF FileInv, Busy
  <2> QED BY <2>1, <2>2, <2>4, <2>5 DEF FileInv
<1>5. CASE PutFile
  <2>1. /\ next \in Files /\ kind[next] # "unmatched" /\ queue' = Append(queue, next) /\ next' = next + 1
        /\ UNCHANGED <<kind, wpc, name, runs>>
    BY <1>5 DEF PutFile, Put, chosen, workers, history
  <2>2. Len(queue') = Len(queue) + 1 /\ First' = First /\ Busy' = Busy
    BY <2>1, <1>t DEF First, Busy
  <2>3. \A i \in 1..Len(queue') : queue'[i] = First + i - 1
    <3>1. \A i \in 1..Len(queue) : queue'[i] = queue[i]
      BY <2>1, <1>t
    <3>2. queue'[Len(queue) + 1] = next
      BY <2>1, <1>t
    <3>3. next = First + (Len(queue) + 1) - 1
      BY <1>t DEF First
    <3>4. \A i \in 1..Len(queue) : queue[i] = First + i - 1
      BY DEF FileInv
    <3> HIDE DEF First
    <3>5. \A i \in 1..Len(queue') : i \in 1..Len(queue) \/ i = Len(queue) + 1
      BY <2>2, <1>t
    <3> QED BY <3>1, <3>2, <3>3, <3>4, <3>5
  <2>4. \A f \in Files : f < next' => kind'[f] # "unmatched"
    BY <2>1, <1>t DEF FileInv
  <2> QED BY <2>1, <2>2, <2>3, <2>4 DEF FileInv, Settled
<1>6. CASE Elsewhere
  BY <1>6 DEF Elsewhere, shared, workers, history, FileInv, First, Busy, Settled
<1> QED BY <1>1, <1>2, <1>3, <1>4, <1>5, <1>6, StepCases DEF WorkerStep

LEMMA MainKeepsStep == TypeOK /\ CountInv /\ VerdictInv /\ JoinedIsQuiet /\ MainInv /\ [Next]_vars => MainInv'
<1> SUFFICES ASSUME TypeOK, CountInv, VerdictInv, JoinedIsQuiet, MainInv, [Next]_vars PROVE MainInv'
  OBVIOUS
<1> USE DEF MainInv, MainGoes, Joined, shared, workers
<1>1. ASSUME NEW w \in Workers, WorkerStep(w) \/ LockOutput(w) \/ Raise(w), ~Ended PROVE MainInv'
  <2>1. ~Joined
    BY <1>1 DEF JoinedIsQuiet, WorkerStep, Take, Get, Invoke, Communicate, AppendFailed, UnlockOutput,
       ReportDone, LockOutput, Raise, Goes
  <2>2. UNCHANGED <<opts, mpc, next, code, tmpdir, left>>
    BY <1>1 DEF WorkerStep, Take, Invoke, Communicate, AppendFailed, UnlockOutput, ReportDone, LockOutput,
       Raise, chosen, main, dir
  <2>3. mpc \notin {"prepare", "made", "start"}
    BY <1>1 DEF WorkerStep, Take, Get, Invoke, Communicate, AppendFailed, UnlockOutput,
       ReportDone, LockOutput, Raise, Goes
  <2> QED BY <1>1, <2>1, <2>2, <2>3 DEF Ended
<1>2. CASE PutFile
  BY <1>2 DEF PutFile, chosen, dir
<1>3. CASE Refuse \/ Prepare \/ CompileFilter \/ StartThreads
  BY <1>3 DEF Refuse, Prepare, CompileFilter, StartThreads, chosen, dir
<1>4. CASE Retry \/ PutTimesOut \/ Interrupt
  BY <1>4 DEF Retry, PutTimesOut, Interrupt, chosen, dir
<1>b. CASE Break
  BY <1>b DEF Break, Breakable, RemoveDir, chosen
<1>5. CASE Filled
  BY <1>5, TidyAssumption DEF Filled, chosen, dir, Files, TypeOK
<1>6. CASE Join
  <2>1. bad = failed
    BY <1>6, NothingUnfinished DEF Join, VerdictInv
  <2> QED BY <1>6, <2>1 DEF Join, chosen, dir, history
<1>7. CASE Export
  BY <1>7 DEF Export, chosen, dir, history, TypeOK
<1>8. CASE Fix
  BY <1>8 DEF Fix, chosen, dir, history
<1>9. CASE Clean \/ KillGroup
  BY <1>9 DEF Clean, KillGroup, RemoveDir, chosen, history
<1>10. CASE RmtreeRaises
  BY <1>10 DEF RmtreeRaises, chosen, dir
<1>11. CASE UNCHANGED vars
  BY <1>11 DEF vars, chosen, main, dir, history
<1> QED BY <1>1, <1>2, <1>3, <1>4, <1>5, <1>6, <1>7, <1>8, <1>9, <1>10, <1>11, <1>b DEF Next, MainStep, Spin

LEMMA IInvInit == Init => IInv
<1> SUFFICES ASSUME Init PROVE IInv
  OBVIOUS
<1>1. Busy = {} /\ Len(queue) = 0
  BY DEF Init, Busy
<1>2. CountInv
  BY <1>1, FS_EmptySet DEF Init, CountInv
<1>3. FileInv
  BY <1>1, TidyAssumption DEF Init, FileInv, First, Files
<1>4. VerdictInv /\ JoinedIsQuiet /\ MainInv
  BY DEF Init, VerdictInv, JoinedIsQuiet, Joined, MainInv
<1> QED BY <1>2, <1>3, <1>4, TypeInit DEF IInv

THEOREM Invariant == Spec => []IInv
<1>1. IInv /\ [Next]_vars => IInv'
  BY TypeStep, CountStep, FileStep, VerdictStep, QuietStep, MainKeepsStep DEF IInv
<1> QED BY IInvInit, <1>1, PTL DEF Spec

-----------------------------------------------------------------------------
\* Types; the queue never exceeds its bound, and task_done is never called once
\* too often (run_clang_tidy.py:191 and 285).
THEOREM TypeCorrect == Spec => []TypeOK
<1>1. IInv => TypeOK
  BY DEF IInv
<1> QED BY <1>1, Invariant, PTL

\* When join returns, every file has been dealt with and no thread has one
\* (run_clang_tidy.py:191 and 325).
THEOREM JoinMeansQuiet == Spec => []JoinedIsQuiet
<1>1. IInv => JoinedIsQuiet
  BY DEF IInv
<1> QED BY <1>1, Invariant, PTL

\* clang-tidy runs at most once per file, and behind the join exactly on the files
\* that are not excluded (run_clang_tidy.py:166-173 and 311-325).
THEOREM ChecksEachOnce == Spec => []EachCheckedOnce
<1>1. ASSUME IInv PROVE EachCheckedOnce
  <2>1. \A f \in Files : runs[f] <= 1
    BY <1>1 DEF IInv, FileInv
  <2>2. ASSUME Joined, NEW f \in Files
        PROVE  kind[f] # "unmatched" /\ (runs[f] = 1 <=> kind[f] = "plain")
    <3>1. queue = <<>> /\ (\A w \in Workers : wpc[w] = "get") /\ next = NFiles + 1
      BY <1>1, <2>2 DEF IInv, JoinedIsQuiet, MainInv
    <3>2. f < First /\ f < next
      BY <3>1, TidyAssumption DEF First, Files
    <3>3. Settled(f) /\ kind[f] # "unmatched"
      BY <1>1, <3>1, <3>2 DEF IInv, FileInv
    <3> QED BY <3>3 DEF Settled
  <2> QED BY <2>1, <2>2 DEF EachCheckedOnce
<1> QED BY <1>1, Invariant, PTL

\* The exit code is 1 when clang-tidy found fault with a file, and 0 when it did
\* not and nothing was exported or applied (run_clang_tidy.py:174-175 and 327-328).
THEOREM ExitCodeIsVerdict == Spec => []ExitCodeTells
<1>1. IInv => ExitCodeTells
  BY DEF IInv, MainInv, ExitCodeTells, Joined
<1> QED BY <1>1, Invariant, PTL

\* sys.exit and the SIGKILL leave no directory, an rmtree that raises only under a
\* thread that writes, an exception before the first put no file in it
\* (run_clang_tidy.py:277-293, 334-340 and 360-364).
THEOREM DirectoryGoes == Spec => []NothingLeftBehind
<1>1. IInv => NothingLeftBehind
  BY DEF IInv, MainInv, NothingLeftBehind, Ended
<1> QED BY <1>1, Invariant, PTL
=============================================================================
